------------------------------ MODULE TriageRun ------------------------------
(***************************************************************************)
(* One command `appsec-triage triage`, attempted again and again on the    *)
(* same output directory: cli/common.py run_triage plans what to reuse     *)
(* (reuse.py), recovers the journal of an interrupted attempt              *)
(* (report/audit.py), hands the rest to TriagePipeline.run (pipeline.py),  *)
(* whose pool of workers decides the findings while the main thread        *)
(* journals each verdict, and at last writes the verdicts file and unlinks *)
(* the journal.  Between attempts the operator may edit the code.          *)
(*                                                                         *)
(* The disk is `journal`, `tail`, `loose`, `garbled`, `report` and         *)
(* `readable`; everything else but `rev` and the bound `crashes` is memory *)
(* of the process, and is gone when it stops.                              *)
(***************************************************************************)
EXTENDS Naturals, FiniteSets

CONSTANTS
  Findings,    \* the findings of the input, one value per position in it
  Id,          \* Id[f]: the finding_id of f, by which the journal is recovered
  Sig,         \* Sig[f]: rule, cwe and path of f
  Snippet,     \* Snippet[f][n]: the lines the scanner quotes of f once its code had n edits
  InScope,     \* the findings scope.apply keeps
  Workers,     \* size of the pool: min(max_workers, provider concurrency)
  MaxRev,      \* bound: how often the operator edits the code of a finding
  MaxCrashes   \* bound: how often the process is killed

ASSUME RunAssumption ==
  /\ Findings # {} /\ IsFiniteSet(Findings)
  /\ DOMAIN Id = Findings /\ DOMAIN Sig = Findings /\ DOMAIN Snippet = Findings
  /\ \A f \in Findings : DOMAIN Snippet[f] = 0..MaxRev
  /\ InScope \subseteq Findings
  /\ Workers \in Nat \ {0}
  /\ MaxRev \in Nat /\ MaxCrashes \in Nat

VARIABLES
  rev,         \* rev[f]: how often the code a verdict on f rests on was edited
  journal,     \* verdicts on the terminated, parsable lines of *.jsonl.partial
  tail,        \* what follows the journal's last newline: nothing, a cut or a whole row
  loose,       \* the verdict of that whole row (at most one)
  garbled,     \* the journal holds bytes that are no UTF-8: a row cut inside a character
  report,      \* verdicts in verdicts-<provider>.jsonl
  readable,    \* every line of the verdicts file parses ("absent": there is no file)
  main,        \* where run_triage is, "idle" when no process runs
  work,        \* work[f]: the future of f
  results,     \* what the futures that are done hold
  recovered,   \* verdicts taken from the journal at the start
  reused,      \* verdicts taken from the earlier report at the start
  excluded,    \* verdicts of the scope filter
  fatal,       \* client.fatal_error is set: the provider refused the credentials
  exit,        \* how the last attempt ended
  crashes

disk == <<journal, tail, loose, garbled, report, readable>>
plan == <<recovered, reused, excluded>>
vars == <<rev, disk, main, work, results, plan, fatal, exit, crashes>>

-----------------------------------------------------------------------------
(* A verdict: the finding it was decided about, on which revision of the   *)
(* code, whether --redo asks for it again (unknown, error, overridden),    *)
(* and whether a call it needed was refused for its credentials.           *)
Rec == [by : Findings, rev : 0..MaxRev, redo : BOOLEAN, refused : BOOLEAN]

\* Fault: a fingerprint that leaves out the snippet.
FingerprintOfRule(f, n) == <<Sig[f]>>

\* Of the code only the snippet: an edit beside it (of a caller, a sanitizer, the rest of the
\* function) leaves the fingerprint as it was.
Fingerprint(f, n) == <<Sig[f], Snippet[f][n]>>
Of(f)       == {r \in results : r.by = f}
Answered(S) == {r.by : r \in S}
AllTaken    == \A f \in Findings : work[f] \in {"out", "taken"}
Running     == {f \in Findings : work[f] \in {"running", "refused"}}

ScopeVerdict(f) == [by |-> f, rev |-> rev[f], redo |-> TRUE, refused |-> FALSE]

Init ==
  /\ rev = [f \in Findings |-> 0]
  /\ journal = {} /\ tail = "nothing" /\ loose = {} /\ garbled = FALSE
  /\ report = {} /\ readable = "absent"
  /\ main = "idle" /\ exit = "none"
  /\ work = [f \in Findings |-> "out"]
  /\ results = {} /\ recovered = {} /\ reused = {} /\ excluded = {}
  /\ fatal = FALSE /\ crashes = 0

-----------------------------------------------------------------------------
(* The start of an attempt. *)

\* reuse.plan: the first verdict with the finding's fingerprint, unless it is to be redone.
Matching(f) == {r \in report : Fingerprint(r.by, r.rev) = Fingerprint(f, rev[f])}
Earlier(f)  == CHOOSE r \in Matching(f) : TRUE
Reusable(use) ==
  IF use /\ readable = "yes"
    THEN {f \in Findings : Matching(f) # {} /\ ~Earlier(f).redo}
    ELSE {}

\* Fault: the journal is opened but not read.
RecoverableNone(fresh) == {}

\* Journal.recover, and the filter on the ids this attempt wants.
Recoverable(fresh) ==
  {r \in journal \cup loose : \E f \in fresh : Id[f] = Id[r.by]}

\* scope.apply, over what is neither reused nor recovered.
OutOfScope(left) == {ScopeVerdict(f) : f \in left \ InScope}

\* A setting, a provider, a language server or an input that is not usable: run_triage returns
\* before it looks at the output directory.
Decline ==
  /\ main = "idle"
  /\ exit' = "error"
  /\ UNCHANGED <<rev, disk, main, work, results, plan, fatal, crashes>>

Start(use) ==
  /\ main = "idle" /\ ~garbled
  /\ LET fresh == Findings \ Reusable(use)
         left  == {f \in fresh : \A r \in Recoverable(fresh) : Id[r.by] # Id[f]}
     IN  /\ reused' = {Earlier(f) : f \in Reusable(use)}
         /\ recovered' = Recoverable(fresh)
         /\ excluded' = OutOfScope(left)
         /\ work' = [f \in Findings |-> IF f \in left \cap InScope THEN "queued" ELSE "out"]
  /\ main' = "construct" /\ exit' = "none"
  /\ results' = {} /\ fatal' = FALSE
  /\ UNCHANGED <<rev, disk, crashes>>

\* read_text decodes the whole journal before any line of it is looked at, and nobody
\* catches the UnicodeDecodeError.
StartUndecodable ==
  /\ main = "idle" /\ garbled
  /\ exit' = "traceback"
  /\ UNCHANGED <<rev, disk, main, work, results, plan, fatal, crashes>>

\* The process is gone: what it held in memory with it.
Stop(how) ==
  /\ main' = "idle" /\ exit' = how
  /\ work' = [f \in Findings |-> "out"]
  /\ results' = {} /\ recovered' = {} /\ reused' = {} /\ excluded' = {}
  /\ fatal' = FALSE

\* TriagePipeline.__init__ reads the deployment, the lock files and the routes, and finds the
\* engines; a call graph that was asked for and cannot be read ends the attempt.
Construct ==
  /\ main = "construct"
  /\ main' = "prepare"
  /\ UNCHANGED <<rev, disk, work, results, plan, fatal, exit, crashes>>

Unavailable ==
  /\ main = "construct"
  /\ Stop("error")
  /\ UNCHANGED <<rev, disk, crashes>>

Prepare ==
  /\ main = "prepare"
  /\ main' = "wait"
  /\ UNCHANGED <<rev, disk, work, results, plan, fatal, exit, crashes>>

\* dep_chain.prepare asks the model too; _raise_if_fatal before the pool is built.
PrepareRefused ==
  /\ main = "prepare"
  /\ Stop("refused")
  /\ UNCHANGED <<rev, disk, crashes>>

-----------------------------------------------------------------------------
(* The workers. *)

Begin(f) ==
  /\ main \in {"wait", "check", "journal"}
  /\ work[f] = "queued" /\ Cardinality(Running) < Workers
  /\ work' = [work EXCEPT ![f] = "running"]
  /\ UNCHANGED <<rev, disk, main, results, plan, fatal, exit, crashes>>

\* A call of this finding is answered 401 or 403, or is not sent because one was.
Refuse(f) ==
  /\ work[f] = "running"
  /\ work' = [work EXCEPT ![f] = "refused"]
  /\ fatal' = TRUE
  /\ UNCHANGED <<rev, disk, main, results, plan, exit, crashes>>

\* triage_one returned, or raised and will be given an error record.
Finish(f) ==
  /\ f \in Running
  /\ work' = [work EXCEPT ![f] = "done"]
  /\ \E again \in BOOLEAN :
       results' = results \cup
         {[by |-> f, rev |-> rev[f], redo |-> again, refused |-> work[f] = "refused"]}
  /\ UNCHANGED <<rev, disk, main, plan, fatal, exit, crashes>>

-----------------------------------------------------------------------------
(* The main thread over as_completed. *)

Yield(f) ==
  /\ main = "wait" /\ work[f] = "done"
  /\ work' = [work EXCEPT ![f] = "yielded"]
  /\ main' = "check"
  /\ UNCHANGED <<rev, disk, results, plan, fatal, exit, crashes>>

\* Fault: fatal_error is looked at when the loop is over.
CheckLater ==
  /\ main = "check"
  /\ main' = "journal"
  /\ UNCHANGED <<rev, disk, work, results, plan, fatal, exit, crashes>>

Check ==
  /\ main = "check" /\ ~fatal
  /\ main' = "journal"
  /\ UNCHANGED <<rev, disk, work, results, plan, fatal, exit, crashes>>

\* Fault: the refused result is passed over, and the loop goes on without it.
CheckFatalOver ==
  /\ main = "check" /\ fatal
  /\ main' = "wait"
  /\ UNCHANGED <<rev, disk, work, results, plan, fatal, exit, crashes>>

CheckFatal ==
  /\ main = "check" /\ fatal
  /\ Stop("refused")
  /\ UNCHANGED <<rev, disk, crashes>>

\* Fault: the journal is opened anew for every row.
AppendOver(S) ==
  /\ journal' = S
  /\ tail' = "nothing" /\ loose' = {}
  /\ UNCHANGED garbled

\* One row and its newline.  After an unterminated row both are one line that no parser
\* takes, so the verdict of either is gone.
Append(S) ==
  /\ journal' = IF tail = "nothing" THEN journal \cup S ELSE journal
  /\ tail' = "nothing" /\ loose' = {}
  /\ UNCHANGED garbled

\* A row that was not written to its end: how much of it got there.
AppendTorn(S) ==
  /\ UNCHANGED journal
  /\ \/ UNCHANGED <<tail, loose, garbled>>
     \/ /\ tail' = "cut" /\ loose' = {}
        /\ garbled' \in {garbled, TRUE}
     \/ /\ tail = "nothing"
        /\ tail' = "row" /\ loose' = S
        /\ UNCHANGED garbled

Journal(f) ==
  /\ main = "journal" /\ work[f] = "yielded"
  /\ Append(Of(f))
  /\ work' = [work EXCEPT ![f] = "taken"]
  /\ main' = "wait"
  /\ UNCHANGED <<rev, report, readable, results, plan, fatal, exit, crashes>>

\* on_record raised, which is logged: the verdict stays in memory.
JournalFails(f) ==
  /\ main = "journal" /\ work[f] = "yielded"
  /\ AppendTorn(Of(f))
  /\ work' = [work EXCEPT ![f] = "taken"]
  /\ main' = "wait"
  /\ UNCHANGED <<rev, report, readable, results, plan, fatal, exit, crashes>>

-----------------------------------------------------------------------------
(* The end: write_jsonl truncates and rewrites, then the journal goes. *)

\* Fault: the report has what this attempt decided.
OutcomeOfAttempt == results \cup reused \cup excluded

Outcome == results \cup recovered \cup reused \cup excluded

OpenReport ==
  /\ main = "wait" /\ AllTaken
  /\ report' = {} /\ readable' = "yes"
  /\ main' = "write"
  /\ UNCHANGED <<rev, journal, tail, loose, garbled, work, results, plan, fatal, exit, crashes>>

WriteRow(r) ==
  /\ main = "write" /\ r \in Outcome \ report
  /\ report' = report \cup {r}
  /\ UNCHANGED <<rev, journal, tail, loose, garbled, readable, main, work, results, plan,
                 fatal, exit, crashes>>

CloseReport ==
  /\ main = "write" /\ Outcome \subseteq report
  /\ main' = "unlink"
  /\ UNCHANGED <<rev, disk, work, results, plan, fatal, exit, crashes>>

Unlink ==
  /\ main = "unlink"
  /\ journal' = {} /\ tail' = "nothing" /\ loose' = {} /\ garbled' = FALSE
  /\ main' = "present"
  /\ UNCHANGED <<rev, report, readable, work, results, plan, fatal, exit, crashes>>

\* The summary, the pages and the upgrade plan, any of which may fail; --fail-on, and a chain that
\* settled no dependency, fail the job.
Present ==
  /\ main = "present"
  /\ \E how \in {"ok", "error"} : Stop(how)
  /\ UNCHANGED <<rev, disk, crashes>>

-----------------------------------------------------------------------------
(* What the process does not control. *)

\* Killed, or interrupted from the keyboard; a row being written may be cut.
Crash ==
  /\ main # "idle" /\ crashes < MaxCrashes
  /\ crashes' = crashes + 1
  /\ Stop("killed")
  /\ IF main = "journal"
       THEN \E f \in Findings : work[f] = "yielded" /\ AppendTorn(Of(f))
       ELSE UNCHANGED <<journal, tail, loose, garbled>>
  /\ readable' \in IF main = "write" THEN {"yes", "no"} ELSE {readable}
  /\ UNCHANGED <<rev, report>>

\* The tree does not change while it is triaged (sourcetext.py).
Edit(f) ==
  /\ main = "idle" /\ rev[f] < MaxRev
  /\ rev' = [rev EXCEPT ![f] = @ + 1]
  /\ UNCHANGED <<disk, main, work, results, plan, fatal, exit, crashes>>

MainStep ==
  \/ Construct \/ Unavailable \/ Prepare \/ PrepareRefused
  \/ Check \/ CheckFatal
  \/ \E f \in Findings : Yield(f) \/ Journal(f) \/ JournalFails(f)
  \/ OpenReport
  \/ \E r \in Outcome : WriteRow(r)
  \/ CloseReport \/ Unlink \/ Present

WorkerStep(f) == Begin(f) \/ Refuse(f) \/ Finish(f)

Next ==
  \/ \E use \in BOOLEAN : Start(use)
  \/ Decline \/ StartUndecodable
  \/ MainStep
  \/ \E f \in Findings : WorkerStep(f)
  \/ Crash
  \/ \E f \in Findings : Edit(f)

Spec == Init /\ [][Next]_vars

\* The main thread is never blocked but on a future, and every call a worker makes ends by
\* a timeout; the pool starts a queued task whenever a thread is free.
Fairness ==
  /\ WF_vars(MainStep)
  /\ \A f \in Findings : WF_vars(Begin(f)) /\ WF_vars(Finish(f))

FairSpec == Spec /\ Fairness

-----------------------------------------------------------------------------
(* Correctness. *)

\* What recover and plan take for granted: an id, and a fingerprint, name one finding.
NamesDistinct ==
  \A f, g \in Findings :
    \/ Id[f] = Id[g]
    \/ \E m, n \in 0..MaxRev : Fingerprint(f, m) = Fingerprint(g, n)
    => f = g

\* The shape of the state: a cut journal row, a future or a file is in one of its states.
TypeOK ==
  /\ rev \in [Findings -> 0..MaxRev]
  /\ journal \subseteq Rec /\ loose \subseteq Rec /\ report \subseteq Rec
  /\ tail \in {"nothing", "cut", "row"} /\ garbled \in BOOLEAN
  /\ readable \in {"absent", "yes", "no"}
  /\ main \in {"idle", "construct", "prepare", "wait", "check", "journal", "write", "unlink",
               "present"}
  /\ work \in [Findings ->
       {"out", "queued", "running", "refused", "done", "yielded", "taken"}]
  /\ results \subseteq Rec /\ recovered \subseteq Rec
  /\ reused \subseteq Rec /\ excluded \subseteq Rec
  /\ fatal \in BOOLEAN
  /\ exit \in {"none", "ok", "refused", "killed", "traceback", "error"}
  /\ crashes \in 0..MaxCrashes

\* No verdict that a credentials refusal had a part in is ever on the disk: the check of
\* fatal_error before a result is looked at keeps it out of the journal, hence out of the
\* next attempt and of the report (pipeline.py run).
NoRefusedVerdict == \A r \in journal \cup loose \cup report : ~r.refused

\* Once the report is written every finding of the input has its verdict in it, whatever
\* was reused, recovered, excluded or decided anew and however often the run was killed.
EveryFindingAnswered == main = "unlink" => Findings \subseteq Answered(report)

\* A verdict in the finished report is about the code as it is but for two gaps: recover
\* compares no fingerprint, so the journal of an interrupted attempt answers for any edit; and
\* plan compares one that sees the snippet alone, so the earlier report answers for an edit
\* that leaves the snippet as it was.  Nothing else brings a stale verdict back, through any
\* number of kills, reuses and edits.
StaleOnlyUnseen ==
  main = "unlink" =>
    \A r \in report :
      \/ r.rev = rev[r.by]
      \/ r \in recovered
      \/ r \in reused /\ Snippet[r.by][r.rev] = Snippet[r.by][rev[r.by]]

\* reuse.py fingerprint: "Stable across line shifts, sensitive to the code actually changing".
\* What is reused from the report is about the code as it is.
ReusedIsCurrent == main = "unlink" => \A r \in reused : r.rev = rev[r.by]

\* The journal of an interrupted attempt is trusted: no attempt starts (and pays for) the
\* triage of a finding whose verdict the journal holds.
DecidedOnce ==
  [][\A f \in Findings :
       work[f] = "queued" /\ work'[f] = "running" => f \notin Answered(journal)]_vars

\* No journaled verdict goes before a report that answers every finding is there.
JournalOutlivesReport ==
  [][journal \subseteq journal'
     \/ (readable = "yes" /\ Findings \subseteq Answered(report))]_vars

\* Every attempt comes to an end: the loop over the futures waits for no future that will
\* not be done, and a refusal stops it.
AttemptEnds == main # "idle" ~> main = "idle"

\* An attempt after a kill comes as far as the verdicts it can recover
\* (audit.py recover: "Verdicts from an interrupted run").
ResumeStarts == exit # "traceback"
=============================================================================
