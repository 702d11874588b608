------------------------------- MODULE PsalmApi -------------------------------
(***************************************************************************)
(* Asking Psalm about PHP methods (sca/psalm_api.py), by the workers that  *)
(* triage findings of one project at the same time.  They share            *)
(*   - one call index: the first asker builds it, the rest wait;           *)
(*   - one search per method, when there is no index;                      *)
(*   - taint analyses: methods asked for while an analysis waits for its   *)
(*     turn join it;                                                       *)
(*   - the slots, as many Psalm processes as the memory measured so far    *)
(*     allows;                                                             *)
(*   - the files left out because Psalm crashes on them.                   *)
(* A config file names the files left out when it is written; but for an   *)
(* analysis that is before the process that reads it gets its slot.        *)
(***************************************************************************)
EXTENDS Naturals, Sequences, FiniteSets

CONSTANTS
  Askers,         \* the workers' calls of run(), one each
  Prefetcher,     \* the thread of prefetch()
  Methods,        \* the library methods asked about
  Functions,      \* those that are plain functions: they need no call index
  Wants,          \* Wants[t]: the methods asker t asks about
  Bad,            \* the project files Psalm crashes on
  Telling,        \* the line that names the file says too that Psalm crashed: then
                  \* crash_cause knows a crash by the problem a thread was given
  MaxUnreadable,  \* MAX_UNREADABLE
  MaxParallel,    \* bound: the most processes the memory could hold
  MaxFails        \* bound: runs of Psalm or PHP that end in a timeout or an odd exit code

ASSUME PsalmAssumption ==
  /\ Prefetcher \notin Askers /\ "nobody" \notin Askers \cup {Prefetcher}
  /\ Bad \cap {"none", "building", "pending", "ok", "fail"} = {}
  /\ Functions \subseteq Methods
  /\ Wants \in [Askers -> (SUBSET Methods) \ {{}}]
  /\ Telling \in BOOLEAN
  /\ MaxUnreadable \in Nat /\ MaxParallel \in Nat \ {0} /\ MaxFails \in Nat

VARIABLES
  excluded,   \* _UNREADABLE: the files left out
  builds,     \* the call indexes ever begun: what became of each
  current,    \* _INDEXES: the build askers find, 0 for none
  found,      \* _REFERENCES: methods with a search result
  seeker,     \* _REFERENCES_PENDING: who searches for a method
  runs,       \* the taint analyses ever begun
  gathering,  \* _TAINT_NEXT: the analysis methods join, 0 for none
  pending,    \* _TAINT_PENDING: the analysis that will answer a method, 0 for none
  taint,      \* _TAINT: methods with a result
  analysed,   \* methods that were sinks of an analysis that ended well (history)
  pc, at, job, conf, base, before, result, tries, known, parts, todo, late,
              \* the threads: see ThreadInit
  slots,      \* threads in a slot (_RUNNING is how many)
  asleep,     \* threads waiting on _GATE, not notified since
  measured,   \* _MEASURED
  room,       \* what parallel_limit() answers once measured
  fails

shared == <<excluded, builds, current, found, seeker, runs, gathering, pending, taint, analysed>>
gate   == <<slots, asleep, measured, room>>
local  == <<at, job, conf, base, before, result, tries, known, parts, todo, late>>
vars   == <<shared, pc, local, gate, fails>>

Threads == Askers \cup {Prefetcher}
Nobody  == "nobody"

\* parallel_limit: one until one has been measured.
Limit == IF measured THEN room ELSE 1

\* The methods whose calls the asker looks up: all but functions.
Searched(t) == Wants[t] \ Functions

ThreadInit ==
  /\ pc = [t \in Threads |-> "ask"]
  /\ at = [t \in Threads |-> 0]          \* the build or the analysis it is at
  /\ job = [t \in Threads |-> "none"]    \* what it wants a slot for
  /\ conf = [t \in Threads |-> {}]       \* files its config leaves out
  /\ base = [t \in Threads |-> {}]       \* files the config of its searches leaves out
  /\ before = [t \in Threads |-> {}]     \* run(): files left out when it asked last
  /\ result = [t \in Threads |-> "none"] \* how Psalm ended, or the problem of the answer
  /\ tries = [t \in Threads |-> 0]
  /\ known = [t \in Threads |-> {}]      \* methods whose references it has
  /\ parts = [t \in Threads |-> {}]      \* analyses that answer it
  /\ todo = [t \in Threads |-> {}]       \* those it has not seen the end of
  /\ late = [t \in Threads |-> {}]       \* those led by others when it sorted them

Init ==
  /\ excluded = {} /\ builds = <<>> /\ current = 0
  /\ found = {} /\ seeker = [m \in Methods |-> Nobody]
  /\ runs = <<>> /\ gathering = 0 /\ pending = [m \in Methods |-> 0]
  /\ taint = {} /\ analysed = {}
  /\ ThreadInit
  /\ slots = {} /\ asleep = {} /\ measured = FALSE /\ room \in 1..MaxParallel
  /\ fails = 0

Goto(t, label) == pc' = [pc EXCEPT ![t] = label]

\* _run_once returns: its variables are gone.
Return(t) ==
  /\ at' = [at EXCEPT ![t] = 0] /\ job' = [job EXCEPT ![t] = "none"]
  /\ conf' = [conf EXCEPT ![t] = {}] /\ base' = [base EXCEPT ![t] = {}]
  /\ known' = [known EXCEPT ![t] = {}]
  /\ parts' = [parts EXCEPT ![t] = {}] /\ todo' = [todo EXCEPT ![t] = {}]
  /\ late' = [late EXCEPT ![t] = {}]

-----------------------------------------------------------------------------
(* run(): the question is asked, and asked again without a file that crashed. *)

Ask(t) ==
  /\ pc[t] = "ask" /\ t # Prefetcher
  /\ before' = [before EXCEPT ![t] = excluded]
  /\ result' = [result EXCEPT ![t] = "none"]
  /\ Goto(t, IF Searched(t) # {} THEN "index" ELSE "join")
  /\ UNCHANGED <<shared, at, job, conf, base, tries, known, parts, todo, late, gate, fails>>

\* No signature was read: Psalm is not asked at all.
AskInVain(t) ==
  /\ pc[t] = "ask" /\ t # Prefetcher /\ fails < MaxFails
  /\ before' = [before EXCEPT ![t] = excluded]
  /\ result' = [result EXCEPT ![t] = "fail"]
  /\ fails' = fails + 1
  /\ Goto(t, "judge")
  /\ UNCHANGED <<shared, at, job, conf, base, tries, known, parts, todo, late, gate>>

\* prefetch(): the index is begun before any finding asks, and again without a file that crashed.
Prefetch(t) ==
  /\ pc[t] = "ask" /\ t = Prefetcher
  /\ result' = [result EXCEPT ![t] = "none"]
  /\ Goto(t, "index")
  /\ UNCHANGED <<shared, at, job, conf, base, before, tries, known, parts, todo, late, gate, fails>>

\* exclude_crashed_file: a file already left out, or one too many, is not left out.
Excludable(f) == f \in Bad \ excluded /\ Cardinality(excluded) < MaxUnreadable

\* The answer has a problem.  Ask again if its file was left out now, or since the
\* question was asked (the second of which prefetch does not look at).
Judge(t) ==
  /\ pc[t] = "judge"
  /\ LET f     == result[t]
         newly == t # Prefetcher /\ f \in excluded \ before[t]
         again == tries[t] < MaxUnreadable /\ (Excludable(f) \/ newly)
     IN  /\ excluded' = IF tries[t] < MaxUnreadable /\ Excludable(f)
                          THEN excluded \cup {f} ELSE excluded
         /\ tries' = IF again THEN [tries EXCEPT ![t] = @ + 1] ELSE tries
         /\ Goto(t, IF again THEN "ask" ELSE "failed")
  /\ Return(t)
  /\ UNCHANGED <<builds, current, found, seeker, runs, gathering, pending, taint, analysed,
                 before, result, gate, fails>>

-----------------------------------------------------------------------------
(* _call_index. *)

CallIndex(t) ==
  /\ pc[t] = "index"
  /\ base' = [base EXCEPT ![t] = excluded]
  /\ IF current = 0
       THEN /\ builds' = Append(builds, "building")
            /\ current' = Len(builds) + 1
            /\ Goto(t, "build")
       ELSE /\ UNCHANGED <<builds, current>>
            /\ Goto(t, "await")
  /\ at' = [at EXCEPT ![t] = current']
  /\ UNCHANGED <<excluded, found, seeker, runs, gathering, pending, taint, analysed,
                 job, conf, before, result, tries, known, parts, todo, late, gate, fails>>

\* _build_index writes the config, then queues for a slot.
Build(t) ==
  /\ pc[t] = "build"
  /\ conf' = [conf EXCEPT ![t] = excluded]
  /\ job' = [job EXCEPT ![t] = "index"]
  /\ Goto(t, "queue")
  /\ UNCHANGED <<shared, at, base, before, result, tries, known, parts, todo, late, gate, fails>>

\* crash_cause of a problem.
Crash(out) == Telling /\ out \in Bad

\* Fault: any build that gave no index is forgotten.
BuiltForgetting(t) ==
  /\ pc[t] = "ended" /\ job[t] = "index"
  /\ builds' = [builds EXCEPT ![at[t]] = result[t]]
  /\ current' = IF result[t] # "ok" THEN 0 ELSE current
  /\ Goto(t, "await")
  /\ UNCHANGED <<excluded, found, seeker, runs, gathering, pending, taint, analysed,
                 local, gate, fails>>

\* A build that crashed is forgotten, so that the next asker builds again.
Built(t) ==
  /\ pc[t] = "ended" /\ job[t] = "index"
  /\ builds' = [builds EXCEPT ![at[t]] = result[t]]
  /\ current' = IF Crash(result[t]) /\ current = at[t] THEN 0 ELSE current
  /\ Goto(t, "await")
  /\ UNCHANGED <<excluded, found, seeker, runs, gathering, pending, taint, analysed,
                 local, gate, fails>>

\* The end of the build, for those who wait for it too.
IndexDone(t) ==
  /\ pc[t] = "await" /\ builds[at[t]] # "building"
  /\ LET out == builds[at[t]]
     IN  /\ result' = [result EXCEPT ![t] = out]
         /\ known' = [known EXCEPT ![t] = IF out = "ok" /\ t # Prefetcher THEN Searched(t) ELSE {}]
         /\ \/ t = Prefetcher /\ Goto(t, IF out \in Bad THEN "judge" ELSE "answered")
            \/ t # Prefetcher /\ Goto(t, CASE out = "ok"  -> "join"
                                            [] Crash(out)  -> "judge"
                                            [] OTHER       -> "search")
  /\ UNCHANGED <<shared, at, job, conf, base, before, tries, parts, todo, late, gate, fails>>

-----------------------------------------------------------------------------
(* _references: without an index, one search per method and per run. *)

Search(t, m) ==
  /\ pc[t] = "search" /\ m \in Searched(t) \ known[t] /\ m \notin found
  /\ seeker[m] = Nobody
  /\ seeker' = [seeker EXCEPT ![m] = t]
  /\ conf' = [conf EXCEPT ![t] = base[t]]
  /\ job' = [job EXCEPT ![t] = "search"]
  /\ Goto(t, "queue")
  /\ UNCHANGED <<excluded, builds, current, found, runs, gathering, pending, taint, analysed,
                 at, base, before, result, tries, known, parts, todo, late, gate, fails>>

SearchEnds(t, m) ==
  /\ pc[t] = "ended" /\ job[t] = "search" /\ seeker[m] = t
  /\ seeker' = [seeker EXCEPT ![m] = Nobody]
  /\ found' = IF result[t] = "ok" THEN found \cup {m} ELSE found
  /\ known' = IF result[t] = "ok" THEN [known EXCEPT ![t] = @ \cup {m}] ELSE known
  /\ Goto(t, IF result[t] = "ok" THEN "search" ELSE "judge")
  /\ UNCHANGED <<excluded, builds, current, runs, gathering, pending, taint, analysed,
                 at, job, conf, base, before, result, tries, parts, todo, late, gate, fails>>

SearchFound(t, m) ==
  /\ pc[t] = "search" /\ m \in (Searched(t) \ known[t]) \cap found
  /\ known' = [known EXCEPT ![t] = @ \cup {m}]
  /\ UNCHANGED <<shared, pc, at, job, conf, base, before, result, tries, parts, todo, late, gate, fails>>

SearchesDone(t) ==
  /\ pc[t] = "search" /\ Searched(t) \subseteq known[t]
  /\ Goto(t, "join")
  /\ UNCHANGED <<shared, local, gate, fails>>

-----------------------------------------------------------------------------
(* _join_taint and _take_part. *)

\* Fault: the gathering analysis is joined by methods another one has.
JoinAnyway(t) ==
  /\ pc[t] = "join"
  /\ LET open == Wants[t] \ taint
         g    == IF gathering # 0 THEN gathering ELSE Len(runs) + 1
         new  == [methods |-> {}, led |-> FALSE, sinks |-> {}, out |-> "pending"]
         all  == IF open # {} /\ gathering = 0 THEN Append(runs, new) ELSE runs
     IN  /\ runs' = IF open = {} THEN runs ELSE [all EXCEPT ![g].methods = @ \cup open]
         /\ gathering' = IF open = {} THEN gathering ELSE g
         /\ pending' = [m \in Methods |-> IF m \in open THEN g ELSE pending[m]]
         /\ parts' = [parts EXCEPT ![t] = {pending'[m] : m \in open}]
         /\ todo' = [todo EXCEPT ![t] = {pending'[m] : m \in open}]
  /\ Goto(t, "sort")
  /\ UNCHANGED <<excluded, builds, current, found, seeker, taint, analysed,
                 at, job, conf, base, before, result, tries, known, late, gate, fails>>

\* Methods no analysis has join the gathering one, which is begun if there is none.
Join(t) ==
  /\ pc[t] = "join"
  /\ LET open  == Wants[t] \ taint
         fresh == {m \in open : pending[m] = 0}
         g     == IF gathering # 0 THEN gathering ELSE Len(runs) + 1
         new   == [methods |-> {}, led |-> FALSE, sinks |-> {}, out |-> "pending"]
         all   == IF fresh # {} /\ gathering = 0 THEN Append(runs, new) ELSE runs
     IN  /\ runs' = IF fresh = {} THEN runs ELSE [all EXCEPT ![g].methods = @ \cup fresh]
         /\ gathering' = IF fresh = {} THEN gathering ELSE g
         /\ pending' = [m \in Methods |-> IF m \in fresh THEN g ELSE pending[m]]
         /\ parts' = [parts EXCEPT ![t] = {pending'[m] : m \in open}]
         /\ todo' = [todo EXCEPT ![t] = {pending'[m] : m \in open}]
  /\ Goto(t, "sort")
  /\ UNCHANGED <<excluded, builds, current, found, seeker, taint, analysed,
                 at, job, conf, base, before, result, tries, known, late, gate, fails>>

\* Those nobody leads come first; whether anybody does is read without the lock.
Sort(t) ==
  /\ pc[t] = "sort"
  /\ late' = [late EXCEPT ![t] = {r \in todo[t] : runs[r].led}]
  /\ Goto(t, "part")
  /\ UNCHANGED <<shared, at, job, conf, base, before, result, tries, known, parts, todo,
                 gate, fails>>

\* Lead the analysis if nobody does, else wait for it.
TakePart(t, r) ==
  /\ pc[t] = "part" /\ r \in todo[t]
  /\ r \in late[t] => todo[t] \subseteq late[t]
  /\ runs' = [runs EXCEPT ![r].led = TRUE]
  /\ at' = [at EXCEPT ![t] = r]
  /\ todo' = [todo EXCEPT ![t] = @ \ {r}]
  /\ IF runs[r].led
       THEN /\ Goto(t, "wait")
            /\ UNCHANGED job
       ELSE /\ Goto(t, "queue")
            /\ job' = [job EXCEPT ![t] = "taint"]
  /\ UNCHANGED <<excluded, builds, current, found, seeker, gathering, pending, taint, analysed,
                 conf, base, before, result, tries, known, parts, late, gate, fails>>

\* Fault: methods go on joining an analysis whose sinks are written.
DetachOpen(t) ==
  /\ pc[t] = "admitted" /\ job[t] = "taint"
  /\ runs' = [runs EXCEPT ![at[t]].sinks = runs[at[t]].methods]
  /\ Goto(t, "config")
  /\ UNCHANGED <<excluded, builds, current, found, seeker, gathering, pending, taint, analysed,
                 local, gate, fails>>

\* The slot is there: no method joins from here on.
Detach(t) ==
  /\ pc[t] = "admitted" /\ job[t] = "taint"
  /\ gathering' = IF gathering = at[t] THEN 0 ELSE gathering
  /\ runs' = [runs EXCEPT ![at[t]].sinks = runs[at[t]].methods]
  /\ Goto(t, "config")
  /\ UNCHANGED <<excluded, builds, current, found, seeker, pending, taint, analysed,
                 local, gate, fails>>

\* _taint_analysis writes its config in the slot.
WriteConfig(t) ==
  /\ pc[t] = "config"
  /\ conf' = [conf EXCEPT ![t] = excluded]
  /\ Goto(t, "psalm")
  /\ UNCHANGED <<shared, at, job, base, before, result, tries, known, parts, todo, late,
                 gate, fails>>

\* Fault: only an analysis that ended well sets its event.
PublishWell(t) ==
  /\ pc[t] = "ended" /\ job[t] = "taint"
  /\ LET r == at[t]
         methods == runs[r].methods
     IN  /\ taint' = IF result[t] = "ok" THEN taint \cup methods ELSE taint
         /\ gathering' = IF gathering = r THEN 0 ELSE gathering
         /\ pending' = [m \in Methods |->
                          IF m \in methods /\ pending[m] = r THEN 0 ELSE pending[m]]
         /\ runs' = IF result[t] = "ok" THEN [runs EXCEPT ![r].out = "ok"] ELSE runs
  /\ Goto(t, "part")
  /\ UNCHANGED <<excluded, builds, current, found, seeker, analysed, local, gate, fails>>

\* The results, for every method that joined; a failure leaves them to be asked again.
Publish(t) ==
  /\ pc[t] = "ended" /\ job[t] = "taint"
  /\ LET r == at[t]
         methods == runs[r].methods
     IN  /\ taint' = IF result[t] = "ok" THEN taint \cup methods ELSE taint
         /\ gathering' = IF gathering = r THEN 0 ELSE gathering
         /\ pending' = [m \in Methods |->
                          IF m \in methods /\ pending[m] = r THEN 0 ELSE pending[m]]
         /\ runs' = [runs EXCEPT ![r].out = result[t]]
  /\ Goto(t, "part")
  /\ UNCHANGED <<excluded, builds, current, found, seeker, analysed, local, gate, fails>>

Waited(t) ==
  /\ pc[t] = "wait" /\ runs[at[t]].out # "pending"
  /\ Goto(t, "part")
  /\ UNCHANGED <<shared, local, gate, fails>>

\* Every analysis has ended: a problem of one is the answer's, else a method without a
\* path in _TAINT is "not reached".
Answer(t) ==
  /\ pc[t] = "part" /\ todo[t] = {}
  /\ LET problems == {runs[r].out : r \in parts[t]} \ {"ok"}
     IN  \/ /\ problems = {}
            /\ result' = [result EXCEPT ![t] = "ok"]
            /\ Return(t)
            /\ Goto(t, "answered")
         \/ \E p \in problems :
              /\ result' = [result EXCEPT ![t] = p]
              /\ Goto(t, "judge")
              /\ UNCHANGED <<at, job, conf, base, known, parts, todo, late>>
  /\ UNCHANGED <<shared, before, tries, gate, fails>>

-----------------------------------------------------------------------------
(* _slot and the Psalm process in it. *)

Enter(t) ==
  /\ slots' = slots \cup {t}
  /\ Goto(t, IF job[t] = "taint" THEN "admitted" ELSE "psalm")
  /\ UNCHANGED asleep

\* The loop on _GATE: in if there is room, else to sleep.
Queue(t) ==
  /\ pc[t] = "queue" /\ t \notin asleep
  /\ IF Cardinality(slots) < Limit
       THEN Enter(t)
       ELSE /\ asleep' = asleep \cup {t}
            /\ UNCHANGED <<slots, pc>>
  /\ UNCHANGED <<shared, local, measured, room, fails>>

\* Leaving the slot wakes everybody who waits.
Leave(t) ==
  /\ slots' = slots \ {t}
  /\ measured' = TRUE
  /\ asleep' = {}

\* How the process may end: a file it cannot read and was not told to leave out crashes it.
Outcomes(t) ==
  (IF Bad \subseteq conf[t] THEN {"ok"} ELSE Bad \ conf[t])
    \cup (IF fails < MaxFails THEN {"fail"} ELSE {})

Psalm(t) ==
  /\ pc[t] = "psalm"
  /\ \E out \in Outcomes(t) :
       /\ result' = [result EXCEPT ![t] = out]
       /\ fails' = IF out = "fail" THEN fails + 1 ELSE fails
       /\ analysed' = IF out = "ok" /\ job[t] = "taint"
                        THEN analysed \cup runs[at[t]].sinks ELSE analysed
  /\ Leave(t)
  /\ Goto(t, "ended")
  /\ UNCHANGED <<excluded, builds, current, found, seeker, runs, gathering, pending, taint,
                 at, job, conf, base, before, tries, known, parts, todo, late, room>>

\* _watch_memory: an analysis may turn out larger than all before it, never smaller.
Sample ==
  /\ slots # {} /\ room > 1
  /\ room' = room - 1
  /\ UNCHANGED <<shared, pc, local, slots, asleep, measured, fails>>

-----------------------------------------------------------------------------
Step(t) ==
  \/ Ask(t) \/ AskInVain(t) \/ Prefetch(t) \/ Judge(t)
  \/ CallIndex(t) \/ Build(t) \/ Built(t) \/ IndexDone(t)
  \/ \E m \in Methods : Search(t, m) \/ SearchEnds(t, m) \/ SearchFound(t, m)
  \/ SearchesDone(t)
  \/ Join(t) \/ Sort(t)
  \/ \E r \in todo[t] : TakePart(t, r)
  \/ Detach(t) \/ WriteConfig(t) \/ Publish(t) \/ Waited(t) \/ Answer(t)
  \/ Queue(t) \/ Psalm(t)

Ended == \A t \in Threads : pc[t] \in {"answered", "failed"}

\* Nothing is left to do: the run of the command goes on without Psalm.
Rest == Ended /\ UNCHANGED vars

Next ==
  \/ \E t \in Threads : Step(t)
  \/ Sample
  \/ Rest

\* Every Psalm process ends by its timeout, so no thread stays in one step for ever.
Spec == Init /\ [][Next]_vars /\ \A t \in Threads : WF_vars(Step(t))

-----------------------------------------------------------------------------
(* Correctness. *)

\* The shape of the state.
TypeOK ==
  /\ excluded \subseteq Bad /\ found \subseteq Methods /\ taint \subseteq Methods
  /\ analysed \subseteq Methods
  /\ current \in 0..Len(builds) /\ gathering \in 0..Len(runs)
  /\ \A n \in DOMAIN builds : builds[n] \in {"building", "ok", "fail"} \cup Bad
  /\ seeker \in [Methods -> Threads \cup {Nobody}]
  /\ \A r \in DOMAIN runs : runs[r] \in
       [methods : SUBSET Methods, led : BOOLEAN, sinks : SUBSET Methods,
        out : {"pending", "ok", "fail"} \cup Bad]
  /\ pending \in [Methods -> 0..Len(runs)]
  /\ pc \in [Threads -> {"ask", "judge", "index", "build", "await", "search", "join", "sort",
                         "part", "wait", "queue", "admitted", "config", "psalm", "ended",
                         "answered", "failed"}]
  /\ conf \in [Threads -> SUBSET Bad] /\ base \in [Threads -> SUBSET Bad]
  /\ before \in [Threads -> SUBSET Bad] /\ tries \in [Threads -> 0..MaxUnreadable]
  /\ known \in [Threads -> SUBSET Methods]
  /\ slots \subseteq Threads /\ asleep \subseteq Threads
  /\ measured \in BOOLEAN /\ room \in 1..MaxParallel /\ fails \in 0..MaxFails

\* An answer says "not reached" of a method only after an analysis with that method among
\* its sinks ended well: joining an analysis whose sinks are already written would be
\* answered too, by a Psalm that never heard of the method (_take_part).
AnswersRestOnAnalysis ==
  \A t \in Askers : pc[t] = "answered" => Wants[t] \subseteq taint \cap analysed

\* One analysis per method: another is begun only when the last one failed (_join_taint).
OneAnalysisPerMethod ==
  \A r, s \in DOMAIN runs : r < s /\ runs[r].methods \cap runs[s].methods # {}
    => runs[r].out \notin {"pending", "ok"}

\* One call index: it is built again only after a build that crashed, never while one is
\* being built and never because one gave no index (_call_index).
OneIndex ==
  \A n \in DOMAIN builds : n < Len(builds) => builds[n] \in Bad

\* Nobody sleeps on _GATE while there is room for another Psalm (_slot): a process that
\* ended wakes all that fit, also those the first measurement let in.
NoLostWakeup == asleep # {} => Cardinality(slots) >= Limit

\* The memory of one Psalm is known before a second one runs beside it (parallel_limit).
MeasuredAlone == ~measured => Cardinality(slots) <= 1

\* Every finding gets its answer or a problem, whatever fails: no waiter is left on an
\* index, a search, an analysis or a slot (_call_index, _references, _take_part, _slot).
EveryAskEnds == <>Ended

\* "A file Psalm crashes on is left out and the question asked again: one unreadable
\* docblock must not cost every PHP dependency its call search" (run).
UnreadableFileCostsNobody ==
  Cardinality(Bad) <= MaxUnreadable =>
    \A t \in Askers : pc[t] = "failed" => result[t] \notin Bad

\* "left out - Psalm cannot read it; building the call index again" (prefetch, its warning).
PrefetchBuildsAgain ==
  pc[Prefetcher] \in {"answered", "failed"} /\ tries[Prefetcher] > 0 => Len(builds) > 1
=============================================================================
