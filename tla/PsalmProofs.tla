------------------------------ MODULE PsalmProofs ------------------------------
(***************************************************************************)
(* What PsalmApi keeps for any threads, methods, files and bounds: one     *)
(* call index, one analysis per method, answers that rest on an analysis,  *)
(* and a condition variable on which nobody is forgotten.                  *)
(***************************************************************************)
EXTENDS PsalmApi, TLAPS, FiniteSetTheorems, SequenceTheorems

Labels == {"ask", "judge", "index", "build", "await", "search", "join", "sort", "part", "wait",
           "queue", "admitted", "config", "psalm", "ended", "answered", "failed"}
Ends == {"ok", "fail"} \cup Bad
Run  == [methods : SUBSET Methods, led : BOOLEAN, sinks : SUBSET Methods, out : Ends \cup {"pending"}]

\* The shape of the state, as far as the proofs need it.
Shape ==
  /\ pc \in [Threads -> Labels] /\ at \in [Threads -> Nat]
  /\ job \in [Threads -> {"none", "index", "search", "taint"}]
  /\ DOMAIN result = Threads
  /\ parts \in [Threads -> SUBSET Nat] /\ todo \in [Threads -> SUBSET Nat]
  /\ builds \in Seq(Ends \cup {"building"}) /\ current \in Nat
  /\ runs \in Seq(Run) /\ pending \in [Methods -> Nat] /\ gathering \in Nat
  /\ \A t \in Threads : pc[t] = "ended" => result[t] \in Ends
  /\ \A t \in Threads : pc[t] \in {"admitted", "config"} => job[t] = "taint"

\* prefetch asks for the index and nothing else.
IndexOnly ==
  /\ job[Prefetcher] \in {"none", "index"}
  /\ pc[Prefetcher] \in {"ask", "index", "build", "await", "queue", "psalm", "ended", "judge",
                         "answered", "failed"}

-----------------------------------------------------------------------------
(* The slots. *)

GateInv ==
  /\ IsFiniteSet(slots) /\ measured \in BOOLEAN /\ room \in Nat \ {0}
  /\ NoLostWakeup /\ MeasuredAlone

LEMMA InitGate == Init => GateInv
<1> SUFFICES ASSUME Init PROVE GateInv
  OBVIOUS
<1>1. IsFiniteSet({}) /\ Cardinality({}) = 0
  BY FS_EmptySet
<1>2. slots = {} /\ asleep = {} /\ measured = FALSE /\ room \in 1..MaxParallel
  BY DEF Init
<1>3. room \in Nat \ {0}
  BY <1>2, PsalmAssumption
<1>4. IsFiniteSet(slots) /\ Cardinality(slots) = 0
  BY <1>1, <1>2
<1>5. NoLostWakeup
  BY <1>2 DEF NoLostWakeup
<1>6. MeasuredAlone
  BY <1>4 DEF MeasuredAlone
<1> QED
  BY <1>2, <1>3, <1>4, <1>5, <1>6 DEF GateInv

LEMMA GateStep == GateInv /\ [Next]_vars => GateInv'
<1> SUFFICES ASSUME GateInv, [Next]_vars PROVE GateInv'
  OBVIOUS
<1> USE DEF GateInv, NoLostWakeup, MeasuredAlone, Limit
<1>1. Cardinality(slots) \in Nat
  BY FS_CardinalityType
<1>2. ASSUME UNCHANGED gate PROVE GateInv'
  BY <1>2 DEF gate
<1>3. ASSUME NEW t \in Threads, Queue(t) PROVE GateInv'
  <2>1. CASE Enter(t) /\ Cardinality(slots) < Limit
    <3>1. /\ slots' = slots \cup {t} /\ UNCHANGED <<asleep, measured, room>>
      BY <1>3, <2>1 DEF Queue, Enter
    <3>2. /\ IsFiniteSet(slots')
          /\ Cardinality(slots') = Cardinality(slots) \/ Cardinality(slots') = Cardinality(slots) + 1
      BY <3>1, FS_AddElement
    <3> QED
      BY <1>1, <2>1, <3>1, <3>2
  <2>2. CASE Cardinality(slots) >= Limit /\ asleep' = asleep \cup {t} /\ slots' = slots
    BY <1>3, <2>2 DEF Queue
  <2> QED
    BY <1>1, <1>3, <2>1, <2>2 DEF Queue
<1>4. ASSUME NEW t \in Threads, Psalm(t) PROVE GateInv'
  <2>1. slots' = slots \ {t} /\ measured' = TRUE /\ asleep' = {} /\ room' = room
    BY <1>4 DEF Psalm, Leave
  <2>2. IsFiniteSet(slots')
    BY <2>1, FS_RemoveElement
  <2> QED
    BY <2>1, <2>2
<1>5. CASE Sample
  BY <1>1, <1>5 DEF Sample
<1>6. ASSUME NEW t \in Threads, Step(t), ~Queue(t), ~Psalm(t) PROVE UNCHANGED gate
  BY <1>6 DEF Step, Ask, AskInVain, Prefetch, Judge, CallIndex, Build, Built, IndexDone, Search,
              SearchEnds, SearchFound, SearchesDone, Join, Sort, TakePart, Detach, WriteConfig,
              Publish, Waited, Answer
<1>7. CASE Rest \/ UNCHANGED vars
  BY <1>2, <1>7 DEF Rest, vars
<1> QED
  BY <1>2, <1>3, <1>4, <1>5, <1>6, <1>7 DEF Next

LEMMA GateInvariance == Spec => []GateInv
BY InitGate, GateStep, PTL DEF Spec

\* Nobody sleeps on _GATE while there is room for another Psalm: a process that ended, or the
\* first measurement, wakes all that fit (_slot).
THEOREM NobodyForgotten == Spec => []NoLostWakeup
<1>1. GateInv => NoLostWakeup
  BY DEF GateInv
<1> QED
  BY <1>1, GateInvariance, PTL

\* The memory of one Psalm is known before a second one runs beside it (parallel_limit).
THEOREM FirstAlone == Spec => []MeasuredAlone
<1>1. GateInv => MeasuredAlone
  BY DEF GateInv
<1> QED
  BY <1>1, GateInvariance, PTL

-----------------------------------------------------------------------------
(* A thread's step is its own. *)

\* The other threads stay where they are.
Alone(t) ==
  \A s \in Threads \ {t} :
    /\ pc'[s] = pc[s] /\ at'[s] = at[s] /\ job'[s] = job[s] /\ result'[s] = result[s]
    /\ parts'[s] = parts[s] /\ todo'[s] = todo[s]

LEMMA InitShape == Init => Shape
BY DEF Init, ThreadInit, Shape, Labels, Ends

LEMMA StepAlone ==
  ASSUME Shape, NEW t \in Threads, Step(t)
  PROVE  Alone(t)
<1> USE DEF Alone, Shape, Goto, Return, local
<1>1. CASE Ask(t) \/ AskInVain(t) \/ Prefetch(t)
  BY <1>1 DEF Ask, AskInVain, Prefetch
<1>2. CASE Judge(t)
  BY <1>2 DEF Judge
<1>3. CASE CallIndex(t) \/ Build(t) \/ Built(t)
  BY <1>3 DEF CallIndex, Build, Built
<1>4. CASE IndexDone(t)
  BY <1>4 DEF IndexDone
<1>5. CASE \E m \in Methods : Search(t, m) \/ SearchEnds(t, m) \/ SearchFound(t, m)
  BY <1>5 DEF Search, SearchEnds, SearchFound
<1>6. CASE SearchesDone(t) \/ Sort(t) \/ Detach(t) \/ WriteConfig(t) \/ Publish(t) \/ Waited(t)
  BY <1>6 DEF SearchesDone, Sort, Detach, WriteConfig, Publish, Waited
<1>7. CASE Join(t)
  BY <1>7 DEF Join
<1>8. CASE \E r \in todo[t] : TakePart(t, r)
  BY <1>8 DEF TakePart
<1>9. CASE Answer(t)
  BY <1>9 DEF Answer
<1>10. CASE Queue(t) \/ Psalm(t)
  BY <1>10 DEF Queue, Enter, Psalm
<1> QED
  BY <1>1, <1>2, <1>3, <1>4, <1>5, <1>6, <1>7, <1>8, <1>9, <1>10 DEF Step

LEMMA ExceptInSeq ==
  ASSUME NEW S, NEW s \in Seq(S), NEW i, NEW e, i \in 1..Len(s) => e \in S
  PROVE  /\ [s EXCEPT ![i] = e] \in Seq(S) /\ Len([s EXCEPT ![i] = e]) = Len(s)
         /\ \A j \in 1..Len(s) : [s EXCEPT ![i] = e][j] = IF j = i THEN e ELSE s[j]
<1>1. CASE i \in 1..Len(s)
  BY <1>1, ExceptSeq
<1>2. CASE i \notin 1..Len(s)
  <2>1. [s EXCEPT ![i] = e] = s
    BY <1>2
  <2> QED
    BY <1>2, <2>1
<1> QED
  BY <1>1, <1>2

LEMMA OfRuns ==
  ASSUME Shape, NEW i \in 1..Len(runs)
  PROVE  /\ runs[i] \in Run /\ runs[i].methods \subseteq Methods /\ runs[i].led \in BOOLEAN
         /\ runs[i].sinks \subseteq Methods /\ runs[i].out \in Ends \cup {"pending"}
<1>1. runs[i] \in Run
  BY ElementOfSeq DEF Shape
<1> QED
  BY <1>1 DEF Run

LEMMA ShapeStep == Shape /\ IndexOnly /\ [Next]_vars => Shape'
<1> SUFFICES ASSUME Shape, IndexOnly, [Next]_vars PROVE Shape'
  OBVIOUS
<1> USE DEF Shape, Goto, Return, shared, local, gate
<1>a. ASSUME NEW t \in Threads, Ask(t) \/ AskInVain(t) \/ Prefetch(t) PROVE Shape'
  BY <1>a DEF Ask, AskInVain, Prefetch, Labels
<1>b. ASSUME NEW t \in Threads, Judge(t) PROVE Shape'
  BY <1>b DEF Judge, Labels
<1>c. ASSUME NEW t \in Threads, CallIndex(t) PROVE Shape'
  <2>1. builds' \in Seq(Ends \cup {"building"}) /\ current' \in Nat
    <3>1. Append(builds, "building") \in Seq(Ends \cup {"building"}) /\ Len(builds) \in Nat
      BY AppendProperties, LenProperties
    <3>2. CASE current = 0
      <4>1. builds' = Append(builds, "building") /\ current' = Len(builds) + 1
        BY <1>c, <3>2 DEF CallIndex
      <4> QED
        BY <3>1, <4>1
    <3>3. CASE current # 0
      BY <1>c, <3>3 DEF CallIndex
    <3> QED
      BY <3>2, <3>3
  <2> QED
    BY <1>c, <2>1 DEF CallIndex, Labels
<1>d. ASSUME NEW t \in Threads, Built(t) PROVE Shape'
  <2>1. builds' \in Seq(Ends \cup {"building"})
    BY <1>d, ExceptInSeq DEF Built
  <2> QED
    BY <1>d, <2>1 DEF Built, Labels
<1>e. ASSUME NEW t \in Threads, Build(t) \/ IndexDone(t) PROVE Shape'
  BY <1>e DEF Build, IndexDone, Labels
<1>f. ASSUME NEW t \in Threads, NEW m \in Methods,
             Search(t, m) \/ SearchEnds(t, m) \/ SearchFound(t, m) PROVE Shape'
  BY <1>f DEF Search, SearchEnds, SearchFound, Labels
<1>g. ASSUME NEW t \in Threads, SearchesDone(t) \/ Sort(t) \/ WriteConfig(t) \/ Waited(t) PROVE Shape'
  BY <1>g DEF SearchesDone, Sort, WriteConfig, Waited, Labels
<1>i. ASSUME NEW t \in Threads, NEW r \in todo[t], TakePart(t, r) PROVE Shape'
  <2>1. r \in 1..Len(runs) => [runs[r] EXCEPT !.led = TRUE] \in Run
    BY OfRuns DEF Run
  <2>2. [runs EXCEPT ![r] = [runs[r] EXCEPT !.led = TRUE]] \in Seq(Run)
    BY <2>1, ExceptInSeq
  <2>3. runs' \in Seq(Run)
    BY <1>i, <2>2 DEF TakePart
  <2> QED
    BY <1>i, <2>3 DEF TakePart, Labels
<1>k. ASSUME NEW t \in Threads, Answer(t) PROVE Shape'
  <2>1. CASE Goto(t, "judge") /\ UNCHANGED <<at, job, parts, todo>> /\ DOMAIN result' = DOMAIN result
    BY <1>k, <2>1 DEF Answer, Labels
  <2>2. CASE Goto(t, "answered") /\ Return(t) /\ DOMAIN result' = DOMAIN result
    BY <1>k, <2>2 DEF Answer, Labels
  <2> QED
    BY <1>k, <2>1, <2>2 DEF Answer
<1>l. ASSUME NEW t \in Threads, Queue(t) PROVE Shape'
  BY <1>l DEF Queue, Enter, Labels
<1>m. ASSUME NEW t \in Threads, Psalm(t) PROVE Shape'
  BY <1>m DEF Psalm, Outcomes, Leave, Labels, Ends
<1>h. ASSUME NEW t \in Threads, Join(t) PROVE Shape'
  <2> DEFINE open  == Wants[t] \ taint
             fresh == {m \in open : pending[m] = 0}
             g     == IF gathering # 0 THEN gathering ELSE Len(runs) + 1
             new   == [methods |-> {}, led |-> FALSE, sinks |-> {}, out |-> "pending"]
             all   == IF fresh # {} /\ gathering = 0 THEN Append(runs, new) ELSE runs
  <2>0. t \in Askers /\ open \subseteq Methods
    BY <1>h, PsalmAssumption DEF Join, IndexOnly, Threads
  <2>1. new \in Run
    BY DEF Run, Ends
  <2>2. all \in Seq(Run) /\ g \in Nat
    BY <2>1, AppendProperties
  <2>3. g \in 1..Len(all) => [all[g] EXCEPT !.methods = @ \cup fresh] \in Run
    <3> SUFFICES ASSUME g \in 1..Len(all) PROVE [all[g] EXCEPT !.methods = @ \cup fresh] \in Run
      OBVIOUS
    <3>1. all[g] \in Run
      BY <2>2, ElementOfSeq
    <3> QED
      BY <2>0, <3>1 DEF Run
  <2>4. [all EXCEPT ![g] = [all[g] EXCEPT !.methods = @ \cup fresh]] \in Seq(Run)
    BY <2>2, <2>3, ExceptInSeq
  <2>5. runs' \in Seq(Run) /\ gathering' \in Nat /\ pending' \in [Methods -> Nat]
    BY <1>h, <2>2, <2>4 DEF Join
  <2>6. {pending'[m] : m \in open} \subseteq Nat
    BY <2>0, <2>5
  <2> QED
    BY <1>h, <2>5, <2>6 DEF Join, Labels
<1>j. ASSUME NEW t \in Threads, Detach(t) PROVE Shape'
  <2>1. at[t] \in 1..Len(runs) => [runs[at[t]] EXCEPT !.sinks = runs[at[t]].methods] \in Run
    BY OfRuns DEF Run
  <2>2. [runs EXCEPT ![at[t]] = [runs[at[t]] EXCEPT !.sinks = runs[at[t]].methods]] \in Seq(Run)
    BY <2>1, ExceptInSeq
  <2> QED
    BY <1>j, <2>2 DEF Detach, Labels
<1>n. ASSUME NEW t \in Threads, Publish(t) PROVE Shape'
  <2>1. at[t] \in 1..Len(runs) => [runs[at[t]] EXCEPT !.out = result[t]] \in Run
    <3>1. result[t] \in Ends
      BY <1>n DEF Publish
    <3> SUFFICES ASSUME NEW e \in Run PROVE [e EXCEPT !.out = result[t]] \in Run
      BY OfRuns
    <3> QED
      BY <3>1 DEF Run
  <2>2. [runs EXCEPT ![at[t]] = [runs[at[t]] EXCEPT !.out = result[t]]] \in Seq(Run)
    BY <2>1, ExceptInSeq
  <2>3. runs' \in Seq(Run) /\ gathering' \in Nat /\ pending' \in [Methods -> Nat]
    BY <1>n, <2>2 DEF Publish
  <2> QED
    BY <1>n, <2>3 DEF Publish, Labels
<1>o. CASE Sample \/ Rest \/ UNCHANGED vars
  BY <1>o DEF Sample, Rest, vars
<1> QED
  BY <1>a, <1>b, <1>c, <1>d, <1>e, <1>f, <1>g, <1>h, <1>i, <1>j, <1>k, <1>l, <1>m, <1>n, <1>o
     DEF Next, Step

LEMMA IndexOnlyStep == Shape /\ IndexOnly /\ [Next]_vars => IndexOnly'
<1> SUFFICES ASSUME Shape, IndexOnly, [Next]_vars PROVE IndexOnly'
  OBVIOUS
<1> USE DEF Shape, IndexOnly, Goto, Return, shared, local, gate
<1>1. CASE UNCHANGED <<pc, job>>
  BY <1>1
<1>2. ASSUME NEW t \in Threads, Step(t), t # Prefetcher PROVE IndexOnly'
  <2>1. Alone(t)
    BY <1>2, StepAlone
  <2> QED
    BY <1>2, <2>1 DEF Alone, Threads
<1>3. CASE Step(Prefetcher)
  BY <1>3 DEF Step, Ask, AskInVain, Prefetch, Judge, CallIndex, Build, Built, IndexDone, Search,
              SearchEnds, SearchFound, SearchesDone, Join, Sort, TakePart, Detach, WriteConfig,
              Publish, Waited, Answer, Queue, Enter, Psalm, Threads
<1>4. CASE Sample \/ Rest \/ UNCHANGED vars
  BY <1>4 DEF Sample, Rest, vars
<1> QED
  BY <1>2, <1>3, <1>4 DEF Next, Threads

-----------------------------------------------------------------------------
(* The call index. *)

\* The thread that has the index built, from the moment it found none.
Indexing(t) ==
  \/ pc[t] = "build"
  \/ job[t] = "index" /\ pc[t] \in {"queue", "psalm", "ended"}

IndexInv ==
  /\ current \in {0, Len(builds)}
  /\ \A n \in 1..Len(builds) : n # current => builds[n] \in Bad
  /\ \A t \in Threads : Indexing(t) => current # 0 /\ at[t] = current /\ builds[current] = "building"
  /\ \A s, t \in Threads : Indexing(s) /\ Indexing(t) => s = t

LEMMA IndexStep == Shape /\ IndexInv /\ [Next]_vars => IndexInv'
<1> SUFFICES ASSUME Shape, IndexInv, [Next]_vars PROVE IndexInv'
  OBVIOUS
<1>1. ASSUME NEW t \in Threads, UNCHANGED <<builds, current>>, Alone(t),
             Indexing(t)' => Indexing(t) /\ at'[t] = at[t]
      PROVE  IndexInv'
  <2>1. \A s \in Threads : Indexing(s)' => Indexing(s) /\ at'[s] = at[s]
    BY <1>1 DEF Alone, Indexing
  <2> QED
    BY <1>1, <2>1 DEF IndexInv
<1>2. ASSUME NEW t \in Threads, Step(t), ~CallIndex(t), ~Built(t)
      PROVE  UNCHANGED <<builds, current>>
  BY <1>2 DEF Step, Ask, AskInVain, Prefetch, Judge, Build, IndexDone, Search,
              SearchEnds, SearchFound, SearchesDone, Join, Sort, TakePart, Detach, WriteConfig,
              Publish, Waited, Answer, Queue, Enter, Psalm, shared
<1>3. ASSUME NEW t \in Threads, Step(t), ~CallIndex(t), ~Built(t)
      PROVE  Indexing(t)' => Indexing(t) /\ at'[t] = at[t]
  <2> USE DEF Indexing, Shape, Goto, Return, shared, local
  <2>0. CASE Build(t)
    <3>1. pc[t] = "build" /\ at' = at
      BY <2>0 DEF Build
    <3>2. Indexing(t)
      BY <3>1
    <3>3. at'[t] = at[t]
      BY <3>1
    <3> QED
      BY <3>2, <3>3
  <2>1. CASE Ask(t) \/ AskInVain(t) \/ Prefetch(t)
    <3>1. PICK label \in {"index", "join", "judge"} : Goto(t, label)
      BY <2>1 DEF Ask, AskInVain, Prefetch
    <3> QED
      BY <3>1
  <2>9. CASE Judge(t)
    <3>1. PICK label \in {"ask", "failed"} : Goto(t, label)
      BY <2>9 DEF Judge
    <3> QED
      BY <3>1
  <2>7. CASE IndexDone(t)
    <3>1. PICK label \in {"judge", "answered", "join", "search"} : Goto(t, label)
      BY <2>7 DEF IndexDone
    <3> QED
      BY <2>7, <3>1 DEF IndexDone
  <2>8. CASE Answer(t)
    <3>1. PICK label \in {"judge", "answered"} : Goto(t, label)
      BY <2>8 DEF Answer
    <3> QED
      BY <3>1
  <2>2. CASE \E m \in Methods : Search(t, m) \/ SearchEnds(t, m) \/ SearchFound(t, m)
    BY <2>2 DEF Search, SearchEnds, SearchFound
  <2>3. CASE SearchesDone(t) \/ Sort(t) \/ Detach(t) \/ WriteConfig(t) \/ Publish(t) \/ Waited(t)
             \/ Join(t)
    <3>1. PICK label \in {"join", "part", "config", "psalm", "sort"} : Goto(t, label)
      BY <2>3 DEF SearchesDone, Sort, Detach, WriteConfig, Publish, Waited, Join
    <3>2. at'[t] = at[t] /\ job'[t] = job[t]
      BY <2>3 DEF SearchesDone, Sort, Detach, WriteConfig, Publish, Waited, Join
    <3>3. pc[t] = "config" \/ pc'[t] # "psalm"
      BY <2>3 DEF SearchesDone, Sort, Detach, WriteConfig, Publish, Waited, Join
    <3> QED
      BY <3>1, <3>2, <3>3
  <2>4. CASE \E r \in todo[t] : TakePart(t, r)
    BY <2>4 DEF TakePart
  <2>5. CASE Queue(t)
    BY <2>5 DEF Queue, Enter
  <2>6. CASE Psalm(t)
    BY <2>6 DEF Psalm
  <2> QED
    BY <1>3, <2>0, <2>1, <2>2, <2>3, <2>4, <2>5, <2>6, <2>7, <2>8, <2>9 DEF Step
<1>4. ASSUME NEW t \in Threads, CallIndex(t) PROVE IndexInv'
  <2>1. Alone(t)
    BY <1>4, StepAlone DEF Step
  <2>2. CASE current = 0
    <3>1. /\ builds' = Append(builds, "building") /\ current' = Len(builds) + 1
          /\ at'[t] = Len(builds) + 1
      BY <1>4, <2>2 DEF CallIndex, Shape
    <3>2. /\ Len(builds') = Len(builds) + 1 /\ Len(builds) \in Nat
          /\ \A n \in 1..Len(builds) : builds'[n] = builds[n]
          /\ builds'[Len(builds) + 1] = "building"
      BY <3>1, AppendProperties, LenProperties DEF Shape
    <3>3. \A s \in Threads : ~Indexing(s)
      BY <2>2 DEF IndexInv
    <3>4. \A s \in Threads : Indexing(s)' => s = t
      BY <2>1, <3>3 DEF Alone, Indexing
    <3> QED
      BY <2>2, <3>1, <3>2, <3>4 DEF IndexInv
  <2>3. CASE current # 0
    BY <1>1, <1>4, <2>1, <2>3 DEF CallIndex, Goto, Indexing, Shape
  <2> QED
    BY <2>2, <2>3 DEF Shape
<1>5. ASSUME NEW t \in Threads, Built(t) PROVE IndexInv'
  <2>1. Alone(t)
    BY <1>5, StepAlone DEF Step
  <2>2. Indexing(t) /\ result[t] \in Ends
    BY <1>5 DEF Built, Indexing, Shape
  <2>3. at[t] = current /\ current = Len(builds) /\ current \in 1..Len(builds)
    BY <2>2, LenProperties DEF IndexInv, Shape
  <2>4. builds' = [builds EXCEPT ![current] = result[t]]
    BY <1>5, <2>3 DEF Built
  <2>5. /\ Len(builds') = Len(builds)
        /\ \A n \in 1..Len(builds) : builds'[n] = IF n = current THEN result[t] ELSE builds[n]
    BY <2>2, <2>4, ExceptInSeq DEF Shape
  <2>6. \A s \in Threads : ~Indexing(s)'
    BY <1>5, <2>1, <2>2 DEF Alone, IndexInv, Built, Goto, Indexing, Shape
  <2>7. CASE Crash(result[t])
    BY <1>5, <2>3, <2>5, <2>6, <2>7 DEF Built, IndexInv, Crash
  <2>8. CASE ~Crash(result[t])
    BY <1>5, <2>3, <2>5, <2>6, <2>8 DEF Built, IndexInv
  <2> QED
    BY <2>7, <2>8
<1>6. CASE Sample \/ Rest \/ UNCHANGED vars
  <2>1. UNCHANGED <<builds, current, pc, at, job>>
    BY <1>6 DEF Sample, Rest, vars, shared, local
  <2> QED
    BY <2>1 DEF IndexInv, Indexing
<1> QED
  BY <1>1, <1>2, <1>3, <1>4, <1>5, <1>6, StepAlone DEF Next

LEMMA IndexInvariance == Spec => [](Shape /\ IndexOnly /\ IndexInv)
<1>1. Init => Shape /\ IndexOnly /\ IndexInv
  BY InitShape DEF Init, ThreadInit, IndexOnly, IndexInv, Indexing, Threads
<1>2. Shape /\ IndexOnly /\ IndexInv /\ [Next]_vars => (Shape /\ IndexOnly /\ IndexInv)'
  BY ShapeStep, IndexOnlyStep, IndexStep
<1> QED
  BY <1>1, <1>2, PTL DEF Spec

\* One call index: it is built again only after a build that crashed, never while one is being
\* built and never because one gave no index (_call_index).
THEOREM IndexBuiltOnce == Spec => []OneIndex
<1>1. Shape /\ IndexInv => OneIndex
  BY LenProperties DEF Shape, IndexInv, OneIndex
<1> QED
  BY <1>1, IndexInvariance, PTL

-----------------------------------------------------------------------------
(* The taint analyses: what each action that touches them does to them. *)

Fresh(t) == {m \in Wants[t] \ taint : pending[m] = 0}

\* The analysis i of both states, but for what these fields say.
SameMethods(i) == runs'[i].methods = runs[i].methods
SameSinks(i)   == runs'[i].sinks = runs[i].sinks
SameLed(i)     == runs'[i].led = runs[i].led
SameOut(i)     == runs'[i].out = runs[i].out

LEMMA TakePartDoes ==
  ASSUME Shape, NEW t \in Threads, NEW r \in 1..Len(runs), TakePart(t, r)
  PROVE  /\ Len(runs') = Len(runs)
         /\ \A i \in 1..Len(runs) : SameMethods(i) /\ SameSinks(i) /\ SameOut(i)
         /\ \A i \in 1..Len(runs) : i # r => SameLed(i)
         /\ runs'[r].led = TRUE
<1> DEFINE e == [runs[r] EXCEPT !.led = TRUE]
<1>1. e \in Run
  <2>1. runs[r] \in Run
    BY OfRuns
  <2> QED
    BY <2>1 DEF Run
<1>2. runs' = [runs EXCEPT ![r] = e]
  BY DEF TakePart
<1>3. /\ Len(runs') = Len(runs)
      /\ \A i \in 1..Len(runs) : runs'[i] = IF i = r THEN e ELSE runs[i]
  BY <1>1, <1>2, ExceptInSeq DEF Shape
<1>4. runs[r] \in Run
  BY OfRuns
<1>5. e.methods = runs[r].methods /\ e.sinks = runs[r].sinks /\ e.out = runs[r].out /\ e.led = TRUE
  BY <1>4 DEF Run
<1> QED
  BY <1>3, <1>5 DEF SameMethods, SameSinks, SameLed, SameOut

LEMMA DetachDoes ==
  ASSUME Shape, NEW t \in Threads, at[t] \in 1..Len(runs), Detach(t)
  PROVE  /\ Len(runs') = Len(runs)
         /\ \A i \in 1..Len(runs) : SameMethods(i) /\ SameLed(i) /\ SameOut(i)
         /\ \A i \in 1..Len(runs) : i # at[t] => SameSinks(i)
         /\ runs'[at[t]].sinks = runs[at[t]].methods
<1> DEFINE r == at[t]
           e == [runs[r] EXCEPT !.sinks = runs[r].methods]
<1>4. runs[r] \in Run
  BY OfRuns
<1>1. e \in Run
  BY <1>4 DEF Run
<1>2. runs' = [runs EXCEPT ![r] = e]
  BY DEF Detach
<1>3. /\ Len(runs') = Len(runs)
      /\ \A i \in 1..Len(runs) : runs'[i] = IF i = r THEN e ELSE runs[i]
  <2> HIDE DEF e
  <2> QED
    BY <1>1, <1>2, ExceptInSeq DEF Shape
<1>5. e.methods = runs[r].methods /\ e.led = runs[r].led /\ e.out = runs[r].out
      /\ e.sinks = runs[r].methods
  BY <1>4 DEF Run
<1> QED
  BY <1>3, <1>5 DEF SameMethods, SameSinks, SameLed, SameOut

LEMMA PublishDoes ==
  ASSUME Shape, NEW t \in Threads, at[t] \in 1..Len(runs), Publish(t)
  PROVE  /\ Len(runs') = Len(runs)
         /\ \A i \in 1..Len(runs) : SameMethods(i) /\ SameLed(i) /\ SameSinks(i)
         /\ \A i \in 1..Len(runs) : i # at[t] => SameOut(i)
         /\ runs'[at[t]].out = result[t] /\ result[t] \in Ends
<1> DEFINE r == at[t]
           e == [runs[r] EXCEPT !.out = result[t]]
<1>6. result[t] \in Ends
  BY DEF Publish, Shape
<1>4. runs[r] \in Run
  BY OfRuns
<1>1. e \in Run
  BY <1>4, <1>6 DEF Run
<1>2. runs' = [runs EXCEPT ![r] = e]
  BY DEF Publish
<1>3. /\ Len(runs') = Len(runs)
      /\ \A i \in 1..Len(runs) : runs'[i] = IF i = r THEN e ELSE runs[i]
  <2> HIDE DEF e
  <2> QED
    BY <1>1, <1>2, ExceptInSeq DEF Shape
<1>5. e.methods = runs[r].methods /\ e.led = runs[r].led /\ e.sinks = runs[r].sinks
      /\ e.out = result[t]
  BY <1>4 DEF Run
<1> QED
  BY <1>3, <1>5, <1>6 DEF SameMethods, SameSinks, SameLed, SameOut

LEMMA JoinDoes ==
  ASSUME Shape, IndexOnly, gathering \in {0, Len(runs)}, NEW t \in Threads, Join(t), Fresh(t) # {}
  PROVE  /\ gathering' = Len(runs') /\ gathering' # 0
         /\ IF gathering = 0 THEN Len(runs') = Len(runs) + 1 ELSE Len(runs') = Len(runs)
         /\ \A i \in 1..Len(runs) :
              i # gathering' => SameMethods(i) /\ SameSinks(i) /\ SameLed(i) /\ SameOut(i)
         /\ IF gathering = 0
              THEN /\ runs'[gathering'].methods = Fresh(t) /\ runs'[gathering'].out = "pending"
                   /\ runs'[gathering'].led = FALSE
              ELSE /\ runs'[gathering'].methods = runs[gathering].methods \cup Fresh(t)
                   /\ SameSinks(gathering) /\ SameLed(gathering) /\ SameOut(gathering)
         /\ \A m \in Methods : pending'[m] = IF m \in Fresh(t) THEN gathering' ELSE pending[m]
<1> DEFINE g   == IF gathering # 0 THEN gathering ELSE Len(runs) + 1
           new == [methods |-> {}, led |-> FALSE, sinks |-> {}, out |-> "pending"]
           all == IF gathering = 0 THEN Append(runs, new) ELSE runs
           e   == [all[g] EXCEPT !.methods = @ \cup Fresh(t)]
<1>0. t \in Askers /\ Fresh(t) \subseteq Methods
  BY PsalmAssumption DEF Join, IndexOnly, Threads, Fresh
<1>1. new \in Run
  BY DEF Run, Ends
<1>2. /\ Append(runs, new) \in Seq(Run) /\ Len(Append(runs, new)) = Len(runs) + 1
      /\ \A i \in 1..Len(runs) : Append(runs, new)[i] = runs[i]
      /\ Append(runs, new)[Len(runs) + 1] = new
  <2> HIDE DEF new
  <2> QED
    BY <1>1, AppendProperties DEF Shape
<1>3. Len(runs) \in Nat
  BY LenProperties DEF Shape
<1>4. all \in Seq(Run) /\ g \in 1..Len(all) /\ g = Len(all) /\ g # 0
  BY <1>2, <1>3 DEF Shape
<1>5. all[g] \in Run
  BY <1>4, ElementOfSeq
<1>6. e \in Run
  BY <1>0, <1>5 DEF Run
<1>7. runs' = [all EXCEPT ![g] = e] /\ gathering' = g
  BY DEF Join, Fresh
<1>8. /\ Len(runs') = Len(all)
      /\ \A i \in 1..Len(all) : runs'[i] = IF i = g THEN e ELSE all[i]
  <2> HIDE DEF e, all, g
  <2> QED
    BY <1>4, <1>6, <1>7, ExceptInSeq
<1>9. /\ e.methods = all[g].methods \cup Fresh(t) /\ e.led = all[g].led /\ e.sinks = all[g].sinks
      /\ e.out = all[g].out
  BY <1>5 DEF Run
<1>10. \A m \in Methods : pending'[m] = IF m \in Fresh(t) THEN gathering' ELSE pending[m]
  BY <1>7 DEF Join, Fresh
<1>11. CASE gathering = 0
  <2>1. Len(all) = Len(runs) + 1 /\ g = Len(runs) + 1 /\ all[g] = new
    BY <1>2, <1>11
  <2>2. \A i \in 1..Len(runs) : runs'[i] = runs[i]
    BY <1>2, <1>3, <1>8, <1>11, <2>1
  <2>3. runs'[g] = e
    BY <1>4, <1>8
  <2>4. e.methods = Fresh(t) /\ e.led = FALSE /\ e.out = "pending"
    BY <1>9, <2>1
  <2> HIDE DEF e, all, g, new
  <2> QED
    BY <1>3, <1>7, <1>8, <1>10, <1>11, <2>1, <2>2, <2>3, <2>4
       DEF SameMethods, SameSinks, SameLed, SameOut
<1>12. CASE gathering # 0
  BY <1>3, <1>4, <1>7, <1>8, <1>9, <1>10, <1>12 DEF SameMethods, SameSinks, SameLed, SameOut
<1> QED
  BY <1>11, <1>12

-----------------------------------------------------------------------------
(* The taint analyses: the invariant. *)

\* A pending analysis answers its methods, and only the last one begun may gather more.
RunsInv ==
  /\ gathering \in {0, Len(runs)} /\ (gathering # 0 => runs[gathering].out = "pending")
  /\ \A m \in Methods : pending[m] # 0 =>
       /\ pending[m] \in 1..Len(runs) /\ runs[pending[m]].out = "pending"
       /\ m \in runs[pending[m]].methods
  /\ \A r \in 1..Len(runs) :
       /\ runs[r].out = "pending" => \A m \in runs[r].methods : pending[m] = r
       /\ runs[r].out = "ok" => runs[r].methods \subseteq taint
       /\ ~runs[r].led => runs[r].out = "pending"
  /\ OneAnalysisPerMethod

\* The thread that leads the analysis it is at; it has written the config; Psalm did well.
Leading(t) == job[t] = "taint" /\ pc[t] \in {"queue", "admitted", "config", "psalm", "ended"}
Written(t) == job[t] = "taint" /\ pc[t] \in {"config", "psalm", "ended"}
Done(t)    == job[t] = "taint" /\ pc[t] = "ended" /\ result[t] = "ok"

\* One leader each; from the detaching on, the sinks are the methods and nothing joins.
LeadInv ==
  /\ \A t \in Threads : Leading(t) =>
       at[t] \in 1..Len(runs) /\ runs[at[t]].led /\ runs[at[t]].out = "pending"
  /\ \A s, t \in Threads : Leading(s) /\ Leading(t) /\ at[s] = at[t] => s = t
  /\ \A t \in Threads : Written(t) =>
       gathering # at[t] /\ runs[at[t]].sinks = runs[at[t]].methods
  /\ \A t \in Threads : Done(t) => runs[at[t]].sinks \subseteq analysed

\* The thread has sorted its methods into analyses and has no answer yet.
Covering(t) == pc[t] \in {"sort", "part", "wait"} \/ Leading(t)
Covered(t)  == \A m \in Wants[t] : m \in taint \/ \E r \in parts[t] : m \in runs[r].methods

AskInv ==
  /\ taint \subseteq analysed
  /\ \A t \in Threads : todo[t] \subseteq 1..Len(runs) /\ parts[t] \subseteq 1..Len(runs)
  /\ \A t \in Askers : Covering(t) => Covered(t)
  /\ \A t \in Askers : pc[t] = "answered" => Wants[t] \subseteq taint

TaintInv == RunsInv /\ LeadInv /\ AskInv

LEMMA InitTaint == Init => TaintInv
<1> SUFFICES ASSUME Init PROVE TaintInv
  OBVIOUS
<1>1. runs = <<>> /\ Len(runs) = 0 /\ gathering = 0 /\ taint = {}
  BY DEF Init
<1>2. RunsInv
  BY <1>1 DEF Init, RunsInv, OneAnalysisPerMethod
<1>3. \A t \in Threads : pc[t] = "ask" /\ job[t] = "none" /\ todo[t] = {} /\ parts[t] = {}
  BY DEF Init, ThreadInit
<1>4. LeadInv
  BY <1>3 DEF LeadInv, Leading, Written, Done
<1>5. AskInv
  BY <1>1, <1>3 DEF AskInv, Covering, Leading, Threads
<1> QED
  BY <1>2, <1>4, <1>5 DEF TaintInv

\* A step that leaves the analyses alone and takes its thread no further.
QuietFor(t) ==
  /\ UNCHANGED <<runs, gathering, pending, taint, analysed>>
  /\ Leading(t)' => Leading(t) /\ at'[t] = at[t]
  /\ Written(t)' => Written(t)
  /\ Done(t)' => Done(t)
  /\ Covering(t)' => Covering(t) /\ parts'[t] = parts[t]
  /\ todo'[t] \subseteq todo[t] /\ parts'[t] \subseteq parts[t]
  /\ t \in Askers => (pc'[t] = "answered" => pc[t] = "answered" \/ Wants[t] \subseteq taint)

LEMMA QuietKeeps ==
  ASSUME Shape, TaintInv, NEW t \in Threads, Alone(t), QuietFor(t)
  PROVE  TaintInv'
<1>1. RunsInv'
  BY DEF TaintInv, RunsInv, QuietFor, OneAnalysisPerMethod
<1>2. \A s \in Threads : /\ Leading(s)' => Leading(s) /\ at'[s] = at[s]
                         /\ Written(s)' => Written(s)
                         /\ Done(s)' => Done(s)
  BY DEF Alone, QuietFor, Leading, Written, Done
<1>3. \A s \in Threads : Written(s) => Leading(s)
  BY DEF Written, Leading
<1>4. \A s \in Threads : Done(s) => Leading(s)
  BY DEF Done, Leading
<1>5. \A s \in Threads : Written(s)' => Leading(s)'
  BY DEF Written, Leading
<1>6. \A s \in Threads : Done(s)' => Leading(s)'
  BY DEF Done, Leading
<1>7. UNCHANGED <<runs, gathering, taint, analysed>>
  BY DEF QuietFor
<1>8. LeadInv'
  BY <1>2, <1>5, <1>6, <1>7 DEF TaintInv, LeadInv
<1>9. \A s \in Threads : /\ todo'[s] \subseteq todo[s] /\ parts'[s] \subseteq parts[s]
                         /\ Covering(s)' => Covering(s) /\ parts'[s] = parts[s]
  BY DEF Alone, QuietFor, Covering, Leading
<1>10. \A s \in Askers : pc'[s] = "answered" => pc[s] = "answered" \/ Wants[s] \subseteq taint
  BY DEF Alone, QuietFor, Threads
<1>11. \A s \in Askers : Covering(s)' => Covered(s)'
  BY <1>7, <1>9 DEF TaintInv, AskInv, Covered, Threads
<1>12. AskInv'
  BY <1>7, <1>9, <1>10, <1>11 DEF TaintInv, AskInv
<1> QED
  BY <1>1, <1>8, <1>12 DEF TaintInv

LEMMA SampleKeeps == ASSUME TaintInv, Sample \/ Rest \/ UNCHANGED vars PROVE TaintInv'
<1>1. UNCHANGED <<shared, pc, local>>
  BY DEF Sample, Rest, vars
<1> QED
  BY <1>1 DEF TaintInv, RunsInv, LeadInv, AskInv, OneAnalysisPerMethod, Leading, Written, Done,
              Covering, Covered, shared, local

LEMMA QuietSteps ==
  ASSUME Shape, IndexOnly, NEW t \in Threads,
         \/ Ask(t) \/ AskInVain(t) \/ Prefetch(t) \/ Judge(t)
         \/ CallIndex(t) \/ Build(t) \/ Built(t) \/ IndexDone(t)
         \/ \E m \in Methods : Search(t, m) \/ SearchEnds(t, m) \/ SearchFound(t, m)
         \/ SearchesDone(t) \/ Sort(t) \/ WriteConfig(t) \/ Waited(t) \/ Queue(t)
  PROVE  QuietFor(t)
<1> USE DEF QuietFor, Leading, Written, Done, Covering, Shape, Goto, Return, shared, local
<1>1. CASE Ask(t) \/ AskInVain(t) \/ Prefetch(t)
  <2>1. PICK label \in {"index", "join", "judge"} : Goto(t, label)
    BY <1>1 DEF Ask, AskInVain, Prefetch
  <2> QED
    BY <1>1, <2>1 DEF Ask, AskInVain, Prefetch
<1>2. CASE Judge(t)
  <2>1. PICK label \in {"ask", "failed"} : Goto(t, label)
    BY <1>2 DEF Judge
  <2>2. Return(t) /\ UNCHANGED <<runs, gathering, pending, taint, analysed>>
    BY <1>2 DEF Judge
  <2> QED
    BY <2>1, <2>2
<1>3. CASE CallIndex(t)
  <2>1. PICK label \in {"build", "await"} : Goto(t, label)
    BY <1>3 DEF CallIndex
  <2>2. UNCHANGED <<runs, gathering, pending, taint, analysed, parts, todo>>
    BY <1>3 DEF CallIndex
  <2> QED
    BY <2>1, <2>2
<1>4. CASE Build(t)
  BY <1>4 DEF Build
<1>5. CASE Built(t)
  BY <1>5 DEF Built
<1>6. CASE IndexDone(t)
  <2>1. PICK label \in {"judge", "answered", "join", "search"} : Goto(t, label) /\ (label = "answered" => t = Prefetcher)
    BY <1>6 DEF IndexDone
  <2>2. t \in Askers => t # Prefetcher
    BY PsalmAssumption
  <2>3. UNCHANGED <<runs, gathering, pending, taint, analysed, parts, todo>>
    BY <1>6 DEF IndexDone
  <2> QED
    BY <2>1, <2>2, <2>3
<1>7. CASE \E m \in Methods : Search(t, m) \/ SearchEnds(t, m) \/ SearchFound(t, m)
  <2>1. UNCHANGED <<runs, gathering, pending, taint, analysed, parts, todo>>
    BY <1>7 DEF Search, SearchEnds, SearchFound
  <2>2. CASE UNCHANGED <<pc, job, at, result>>
    BY <2>1, <2>2
  <2>3. CASE job'[t] = "search"
    <3>1. PICK label \in {"queue", "search", "judge"} : Goto(t, label) \/ pc' = pc
      BY <1>7 DEF Search, SearchEnds, SearchFound
    <3>2. pc[t] \in {"search", "ended"} /\ (pc' = pc => pc[t] = "search")
      BY <1>7 DEF Search, SearchEnds, SearchFound
    <3> QED
      BY <2>1, <2>3, <3>1, <3>2
  <2> QED
    BY <1>7, <2>2, <2>3 DEF Search, SearchEnds, SearchFound
<1>8. CASE SearchesDone(t) \/ Sort(t) \/ Waited(t)
  BY <1>8 DEF SearchesDone, Sort, Waited
<1>9. CASE WriteConfig(t)
  BY <1>9 DEF WriteConfig
<1>10. CASE Queue(t)
  BY <1>10 DEF Queue, Enter
<1> QED
  BY <1>1, <1>2, <1>3, <1>4, <1>5, <1>6, <1>7, <1>8, <1>9, <1>10

LEMMA AnswerIsQuiet ==
  ASSUME Shape, TaintInv, NEW t \in Threads, Answer(t)
  PROVE  QuietFor(t)
<1> USE DEF Shape, Goto, Return, shared, local
<1>1. UNCHANGED <<runs, gathering, pending, taint, analysed>>
  BY DEF Answer
<1>2. CASE Goto(t, "judge") /\ UNCHANGED <<at, job, parts, todo>>
  BY <1>1, <1>2 DEF QuietFor, Leading, Written, Done, Covering
<1>3. CASE /\ Goto(t, "answered") /\ Return(t) /\ pc[t] = "part"
           /\ {runs[r].out : r \in parts[t]} \ {"ok"} = {}
  <2>1. ASSUME NEW r \in parts[t] PROVE r \in 1..Len(runs) /\ runs[r].methods \subseteq taint
    <3>1. r \in 1..Len(runs)
      BY DEF TaintInv, AskInv
    <3>2. runs[r].out = "ok"
      BY <1>3
    <3> QED
      BY <3>1, <3>2 DEF TaintInv, RunsInv
  <2>2. t \in Askers => Covered(t)
    BY <1>3 DEF TaintInv, AskInv, Covering
  <2>3. t \in Askers => Wants[t] \subseteq taint
    BY <2>1, <2>2 DEF Covered
  <2> QED
    BY <1>1, <1>3, <2>3 DEF QuietFor, Leading, Written, Done, Covering
<1> QED
  BY <1>2, <1>3 DEF Answer

-----------------------------------------------------------------------------
(* The taint analyses: the steps that touch them. *)

\* Nothing that counts for an analysis changes but its led, its sinks or what is analysed.
LEMMA RunsKept ==
  ASSUME TaintInv, Len(runs') = Len(runs), Len(runs) \in Nat,
         \A i \in 1..Len(runs) : SameMethods(i) /\ SameOut(i) /\ (runs[i].led => runs'[i].led),
         UNCHANGED <<pending, taint>>, gathering' \in {0, gathering}
  PROVE  RunsInv'
BY DEF TaintInv, RunsInv, OneAnalysisPerMethod, SameMethods, SameOut

LEMMA PsalmKeeps ==
  ASSUME Shape, TaintInv, NEW t \in Threads, Psalm(t), Alone(t)
  PROVE  TaintInv'
<1>1. /\ UNCHANGED <<runs, gathering, pending, taint, at, job, parts, todo>>
      /\ Goto(t, "ended") /\ pc[t] = "psalm"
  BY DEF Psalm
<1>2. analysed \subseteq analysed'
  BY DEF Psalm
<1>3. result'[t] = "ok" /\ job[t] = "taint" => runs[at[t]].sinks \subseteq analysed'
  BY DEF Psalm, Shape
<1>4. \A s \in Threads : /\ Leading(s)' => Leading(s)
                         /\ Written(s)' => Written(s)
                         /\ Done(s)' /\ s # t => Done(s)
                         /\ Covering(s)' => Covering(s)
  BY <1>1 DEF Alone, Leading, Written, Done, Covering, Shape, Goto
<1>5. RunsInv'
  BY <1>1 DEF TaintInv, RunsInv, OneAnalysisPerMethod
<1>6. \A s \in Threads : Done(s)' => runs[at[s]].sinks \subseteq analysed'
  BY <1>1, <1>2, <1>3, <1>4 DEF TaintInv, LeadInv, Done
<1>7. LeadInv'
  BY <1>1, <1>4, <1>6 DEF TaintInv, LeadInv
<1>8. \A s \in Askers : Covering(s)' => Covered(s)'
  BY <1>1, <1>4 DEF TaintInv, AskInv, Covered, Threads
<1>9. \A s \in Askers : pc'[s] = "answered" => pc[s] = "answered"
  BY <1>1 DEF Alone, Goto, Shape, Threads
<1>10. AskInv'
  BY <1>1, <1>2, <1>8, <1>9 DEF TaintInv, AskInv
<1> QED
  BY <1>5, <1>7, <1>10 DEF TaintInv

LEMMA DetachKeeps ==
  ASSUME Shape, TaintInv, NEW t \in Threads, Detach(t), Alone(t)
  PROVE  TaintInv'
<1>1. /\ UNCHANGED <<pending, taint, analysed, at, job, result, parts, todo>>
      /\ Goto(t, "config") /\ pc[t] = "admitted" /\ job[t] = "taint"
      /\ gathering' = IF gathering = at[t] THEN 0 ELSE gathering
  BY DEF Detach, local
<1>2. Leading(t) /\ at[t] \in 1..Len(runs)
  BY <1>1 DEF TaintInv, LeadInv, Leading
<1>3. /\ Len(runs') = Len(runs) /\ Len(runs) \in Nat
      /\ \A i \in 1..Len(runs) : SameMethods(i) /\ SameLed(i) /\ SameOut(i)
      /\ \A i \in 1..Len(runs) : i # at[t] => SameSinks(i)
      /\ runs'[at[t]].sinks = runs[at[t]].methods
  BY <1>2, DetachDoes, LenProperties DEF Shape
<1>4. RunsInv'
  BY <1>1, <1>3, RunsKept DEF SameLed
<1>5. \A s \in Threads : /\ Leading(s)' => Leading(s)
                         /\ Written(s)' /\ s # t => Written(s)
                         /\ Done(s)' => Done(s) /\ s # t
                         /\ Covering(s)' => Covering(s)
  BY <1>1 DEF Alone, Leading, Written, Done, Covering, Shape, Goto
<1>6. \A s \in Threads : Written(s) => Leading(s)
  BY DEF Written, Leading
<1>7. \A s \in Threads : Done(s) => Leading(s)
  BY DEF Done, Leading
<1>8. \A s \in Threads : Leading(s) =>
        at[s] \in 1..Len(runs) /\ runs[at[s]].led /\ runs[at[s]].out = "pending" /\ (s # t => at[s] # at[t])
  BY <1>2 DEF TaintInv, LeadInv
<1>9. \A s \in Threads : Leading(s)' =>
        at'[s] \in 1..Len(runs') /\ runs'[at'[s]].led /\ runs'[at'[s]].out = "pending"
  BY <1>1, <1>3, <1>5, <1>8 DEF SameLed, SameOut
<1>10. \A r, s \in Threads : Leading(r)' /\ Leading(s)' /\ at'[r] = at'[s] => r = s
  BY <1>1, <1>5 DEF TaintInv, LeadInv
<1>11. \A s \in Threads : Written(s)' =>
        gathering' # at'[s] /\ runs'[at'[s]].sinks = runs'[at'[s]].methods
  <2>1. gathering' # at[t] /\ runs'[at[t]].sinks = runs'[at[t]].methods
    BY <1>1, <1>2, <1>3 DEF SameMethods
  <2>2. ASSUME NEW s \in Threads, s # t, Written(s)'
        PROVE  gathering' # at[s] /\ runs'[at[s]].sinks = runs'[at[s]].methods
    <3>1. Written(s) /\ at[s] \in 1..Len(runs) /\ at[s] # at[t]
      BY <1>5, <1>6, <1>8, <2>2
    <3>2. gathering # at[s] /\ runs[at[s]].sinks = runs[at[s]].methods
      BY <3>1 DEF TaintInv, LeadInv
    <3>3. at[s] # 0
      BY <1>3, <3>1
    <3> QED
      BY <1>1, <1>3, <3>1, <3>2, <3>3 DEF SameMethods, SameSinks
  <2> QED
    BY <1>1, <2>1, <2>2
<1>12. \A s \in Threads : Done(s)' => runs'[at'[s]].sinks \subseteq analysed'
  BY <1>1, <1>3, <1>5, <1>7, <1>8 DEF TaintInv, LeadInv, SameSinks
<1>13. LeadInv'
  BY <1>9, <1>10, <1>11, <1>12 DEF LeadInv
<1>14. \A s \in Askers : Covering(s)' => Covered(s)'
  BY <1>1, <1>3, <1>5 DEF TaintInv, AskInv, Covered, Threads, SameMethods
<1>15. \A s \in Askers : pc'[s] = "answered" => pc[s] = "answered"
  BY <1>1 DEF Alone, Goto, Shape, Threads
<1>16. AskInv'
  BY <1>1, <1>3, <1>14, <1>15 DEF TaintInv, AskInv
<1> QED
  BY <1>4, <1>13, <1>16 DEF TaintInv

LEMMA TakePartKeeps ==
  ASSUME Shape, TaintInv, NEW t \in Threads, NEW r \in todo[t], TakePart(t, r), Alone(t)
  PROVE  TaintInv'
<1>1. /\ UNCHANGED <<gathering, pending, taint, analysed, result, parts>>
      /\ at'[t] = r /\ todo'[t] \subseteq todo[t] /\ pc[t] = "part"
      /\ pc'[t] \in {"wait", "queue"} /\ (pc'[t] = "queue" => ~runs[r].led)
  BY DEF TakePart, Goto, Shape
<1>2. r \in 1..Len(runs)
  BY DEF TaintInv, AskInv
<1>3. /\ Len(runs') = Len(runs) /\ Len(runs) \in Nat
      /\ \A i \in 1..Len(runs) : SameMethods(i) /\ SameSinks(i) /\ SameOut(i)
      /\ \A i \in 1..Len(runs) : i # r => SameLed(i)
      /\ runs'[r].led = TRUE
  BY <1>2, TakePartDoes, LenProperties DEF Shape
<1>4. RunsInv'
  BY <1>1, <1>2, <1>3, RunsKept DEF SameLed
<1>5. \A s \in Threads : /\ Leading(s)' /\ s # t => Leading(s) /\ at'[s] = at[s]
                         /\ Leading(t)' => ~runs[r].led
                         /\ Written(s)' => Written(s) /\ Leading(s) /\ at'[s] = at[s]
                         /\ Done(s)' => Done(s) /\ Leading(s) /\ at'[s] = at[s]
                         /\ Covering(s)' => Covering(s)
  BY <1>1 DEF Alone, Leading, Written, Done, Covering
<1>6. \A s \in Threads : Leading(s) => at[s] \in 1..Len(runs) /\ runs[at[s]].led /\ runs[at[s]].out = "pending"
  BY DEF TaintInv, LeadInv
<1>7. ASSUME NEW s \in Threads, Leading(s)'
      PROVE  at'[s] \in 1..Len(runs') /\ runs'[at'[s]].led /\ runs'[at'[s]].out = "pending"
  <2>1. CASE s = t
    <3>1. runs[r].out = "pending"
      BY <1>2, <1>5, <1>7, <2>1 DEF TaintInv, RunsInv
    <3> QED
      BY <1>1, <1>2, <1>3, <2>1, <3>1 DEF SameOut
  <2>2. CASE s # t
    <3>1. Leading(s) /\ at'[s] = at[s]
      BY <1>5, <1>7, <2>2
    <3>2. at[s] \in 1..Len(runs) /\ runs[at[s]].led /\ runs[at[s]].out = "pending"
      BY <1>6, <3>1
    <3>3. runs'[at[s]].led
      BY <1>3, <3>2 DEF SameLed
    <3> QED
      BY <1>3, <3>1, <3>2, <3>3 DEF SameOut
  <2> QED
    BY <2>1, <2>2
<1>8. \A p, s \in Threads : Leading(p)' /\ Leading(s)' /\ at'[p] = at'[s] => p = s
  BY <1>1, <1>5, <1>6 DEF TaintInv, LeadInv
<1>9. \A s \in Threads : Written(s)' =>
        gathering' # at'[s] /\ runs'[at'[s]].sinks = runs'[at'[s]].methods
  BY <1>1, <1>3, <1>5, <1>6 DEF TaintInv, LeadInv, SameSinks, SameMethods
<1>10. \A s \in Threads : Done(s)' => runs'[at'[s]].sinks \subseteq analysed'
  BY <1>1, <1>3, <1>5, <1>6 DEF TaintInv, LeadInv, SameSinks
<1>11. LeadInv'
  BY <1>7, <1>8, <1>9, <1>10 DEF LeadInv
<1>12. \A s \in Askers : Covering(s)' => Covered(s)'
  BY <1>1, <1>3, <1>5 DEF TaintInv, AskInv, Covered, Threads, SameMethods
<1>13. \A s \in Askers : pc'[s] = "answered" => pc[s] = "answered"
  BY <1>1 DEF Alone, Threads
<1>14. \A s \in Threads : todo'[s] \subseteq todo[s]
  BY <1>1 DEF Alone
<1>15. AskInv'
  BY <1>1, <1>3, <1>12, <1>13, <1>14 DEF TaintInv, AskInv
<1> QED
  BY <1>4, <1>11, <1>15 DEF TaintInv

LEMMA PublishKeeps ==
  ASSUME Shape, TaintInv, NEW t \in Threads, Publish(t), Alone(t)
  PROVE  TaintInv'
<1> DEFINE r == at[t]
<1>1. /\ UNCHANGED <<analysed, at, job, result, parts, todo>> /\ Goto(t, "part")
      /\ pc[t] = "ended" /\ job[t] = "taint"
      /\ taint' = (IF result[t] = "ok" THEN taint \cup runs[r].methods ELSE taint)
      /\ gathering' = (IF gathering = r THEN 0 ELSE gathering)
      /\ \A m \in Methods :
           pending'[m] = IF m \in runs[r].methods /\ pending[m] = r THEN 0 ELSE pending[m]
  BY DEF Publish, local
<1>2. Leading(t) /\ Written(t) /\ r \in 1..Len(runs) /\ runs[r].led /\ runs[r].out = "pending"
  BY <1>1 DEF TaintInv, LeadInv, Leading, Written
<1>3. /\ Len(runs') = Len(runs) /\ Len(runs) \in Nat
      /\ \A i \in 1..Len(runs) : SameMethods(i) /\ SameLed(i) /\ SameSinks(i)
      /\ \A i \in 1..Len(runs) : i # r => SameOut(i)
      /\ runs'[r].out = result[t] /\ result[t] \in Ends
  BY <1>2, PublishDoes, LenProperties DEF Shape
<1>4. result[t] # "pending"
  BY <1>3, PsalmAssumption DEF Ends
<1>5. taint \subseteq taint' /\ (result[t] = "ok" => runs[r].methods \subseteq taint')
  BY <1>1
<1>6. RunsInv'
  <2>1. gathering' \in {0, Len(runs')} /\ (gathering' # 0 => runs'[gathering'].out = "pending")
    BY <1>1, <1>3 DEF TaintInv, RunsInv, SameOut
  <2>2. ASSUME NEW m \in Methods, pending'[m] # 0
        PROVE  /\ pending'[m] \in 1..Len(runs') /\ runs'[pending'[m]].out = "pending"
               /\ m \in runs'[pending'[m]].methods
    <3>1. /\ pending[m] # 0 /\ pending'[m] = pending[m]
          /\ pending[m] \in 1..Len(runs) /\ runs[pending[m]].out = "pending"
          /\ m \in runs[pending[m]].methods
      BY <1>1, <2>2 DEF TaintInv, RunsInv
    <3>2. pending[m] # r
      BY <1>1, <2>2, <3>1
    <3> QED
      BY <1>3, <3>1, <3>2 DEF SameOut, SameMethods
  <2>3. ASSUME NEW i \in 1..Len(runs)
        PROVE  /\ runs'[i].out = "pending" => \A m \in runs'[i].methods : pending'[m] = i
               /\ runs'[i].out = "ok" => runs'[i].methods \subseteq taint'
               /\ ~runs'[i].led => runs'[i].out = "pending"
    <3>1. CASE i = r
      BY <1>2, <1>3, <1>4, <1>5, <3>1 DEF SameLed, SameMethods
    <3>2. CASE i # r
      <4>1. SameMethods(i) /\ SameLed(i) /\ SameOut(i) /\ runs[i].methods \subseteq Methods
        BY <1>3, <3>2, OfRuns
      <4> QED
        BY <1>1, <1>5, <3>2, <4>1 DEF SameLed, SameMethods, SameOut, TaintInv, RunsInv
    <3> QED
      BY <3>1, <3>2
  <2>4. OneAnalysisPerMethod'
    <3>1. ASSUME NEW i \in 1..Len(runs), NEW j \in 1..Len(runs), i < j,
                 runs'[i].methods \cap runs'[j].methods # {}
          PROVE  runs'[i].out \notin {"pending", "ok"}
      <4>1. runs[i].methods \cap runs[j].methods # {}
        BY <1>3, <3>1 DEF SameMethods
      <4>2. runs[i].out \notin {"pending", "ok"}
        BY <3>1, <4>1 DEF TaintInv, RunsInv, OneAnalysisPerMethod, Shape
      <4>3. i # r
        BY <1>2, <4>2
      <4> QED
        BY <1>3, <4>2, <4>3 DEF SameOut
    <3>2. DOMAIN runs' = 1..Len(runs)
      BY DEF Publish, Shape
    <3> QED
      BY <3>1, <3>2 DEF OneAnalysisPerMethod
  <2> QED
    BY <1>3, <2>1, <2>2, <2>3, <2>4 DEF RunsInv
<1>7. \A s \in Threads : /\ Leading(s)' => Leading(s) /\ s # t
                         /\ Written(s)' => Written(s) /\ Leading(s) /\ s # t
                         /\ Done(s)' => Done(s) /\ Leading(s) /\ s # t
                         /\ Covering(s)' => Covering(s)
  BY <1>1 DEF Alone, Leading, Written, Done, Covering, Shape, Goto
<1>8. \A s \in Threads : Leading(s) =>
        at[s] \in 1..Len(runs) /\ runs[at[s]].led /\ runs[at[s]].out = "pending" /\ (s # t => at[s] # r)
  BY <1>2 DEF TaintInv, LeadInv
<1>9. \A s \in Threads : Leading(s)' =>
        at'[s] \in 1..Len(runs') /\ runs'[at'[s]].led /\ runs'[at'[s]].out = "pending"
  BY <1>1, <1>3, <1>7, <1>8 DEF SameLed, SameOut
<1>10. \A p, s \in Threads : Leading(p)' /\ Leading(s)' /\ at'[p] = at'[s] => p = s
  BY <1>1, <1>7 DEF TaintInv, LeadInv
<1>11. \A s \in Threads : Written(s)' =>
        gathering' # at'[s] /\ runs'[at'[s]].sinks = runs'[at'[s]].methods
  BY <1>1, <1>3, <1>7, <1>8 DEF TaintInv, LeadInv, SameMethods, SameSinks
<1>12. \A s \in Threads : Done(s)' => runs'[at'[s]].sinks \subseteq analysed'
  BY <1>1, <1>3, <1>7, <1>8 DEF TaintInv, LeadInv, SameSinks
<1>13. LeadInv'
  BY <1>9, <1>10, <1>11, <1>12 DEF LeadInv
<1>14. \A s \in Askers : Covering(s)' => Covered(s)'
  BY <1>1, <1>3, <1>5, <1>7 DEF TaintInv, AskInv, Covered, Threads, SameMethods
<1>15. \A s \in Askers : pc'[s] = "answered" => pc[s] = "answered"
  BY <1>1 DEF Alone, Goto, Shape, Threads
<1>16. taint' \subseteq analysed'
  <2>1. CASE result[t] = "ok"
    <3>1. Done(t)
      BY <1>1, <2>1 DEF Done
    <3>2. runs[r].methods \subseteq analysed
      BY <1>2, <3>1 DEF TaintInv, LeadInv
    <3> QED
      BY <1>1, <3>2 DEF TaintInv, AskInv
  <2>2. CASE result[t] # "ok"
    BY <1>1, <2>2 DEF TaintInv, AskInv
  <2> QED
    BY <2>1, <2>2
<1>17. AskInv'
  BY <1>1, <1>3, <1>5, <1>14, <1>15, <1>16 DEF TaintInv, AskInv
<1> QED
  BY <1>6, <1>13, <1>17 DEF TaintInv

LEMMA JoinKeeps ==
  ASSUME Shape, IndexOnly, TaintInv, NEW t \in Threads, Join(t), Alone(t)
  PROVE  TaintInv'
<1> DEFINE open == Wants[t] \ taint
           g    == gathering'
<1>1. /\ UNCHANGED <<taint, analysed, at, job, result>> /\ Goto(t, "sort") /\ pc[t] = "join"
      /\ parts'[t] = {pending'[m] : m \in open} /\ todo'[t] = {pending'[m] : m \in open}
  BY DEF Join, Shape
<1>2. t \in Askers /\ open \subseteq Methods /\ Fresh(t) \subseteq Methods
  BY <1>1, PsalmAssumption DEF IndexOnly, Threads, Fresh
<1>3. Len(runs) \in Nat
  BY LenProperties DEF Shape
<1>4. \A s \in Threads : /\ Leading(s)' => Leading(s) /\ s # t
                         /\ Written(s)' => Written(s) /\ Leading(s) /\ s # t
                         /\ Done(s)' => Done(s) /\ Leading(s) /\ s # t
                         /\ Covering(s)' /\ s # t => Covering(s) /\ parts'[s] = parts[s]
  BY <1>1 DEF Alone, Leading, Written, Done, Covering, Shape, Goto
<1>5. \A s \in Threads : Leading(s) => at[s] \in 1..Len(runs) /\ runs[at[s]].led /\ runs[at[s]].out = "pending"
  BY DEF TaintInv, LeadInv
<1>6. \A s \in Askers : pc'[s] = "answered" => pc[s] = "answered"
  BY <1>1 DEF Alone, Goto, Shape, Threads
<1>7. CASE Fresh(t) = {}
  <2>1. UNCHANGED <<runs, gathering>> /\ \A m \in Methods : pending'[m] = pending[m]
    BY <1>7 DEF Join, Fresh
  <2>2. RunsInv'
    <3>1. \A i \in 1..Len(runs) : runs[i].methods \subseteq Methods
      BY OfRuns
    <3> QED
      BY <1>1, <2>1, <3>1 DEF TaintInv, RunsInv, OneAnalysisPerMethod
  <2>3. LeadInv'
    BY <1>1, <1>4, <2>1 DEF TaintInv, LeadInv
  <2>4. \A m \in open : pending'[m] # 0 /\ pending'[m] \in 1..Len(runs) /\ m \in runs[pending'[m]].methods
    BY <1>2, <1>7, <2>1 DEF TaintInv, RunsInv, Fresh
  <2>5. Covered(t)'
    BY <1>1, <2>1, <2>4 DEF Covered
  <2>6. \A s \in Askers : Covering(s)' => Covered(s)'
    BY <1>1, <1>4, <2>1, <2>5 DEF TaintInv, AskInv, Covered, Threads
  <2>7. todo'[t] \subseteq 1..Len(runs) /\ parts'[t] \subseteq 1..Len(runs)
    BY <1>1, <2>4
  <2>8. AskInv'
    BY <1>1, <1>6, <2>1, <2>6, <2>7 DEF TaintInv, AskInv, Alone
  <2> QED
    BY <2>2, <2>3, <2>8 DEF TaintInv
<1>8. CASE Fresh(t) # {}
  <2>1. /\ g = Len(runs') /\ g # 0
        /\ IF gathering = 0 THEN Len(runs') = Len(runs) + 1 ELSE Len(runs') = Len(runs)
        /\ \A i \in 1..Len(runs) :
             i # g => SameMethods(i) /\ SameSinks(i) /\ SameLed(i) /\ SameOut(i)
        /\ IF gathering = 0
             THEN runs'[g].methods = Fresh(t) /\ runs'[g].out = "pending" /\ runs'[g].led = FALSE
             ELSE /\ runs'[g].methods = runs[gathering].methods \cup Fresh(t)
                  /\ SameSinks(gathering) /\ SameLed(gathering) /\ SameOut(gathering)
        /\ \A m \in Methods : pending'[m] = IF m \in Fresh(t) THEN g ELSE pending[m]
    BY <1>8, JoinDoes DEF TaintInv, RunsInv
  <2>2. /\ g \in 1..Len(runs') /\ (gathering # 0 => g = gathering) /\ 1..Len(runs) \subseteq 1..Len(runs')
        /\ \A i \in 1..Len(runs') : i # g => i \in 1..Len(runs)
        /\ (gathering = 0 => g \notin 1..Len(runs))
    BY <1>3, <2>1 DEF TaintInv, RunsInv
  <2>3. runs'[g].out = "pending"
    BY <2>1, <2>2 DEF TaintInv, RunsInv, SameOut
  <2>4. \A i \in 1..Len(runs) : /\ SameLed(i) /\ SameOut(i)
                               /\ runs[i].methods \subseteq runs'[i].methods
    BY <2>1, <2>2 DEF SameMethods
  <2>5. \A m \in Fresh(t) : m \in Methods /\ pending[m] = 0 /\ m \notin taint /\ m \in runs'[g].methods
    BY <1>2, <2>1 DEF Fresh
  <2>6. RunsInv'
    <3>1. ASSUME NEW m \in Methods, pending'[m] # 0
          PROVE  /\ pending'[m] \in 1..Len(runs') /\ runs'[pending'[m]].out = "pending"
                 /\ m \in runs'[pending'[m]].methods
      <4>1. CASE m \in Fresh(t)
        BY <2>1, <2>2, <2>3, <2>5, <4>1
      <4>2. CASE m \notin Fresh(t)
        <5>1. /\ pending'[m] = pending[m] /\ pending[m] \in 1..Len(runs)
              /\ runs[pending[m]].out = "pending" /\ m \in runs[pending[m]].methods
          BY <2>1, <3>1, <4>2 DEF TaintInv, RunsInv
        <5> QED
          BY <2>2, <2>4, <5>1 DEF SameOut
      <4> QED
        BY <4>1, <4>2
    <3>2. ASSUME NEW i \in 1..Len(runs'), runs'[i].out = "pending", NEW m \in runs'[i].methods
          PROVE  pending'[m] = i
      <4>1. CASE m \in Fresh(t)
        <5>1. ASSUME i # g PROVE FALSE
          <6>1. i \in 1..Len(runs) /\ runs[i].out = "pending" /\ m \in runs[i].methods
            BY <2>1, <2>2, <3>2, <5>1 DEF SameMethods, SameOut
          <6>2. pending[m] = i
            BY <6>1 DEF TaintInv, RunsInv
          <6> QED
            BY <2>5, <4>1, <6>1, <6>2, <1>3
        <5> QED
          BY <2>1, <2>5, <4>1, <5>1
      <4>2. CASE m \notin Fresh(t)
        <5>1. i \in 1..Len(runs) /\ m \in runs[i].methods /\ runs[i].out = "pending"
          BY <2>1, <2>2, <3>2, <4>2 DEF SameMethods, SameOut
        <5>2. m \in Methods /\ pending[m] = i
          BY <5>1, OfRuns DEF TaintInv, RunsInv
        <5> QED
          BY <2>1, <4>2, <5>2
      <4> QED
        BY <4>1, <4>2
    <3>3. ASSUME NEW i \in 1..Len(runs')
          PROVE  /\ runs'[i].out = "ok" => runs'[i].methods \subseteq taint'
                 /\ ~runs'[i].led => runs'[i].out = "pending"
      <4>1. CASE i = g
        BY <2>3, <4>1
      <4>2. CASE i # g
        BY <1>1, <2>1, <2>2, <4>2 DEF TaintInv, RunsInv, SameMethods, SameLed, SameOut
      <4> QED
        BY <4>1, <4>2
    <3>4. OneAnalysisPerMethod'
      <4>1. ASSUME NEW i \in 1..Len(runs'), NEW j \in 1..Len(runs'), i < j,
                   NEW m \in runs'[i].methods \cap runs'[j].methods
            PROVE  runs'[i].out \notin {"pending", "ok"}
        <5>1. i # g /\ i \in 1..Len(runs) /\ m \in runs[i].methods /\ SameOut(i)
          BY <1>3, <2>1, <2>2, <4>1 DEF SameMethods
        <5>2. CASE m \in runs[j].methods /\ j \in 1..Len(runs)
          <6>1. runs[i].out \notin {"pending", "ok"}
            BY <4>1, <5>1, <5>2 DEF TaintInv, RunsInv, OneAnalysisPerMethod, Shape
          <6> QED
            BY <5>1, <6>1 DEF SameOut
        <5>3. CASE ~(m \in runs[j].methods /\ j \in 1..Len(runs))
          <6>1. m \in Fresh(t)
            BY <2>1, <2>2, <4>1, <5>3 DEF SameMethods
          <6>2. runs[i].out # "ok" /\ runs[i].out # "pending"
            BY <1>3, <2>5, <5>1, <6>1 DEF TaintInv, RunsInv
          <6> QED
            BY <5>1, <6>2 DEF SameOut
        <5> QED
          BY <5>2, <5>3
      <4>2. DOMAIN runs' = 1..Len(runs')
        BY ShapeStep DEF Next, Step, Shape
      <4> QED
        BY <4>1, <4>2 DEF OneAnalysisPerMethod
    <3> QED
      BY <2>1, <2>3, <3>1, <3>2, <3>3, <3>4 DEF RunsInv
  <2>7. LeadInv'
    <3>1. \A s \in Threads : Leading(s)' =>
            at'[s] \in 1..Len(runs') /\ runs'[at'[s]].led /\ runs'[at'[s]].out = "pending"
      BY <1>1, <1>4, <1>5, <2>2, <2>4 DEF SameLed, SameOut
    <3>2. \A p, s \in Threads : Leading(p)' /\ Leading(s)' /\ at'[p] = at'[s] => p = s
      BY <1>1, <1>4 DEF TaintInv, LeadInv
    <3>3. ASSUME NEW s \in Threads, Written(s)'
          PROVE  /\ g # at'[s] /\ runs'[at'[s]].sinks = runs'[at'[s]].methods
                 /\ Done(s)' => runs'[at'[s]].sinks \subseteq analysed'
      <4>1. Written(s) /\ at'[s] = at[s] /\ at[s] \in 1..Len(runs) /\ (Done(s)' => Done(s))
        BY <1>1, <1>4, <1>5, <3>3
      <4>2. /\ gathering # at[s] /\ runs[at[s]].sinks = runs[at[s]].methods
            /\ Done(s) => runs[at[s]].sinks \subseteq analysed
        BY <4>1 DEF TaintInv, LeadInv
      <4>3. g # at[s]
        BY <2>2, <4>1, <4>2
      <4>4. SameSinks(at[s]) /\ SameMethods(at[s])
        BY <2>1, <4>1, <4>3
      <4> QED
        BY <1>1, <4>1, <4>2, <4>3, <4>4 DEF SameSinks, SameMethods
    <3>4. \A s \in Threads : Done(s)' => Written(s)'
      BY DEF Done, Written
    <3> QED
      BY <3>1, <3>2, <3>3, <3>4 DEF LeadInv
  <2>8. \A m \in open : pending'[m] \in 1..Len(runs') /\ m \in runs'[pending'[m]].methods
    BY <1>2, <2>1, <2>2, <2>4, <2>5 DEF TaintInv, RunsInv, Fresh
  <2>9. Covered(t)'
    BY <1>1, <2>8 DEF Covered
  <2>10. ASSUME NEW s \in Askers, s # t, Covering(s)' PROVE Covered(s)'
    <3>1. Covered(s) /\ parts'[s] = parts[s] /\ parts[s] \subseteq 1..Len(runs)
      BY <1>4, <2>10 DEF TaintInv, AskInv, Threads
    <3> QED
      BY <1>1, <2>4, <3>1 DEF Covered
  <2>11. \A s \in Threads : todo'[s] \subseteq 1..Len(runs') /\ parts'[s] \subseteq 1..Len(runs')
    <3>1. todo'[t] \subseteq 1..Len(runs') /\ parts'[t] \subseteq 1..Len(runs')
      BY <1>1, <2>8
    <3>2. \A s \in Threads \ {t} : todo'[s] = todo[s] /\ parts'[s] = parts[s]
      BY DEF Alone
    <3> QED
      BY <2>2, <3>1, <3>2 DEF TaintInv, AskInv
  <2>12. AskInv'
    BY <1>1, <1>6, <2>9, <2>10, <2>11 DEF TaintInv, AskInv
  <2> QED
    BY <2>6, <2>7, <2>12 DEF TaintInv
<1> QED
  BY <1>7, <1>8

LEMMA TaintStep == Shape /\ IndexOnly /\ TaintInv /\ [Next]_vars => TaintInv'
<1> SUFFICES ASSUME Shape, IndexOnly, TaintInv, [Next]_vars PROVE TaintInv'
  OBVIOUS
<1>1. ASSUME NEW t \in Threads, Step(t) PROVE TaintInv'
  <2>1. Alone(t)
    BY <1>1, StepAlone
  <2>2. ASSUME NEW r \in todo[t], TakePart(t, r) PROVE TaintInv'
    BY <2>1, <2>2, TakePartKeeps
  <2>3. ASSUME QuietFor(t) PROVE TaintInv'
    BY <2>1, <2>3, QuietKeeps
  <2> QED
    BY <1>1, <2>1, <2>2, <2>3, JoinKeeps, DetachKeeps, PublishKeeps, PsalmKeeps, QuietSteps,
       AnswerIsQuiet DEF Step
<1> QED
  BY <1>1, SampleKeeps DEF Next

LEMMA TaintInvariance == Spec => []TaintInv
<1>1. Init => TaintInv
  BY InitTaint
<1>2. Spec => [](Shape /\ IndexOnly)
  BY IndexInvariance, PTL
<1> QED
  BY <1>1, <1>2, TaintStep, PTL DEF Spec

\* One analysis per method, for any number of askers that come at any time: another is begun
\* only when the last one failed (_join_taint, _publish).
THEOREM AnalysedOnce == Spec => []OneAnalysisPerMethod
<1>1. TaintInv => OneAnalysisPerMethod
  BY DEF TaintInv, RunsInv
<1> QED
  BY <1>1, TaintInvariance, PTL

\* "Not reached" is said of a method only after an analysis that had it among its sinks ended
\* well, however late the method joined (_take_part, _taint_analysis).
THEOREM NotReachedMeansLooked == Spec => []AnswersRestOnAnalysis
<1>1. TaintInv => AnswersRestOnAnalysis
  BY DEF TaintInv, AskInv, AnswersRestOnAnalysis
<1> QED
  BY <1>1, TaintInvariance, PTL
=============================================================================
