----------------------------- MODULE EngineProofs -----------------------------
(***************************************************************************)
(* What Engine keeps for any workers, functions, projects and bounds: that *)
(* the cache of answers is a single flight, that two evaluations never     *)
(* share the database, and that what is kept of a question is true.        *)
(***************************************************************************)
EXTENDS Engine, TLAPS

Places == {"early", "idle", "asking", "waiting", "begin", "locked", "server", "process",
           "publish", "release", "told", "answered", "finished"}

\* The shape of the state, as far as the proofs need it.
Shape ==
  /\ code \in Projects
  /\ at \in [Actors -> Places] /\ on \in [Actors -> Keys \cup {Batch, NoQuestion}]
  /\ step \in [Actors -> Nat] /\ empty \in [Actors -> SUBSET {"decode", "positions"}]
  /\ excused \in [Actors -> BOOLEAN] /\ got \in [Actors -> Values \cup {NoValue}]
  /\ cache \in [Keys -> Values \cup {NoValue}] /\ pending \in [Keys -> Workers \cup {Nobody}]
  /\ batched \in Values \cup {NoValue}

LEMMA AnswerSays ==
  ASSUME NEW q \in Keys \cup {Batch}, NEW unread, code \in Projects
  PROVE  Answer(q, unread) \in Says \ {"raised", "problem"}
BY DEF Answer, True, Says

\* A command moves its actor alone, towards an answer or out of an exception.
Moved(a) ==
  /\ at' = [at EXCEPT ![a] = at'[a]] /\ at'[a] \in Leading \cup {"release"}
  /\ got' = [got EXCEPT ![a] = got'[a]] /\ got'[a] \in Values \cup {NoValue}
  /\ at'[a] = "publish" => got'[a] \in Values \ {Raised}
  /\ at'[a] = "release" => got'[a] = Raised
  /\ step' \in [Actors -> Nat] /\ empty' \in [Actors -> SUBSET {"decode", "positions"}]
  /\ excused' \in [Actors -> BOOLEAN]
  /\ UNCHANGED <<code, on, left, shared>>

LEMMA AdvanceMoves ==
  ASSUME Shape, NEW a \in Actors, NEW unread \in SUBSET {"decode", "positions"},
         NEW excuse \in BOOLEAN, on[a] \in Keys \cup {Batch},
         at[a] \in Leading, Advance(a, unread, excuse), UNCHANGED <<code, on, left, shared>>
  PROVE  Moved(a)
<1>1. [says |-> Answer(on[a], unread), excused |-> excuse] \in Values \ {Raised}
  BY AnswerSays DEF Shape, Values, Raised, Says
<1>2. CASE Go(a, "publish") /\ UNCHANGED step
           /\ got' = [got EXCEPT ![a] = [says |-> Answer(on[a], unread), excused |-> excuse]]
  BY <1>1, <1>2 DEF Advance, Moved, Shape, Go, Leading, Places
<1>3. CASE Go(a, "begin") /\ step' = [step EXCEPT ![a] = @ + 1] /\ UNCHANGED got
  BY <1>3 DEF Advance, Moved, Shape, Go, Leading, Places
<1> QED
  BY <1>2, <1>3 DEF Advance

LEMMA FailMoves ==
  ASSUME Shape, NEW a \in Actors, at[a] \in Leading, Fail(a) \/ Expire(a),
         UNCHANGED <<code, on, left, shared>>
  PROVE  Moved(a)
<1>1. Problem \in Values \ {Raised} /\ Raised \in Values
  BY DEF Problem, Raised, Values, Says
<1> QED
  BY <1>1 DEF Fail, Expire, Moved, Shape, Go, Leading, Places

LEMMA CommandMoves ==
  ASSUME Shape, NEW a \in Actors, Command(a), on[a] \in Keys \cup {Batch}
  PROVE  Moved(a) /\ at[a] \in Leading \ {"publish"}
<1>1. CASE Lock(a) \/ Send(a) \/ Bypass(a)
  BY <1>1 DEF Lock, Send, Bypass, Moved, Shape, Go, Leading, Places, shared
<1>2. CASE Receive(a)
  <2>1. at[a] = "server" /\ at[a] \in Leading \ {"publish"} /\ UNCHANGED <<code, on, left, shared>>
    BY <1>2 DEF Receive, Leading
  <2>2. CASE Go(a, "process") /\ UNCHANGED <<step, empty, excused, got>>
    BY <2>1, <2>2 DEF Moved, Shape, Go, Leading, Places
  <2>3. ASSUME NEW unread \in SUBSET {"decode", "positions"}, NEW excuse \in BOOLEAN,
               Advance(a, unread, excuse)
        PROVE  Moved(a)
    BY <2>1, <2>3, AdvanceMoves
  <2>4. empty[a] \in SUBSET {"decode", "positions"} /\ excused[a] \in BOOLEAN
    BY DEF Shape
  <2>5. OnStdout(Name(a)) => Name(a) \in {"decode", "positions"}
    BY DEF OnStdout
  <2> DEFINE own == Head(queue).of = Mine(a)
             did == Head(queue).did
  <2>6. CASE Head(queue).of # NoCommand /\ OnStdout(Name(a))
    <3>1. (excused[a] \/ (own /\ ~did)) \in BOOLEAN
      OBVIOUS
    <3>2. (IF own /\ did THEN empty[a] ELSE empty[a] \cup {Name(a)}) \in SUBSET {"decode", "positions"}
      BY <2>4, <2>5, <2>6
    <3>3. Advance(a, IF own /\ did THEN empty[a] ELSE empty[a] \cup {Name(a)}, excused[a] \/ (own /\ ~did))
      BY <1>2, <2>6 DEF Receive
    <3> QED
      BY <2>1, <2>3, <3>1, <3>2, <3>3
  <2>7. CASE Head(queue).of # NoCommand /\ ~OnStdout(Name(a)) /\ own /\ did
    <3>1. Advance(a, empty[a], excused[a])
      BY <1>2, <2>7 DEF Receive
    <3> QED
      BY <2>1, <2>3, <2>4, <3>1
  <2>8. CASE ~(Head(queue).of # NoCommand /\ (OnStdout(Name(a)) \/ (own /\ did)))
    <3>1. Go(a, "process") /\ UNCHANGED <<step, empty, excused, got>>
      BY <1>2, <2>8 DEF Receive
    <3> QED
      BY <2>1, <2>2, <3>1
  <2> QED
    BY <2>1, <2>6, <2>7, <2>8
<1>3. CASE Timeout(a)
  BY <1>3, FailMoves DEF Timeout, Leading
<1>4. CASE Process(a)
  <2>1. at[a] \in Leading \ {"publish"} /\ UNCHANGED <<code, on, left, shared>>
    BY <1>4 DEF Process, Leading
  <2>2. CASE Advance(a, empty[a], excused[a])
    BY <2>1, <2>2, AdvanceMoves DEF Shape
  <2>3. CASE Fail(a) \/ Expire(a)
    BY <2>1, <2>3, FailMoves
  <2> QED
    BY <1>4, <2>1, <2>2, <2>3 DEF Process
<1> QED
  BY <1>1, <1>2, <1>3, <1>4 DEF Command

-----------------------------------------------------------------------------
(* The single flight. *)

Held == Leading \cup {"release"}

\* Whoever computes a question has its pending mark, and nothing is kept of it yet.
WorkerFlight(w) ==
  /\ at[w] \in {"asking", "waiting", "answered"} \cup Held => on[w] \in Asked
  /\ at[w] \in Held => pending[on[w]] = w
  /\ at[w] \in Leading => cache[on[w]] = NoValue
  /\ at[w] = "release" => got[w] = Raised \/ (cache[on[w]] = got[w] /\ got[w] \in Values)
  /\ at[w] = "publish" => got[w] \in Values \ {Raised}

\* The preparation is alone, and asks for the imports once.
MainFlight ==
  /\ at[Main] \in {"idle", "finished"} \cup Held
  /\ at[Main] # "finished" => \A w \in Workers : at[w] = "early"
  /\ at[Main] \in Held => on[Main] \in {Imports, Batch}
  /\ at[Main] = "idle" \/ (at[Main] \in Held /\ on[Main] = Imports) => cache[Imports] = NoValue
  /\ at[Main] = "publish" => got[Main] \in Values \ {Raised}

FlightInv ==
  /\ Shape /\ MainFlight
  /\ \A w \in Workers : WorkerFlight(w)
  /\ \A k \in Keys : cache[k] # Raised

LEMMA InitFlight == Init => FlightInv
<1> SUFFICES ASSUME Init PROVE FlightInv
  OBVIOUS
<1> USE EngineAssumption DEF Init
<1>1. Shape
  BY DEF Shape, Places, Actors
<1>2. MainFlight /\ (\A w \in Workers : WorkerFlight(w)) /\ (\A k \in Keys : cache[k] # Raised)
  BY DEF MainFlight, WorkerFlight, Held, Leading, Actors, Keys, Raised, NoValue
<1> QED
  BY <1>1, <1>2 DEF FlightInv

LEMMA CommandFlight ==
  ASSUME FlightInv, NEW a \in Actors, Command(a)
  PROVE  FlightInv' /\ Moved(a) /\ at[a] \in Leading \ {"publish"}
<1> USE EngineAssumption
<1>1. at[a] \in Leading \ {"publish"}
  BY DEF Command, Lock, Send, Bypass, Receive, Timeout, Process, Leading
<1>2. on[a] \in Keys \cup {Batch}
  BY <1>1 DEF FlightInv, MainFlight, WorkerFlight, Held, Actors, Keys
<1>3. Moved(a)
  BY <1>2, CommandMoves DEF FlightInv
<1>4. Shape'
  BY <1>3 DEF FlightInv, Shape, Moved, Leading, Places, shared, Actors
<1>5. ASSUME NEW w \in Workers PROVE WorkerFlight(w)'
  BY <1>1, <1>3 DEF FlightInv, Shape, Moved, WorkerFlight, Held, Leading, shared, Actors
<1>6. MainFlight'
  BY <1>1, <1>3 DEF FlightInv, Shape, Moved, MainFlight, Held, Leading, shared, Actors
<1> QED
  BY <1>1, <1>3, <1>4, <1>5, <1>6 DEF FlightInv, Moved, shared

LEMMA MainKeepsFlight ==
  ASSUME FlightInv, Prepare
  PROVE  FlightInv'
<1> USE EngineAssumption
<1>1. Main \in Actors /\ Imports \in Keys /\ Imports # Batch /\ Imports \notin Asked /\ NoValue \notin Values
  BY DEF Actors, Keys, Imports, Batch, Asked, NoValue, Values, Says
<1>2. CASE PrefillImports
  <2>1. Shape'
    BY <1>1, <1>2 DEF FlightInv, Shape, PrefillImports, Ask, Go, Places, shared
  <2>2. MainFlight' /\ (\A w \in Workers : WorkerFlight(w)') /\ (\A k \in Keys : cache'[k] # Raised)
    BY <1>1, <1>2 DEF FlightInv, Shape, MainFlight, WorkerFlight, PrefillImports, Ask, Go, Held, Leading, shared, Actors
  <2> QED
    BY <2>1, <2>2 DEF FlightInv
<1>3. CASE KeepImports
  <2>1. got[Main] \in Values \ {Raised} /\ cache' = [cache EXCEPT ![Imports] = got[Main]]
    BY <1>1, <1>3 DEF FlightInv, MainFlight, KeepImports, Held, Leading
  <2>2. CASE Ask(Main, Batch, "begin")
    BY <1>1, <1>3, <2>1, <2>2 DEF FlightInv, Shape, MainFlight, WorkerFlight, KeepImports, Ask, Go, Held, Leading, Actors, Places
  <2>3. CASE StartWorkers
    BY <1>1, <1>3, <2>1, <2>3 DEF FlightInv, Shape, MainFlight, WorkerFlight, KeepImports, StartWorkers, Leave, Held, Leading, Actors, Places
  <2> QED
    BY <1>3, <2>2, <2>3 DEF KeepImports
<1>4. CASE KeepBatch
  <2>1. batched' \in Values \cup {NoValue}
    BY <1>1, <1>4 DEF FlightInv, Shape, KeepBatch, Values, Says
  <2> QED
    BY <1>1, <1>4, <2>1 DEF FlightInv, Shape, MainFlight, WorkerFlight, KeepBatch, StartWorkers, Leave, Held, Leading, Actors, Places
<1> QED
  BY <1>2, <1>3, <1>4 DEF Prepare

LEMMA WorkerKeepsFlight ==
  ASSUME FlightInv, NEW w \in Workers, Worker(w)
  PROVE  FlightInv'
<1> USE EngineAssumption
<1>1. w \in Actors /\ w # Main /\ w # Nobody /\ Asked \subseteq Keys /\ NoValue \notin Values
  BY DEF Actors, Keys, NoValue, Values, Says
<1>2. CASE Join(w)
  BY <1>1, <1>2 DEF FlightInv, Shape, MainFlight, WorkerFlight, Join, Go, Held, Leading, Actors, Places
<1>3. CASE Publish(w)
  BY <1>1, <1>3 DEF FlightInv, Shape, MainFlight, WorkerFlight, Publish, Go, Held, Leading, Actors, Places
<1>4. CASE Release(w)
  BY <1>1, <1>4 DEF FlightInv, Shape, MainFlight, WorkerFlight, Release, Held, Leading, Actors, Places
<1>5. CASE Done(w)
  BY <1>1, <1>5 DEF FlightInv, Shape, MainFlight, WorkerFlight, Done, Leave, Go, Held, Leading, Actors, Places, shared
<1>6. ASSUME NEW q \in Asked, Question(w, q) PROVE FlightInv'
  <2>1. True([kind |-> "calls", of |-> q.of]) \in Says
    BY DEF True, Says
  <2>2. ASSUME NEW r \in Values, NEW v \in Says PROVE [r EXCEPT !.says = v] \in Values
    BY DEF Values
  <2>3. CASE Told(w, q)
    <3>1. [says |-> "none", excused |-> cache[Imports].excused] \in Values
      <4>1. \A r \in Values \cup {NoValue} : r.excused \in BOOLEAN
        <5>1. \A r \in Values : r.excused \in BOOLEAN
          BY DEF Values
        <5>2. NoValue.excused = FALSE
          BY DEF NoValue
        <5> QED
          BY <5>1, <5>2
      <4>2. cache[Imports].excused \in BOOLEAN
        BY <4>1 DEF FlightInv, Shape, Keys
      <4>3. "none" \in Says
        BY DEF Says
      <4> QED
        BY <4>2, <4>3 DEF Values
    <3>2. ~NotImported => Shared(q.of) \in Values
      <4> DEFINE v == IF batched.says = "none" THEN "none" ELSE True([kind |-> "calls", of |-> q.of])
      <4>1. v \in Says
        BY <2>1 DEF Says
      <4>2. ~NotImported => batched \in Values
        BY <2>3 DEF Told, FlightInv, Shape
      <4>3. ~NotImported => [batched EXCEPT !.says = v] \in Values
        BY <2>2, <4>1, <4>2
      <4> QED
        BY <4>3 DEF Shared
    <3> DEFINE given == IF NotImported THEN [says |-> "none", excused |-> cache[Imports].excused]
                                       ELSE Shared(q.of)
    <3>3. given \in Values
      BY <3>1, <3>2
    <3>4. /\ at' = [at EXCEPT ![w] = "told"] /\ on' = [on EXCEPT ![w] = q] /\ got' = [got EXCEPT ![w] = given]
          /\ at[w] = "idle" /\ UNCHANGED <<code, step, empty, excused, shared>>
      BY <1>6, <2>3 DEF Question, Go
    <3> HIDE DEF given
    <3> QED
      BY <1>1, <3>3, <3>4 DEF FlightInv, Shape, MainFlight, WorkerFlight, Held, Leading, Actors, Places, shared
  <2>4. CASE ~Told(w, q)
    <3>1. /\ at' = [at EXCEPT ![w] = "asking"] /\ on' = [on EXCEPT ![w] = q] /\ got' = [got EXCEPT ![w] = NoValue]
          /\ step' = [step EXCEPT ![w] = 1] /\ empty' = [empty EXCEPT ![w] = {}]
          /\ excused' = [excused EXCEPT ![w] = FALSE] /\ at[w] = "idle" /\ UNCHANGED <<code, shared>>
      BY <1>6, <2>4 DEF Question, Ask, Go
    <3>2. Shape'
      BY <1>1, <3>1 DEF FlightInv, Shape, Places, shared
    <3>3. MainFlight' /\ (\A v \in Workers : WorkerFlight(v)') /\ (\A k \in Keys : cache'[k] # Raised)
      BY <1>1, <3>1 DEF FlightInv, Shape, MainFlight, WorkerFlight, Held, Leading, Actors, shared
    <3> QED
      BY <3>2, <3>3 DEF FlightInv
  <2> QED
    BY <2>3, <2>4
<1> QED
  BY <1>2, <1>3, <1>4, <1>5, <1>6 DEF Worker

LEMMA FlightInvariance == Spec => []FlightInv
<1>1. ASSUME FlightInv, [Next]_vars PROVE FlightInv'
  <2>1. CASE Server
    BY <1>1, <2>1 DEF Server, Reply, Die, EndOfStream, FlightInv, Shape, MainFlight, WorkerFlight, question, shared, Held
  <2>2. CASE UNCHANGED vars
    BY <1>1, <2>2 DEF vars, FlightInv, Shape, MainFlight, WorkerFlight, question, shared, Held
  <2> QED
    BY <1>1, <2>1, <2>2, MainKeepsFlight, CommandFlight, WorkerKeepsFlight DEF Next
<1> QED
  BY <1>1, InitFlight, PTL DEF Spec

\* Every state of Engine maps to one of SingleFlight, and every step to a step of it or to none.
LEMMA FlightStep == FlightInv /\ FlightInv' /\ [Next]_vars => [Flight!Next]_(Flight!flight)
<1> SUFFICES ASSUME FlightInv, FlightInv', [Next]_vars PROVE Flight!Next \/ UNCHANGED Flight!flight
  OBVIOUS
<1> USE EngineAssumption DEF Flight!flight
<1>0. /\ Main \in Actors /\ Workers \subseteq Actors /\ Asked \subseteq Keys /\ Imports \in Keys /\ Imports \notin Asked
      /\ Batch \notin Keys /\ NoQuestion \notin Keys /\ NoValue \notin Values
  BY DEF Actors, Keys, Asked, Imports, Batch, NoQuestion, NoValue, Values, Says
<1>1. ASSUME NEW a \in Actors, Command(a) PROVE Flight!Next \/ UNCHANGED Flight!flight
  <2>1. Moved(a) /\ at[a] \in Leading \ {"publish"}
    BY <1>1, CommandFlight
  <2>2. Given' = Given /\ cache' = cache
    BY <2>1 DEF FlightInv, Shape, Moved, Leading, shared, Given
  <2>3. CASE at'[a] \in Leading
    <3>1. Working' = Working
      BY <2>1, <2>3 DEF FlightInv, Shape, Moved, Leading, shared, Working
    <3> QED
      BY <2>2, <3>1
  <2>4. CASE at'[a] = "release" /\ on[a] \in Keys
    <3>1. Working[on[a]] = {a}
      BY <1>0, <2>1, <2>4 DEF FlightInv, MainFlight, WorkerFlight, Held, Leading, Actors, Keys, Working
    <3>2. Working' = [Working EXCEPT ![on[a]] = {}]
      <4>1. at' = [at EXCEPT ![a] = "release"] /\ on' = on /\ at \in [Actors -> Places] /\ on \in [Actors -> Keys \cup {Batch, NoQuestion}]
        BY <2>1, <2>4 DEF FlightInv, Shape, Moved
      <4>2. ASSUME NEW k \in Keys PROVE Working'[k] = IF k = on[a] THEN {} ELSE Working[k]
        BY <2>4, <3>1, <4>1 DEF Working, Leading
      <4>3. Working = [k \in Keys |-> Working[k]] /\ Working' = [k \in Keys |-> Working'[k]]
        BY DEF Working
      <4> QED
        BY <4>2, <4>3
    <3>3. Flight!Abandon(a, on[a])
      BY <2>2, <3>1, <3>2 DEF Flight!Abandon
    <3> QED
      BY <2>4, <3>3 DEF Flight!Next
  <2>5. CASE at'[a] = "release" /\ on[a] \notin Keys
    <3>1. Working' = Working
      BY <2>1, <2>5 DEF FlightInv, Shape, Moved, Leading, shared, Working
    <3> QED
      BY <2>2, <3>1
  <2> QED
    BY <2>1, <2>3, <2>4, <2>5 DEF Moved
<1>2. ASSUME PrefillImports PROVE Flight!Next \/ UNCHANGED Flight!flight
  <2>1. /\ at' = [at EXCEPT ![Main] = "begin"] /\ on' = [on EXCEPT ![Main] = Imports] /\ at[Main] = "idle"
        /\ got' = [got EXCEPT ![Main] = NoValue] /\ cache' = cache
    BY <1>2 DEF PrefillImports, Ask, Go, shared
  <2>2. Given' = Given
    BY <2>1 DEF FlightInv, Shape, Given
  <2>3. ASSUME NEW k \in Keys PROVE Working'[k] = IF k = Imports THEN {Main} ELSE Working[k]
    BY <1>0, <2>1 DEF FlightInv, Shape, WorkerFlight, Working, Leading, Held, Actors
  <2>4. Working' = [Working EXCEPT ![Imports] = {Main}]
    BY <2>3 DEF Working
  <2>5. Working[Imports] = {} /\ cache[Imports] = NoValue
    BY <1>0, <2>1 DEF FlightInv, Shape, MainFlight, WorkerFlight, Working, Leading, Held, Actors
  <2>6. Flight!Begin(Main, Imports)
    BY <2>1, <2>2, <2>4, <2>5 DEF Flight!Begin
  <2> QED
    BY <1>0, <2>6 DEF Flight!Next
<1>3. ASSUME KeepImports PROVE Flight!Next \/ UNCHANGED Flight!flight
  <2>1. got[Main] \in Values /\ cache[Imports] = NoValue /\ cache' = [cache EXCEPT ![Imports] = got[Main]]
    BY <1>0, <1>3 DEF FlightInv, MainFlight, KeepImports, Held, Leading
  <2>2. at[Main] = "publish" /\ on[Main] = Imports /\ \A w \in Workers : at[w] = "early"
    BY <1>3 DEF KeepImports, FlightInv, MainFlight
  <2>3. /\ on' = [on EXCEPT ![Main] = on'[Main]] /\ on'[Main] \notin Keys
        /\ \A w \in Workers : at'[w] \in {"early", "idle"}
        /\ at'[Main] \in {"begin", "finished"}
    BY <1>0, <1>3, <2>2 DEF KeepImports, Ask, StartWorkers, Leave, Go, FlightInv, Shape
  <2>4. Given' = Given
    BY <2>2, <2>3 DEF Given, Actors
  <2>5. Working[Imports] = {Main}
    BY <1>0, <2>2 DEF Working, Leading, Actors
  <2>6. ASSUME NEW k \in Keys PROVE Working'[k] = IF k = Imports THEN {} ELSE Working[k]
    BY <1>0, <2>2, <2>3 DEF Working, Leading, Actors
  <2>7. Working' = [Working EXCEPT ![Imports] = {}]
    BY <2>6 DEF Working
  <2>8. Flight!Settle(Main, Imports, got[Main])
    BY <2>1, <2>4, <2>5, <2>7 DEF Flight!Settle
  <2> QED
    BY <1>0, <2>1, <2>8 DEF Flight!Next
<1>4. ASSUME KeepBatch PROVE Flight!Next \/ UNCHANGED Flight!flight
  <2>1. /\ cache' = cache /\ at[Main] = "publish" /\ on[Main] = Batch /\ \A w \in Workers : at[w] = "early"
        /\ \A w \in Workers : at'[w] = "idle"
        /\ at'[Main] = "finished"
    BY <1>0, <1>4 DEF KeepBatch, StartWorkers, FlightInv, MainFlight
  <2>2. Given' = Given
    BY <2>1 DEF Given, Actors
  <2>3. Working' = Working
    BY <1>0, <2>1 DEF Working, Leading, Actors
  <2> QED
    BY <2>1, <2>2, <2>3
<1>5. ASSUME NEW w \in Workers, Join(w) PROVE Flight!Next \/ UNCHANGED Flight!flight
  <2> DEFINE k == on[w]
  <2>1. w \in Actors /\ k \in Asked /\ k \in Keys /\ at[w] = "asking" /\ on' = on /\ cache' = cache
    BY <1>0, <1>5 DEF Join, FlightInv, WorkerFlight
  <2>2. CASE cache[k] # NoValue
    <3>1. at' = [at EXCEPT ![w] = "answered"] /\ got' = [got EXCEPT ![w] = cache[k]] /\ cache[k] # Raised
      BY <1>5, <2>1, <2>2 DEF Join, Go, FlightInv
    <3>2. Working' = Working
      BY <2>1, <3>1 DEF FlightInv, Shape, Working, Leading
    <3>3. Given' = [Given EXCEPT ![w] = cache[k]]
      BY <2>1, <3>1 DEF FlightInv, Shape, Given
    <3>4. Flight!Take(w, k)
      BY <2>1, <2>2, <3>2, <3>3 DEF Flight!Take
    <3> QED
      BY <2>1, <3>4 DEF Flight!Next
  <2>3. CASE cache[k] = NoValue /\ pending[k] # Nobody
    <3>1. at' = [at EXCEPT ![w] = "waiting"] /\ got' = got
      BY <1>5, <2>3 DEF Join, Go
    <3>2. Working' = Working /\ Given' = Given
      BY <2>1, <3>1 DEF FlightInv, Shape, Working, Given, Leading
    <3> QED
      BY <2>1, <3>2
  <2>4. CASE cache[k] = NoValue /\ pending[k] = Nobody
    <3>1. at' = [at EXCEPT ![w] = "begin"] /\ got' = got
      BY <1>5, <2>4 DEF Join, Go
    <3>2. Given' = Given
      BY <2>1, <3>1 DEF FlightInv, Shape, Given
    <3>3. ASSUME NEW a \in Actors, on[a] = k PROVE at[a] \notin Leading
      <4>1. CASE a \in Workers
        BY <2>4, <3>3, <4>1 DEF FlightInv, WorkerFlight, Held
      <4>2. CASE a = Main
        BY <1>0, <2>1, <3>3, <4>2 DEF FlightInv, MainFlight, Held
      <4> QED
        BY <4>1, <4>2 DEF Actors
    <3>4. Working[k] = {}
      BY <2>1, <3>3 DEF Working
    <3>5. ASSUME NEW l \in Keys PROVE Working'[l] = IF l = k THEN {w} ELSE Working[l]
      BY <2>1, <3>1, <3>3 DEF FlightInv, Shape, Working, Leading
    <3>6. Working' = [Working EXCEPT ![k] = {w}]
      <4>1. Working = [l \in Keys |-> Working[l]] /\ Working' = [l \in Keys |-> Working'[l]]
        BY DEF Working
      <4> QED
        BY <2>1, <3>5, <4>1
    <3>7. Flight!Begin(w, k)
      BY <2>1, <2>4, <3>2, <3>4, <3>6 DEF Flight!Begin
    <3> QED
      BY <2>1, <3>7 DEF Flight!Next
  <2> QED
    BY <2>2, <2>3, <2>4
<1>6. ASSUME NEW w \in Workers, Publish(w) PROVE Flight!Next \/ UNCHANGED Flight!flight
  <2> DEFINE k == on[w]
  <2>1. /\ w \in Actors /\ k \in Asked /\ k \in Keys /\ at[w] = "publish" /\ at' = [at EXCEPT ![w] = "release"]
        /\ on' = on /\ got' = got /\ cache' = [cache EXCEPT ![k] = got[w]]
        /\ got[w] \in Values /\ cache[k] = NoValue
    BY <1>0, <1>6 DEF Publish, Go, FlightInv, WorkerFlight, Held, Leading
  <2>2. Given' = Given
    BY <2>1 DEF FlightInv, Shape, Given
  <2>3. Working[k] = {w}
    <3>1. ASSUME NEW a \in Actors, on[a] = k, at[a] \in Leading PROVE a = w
      <4>1. CASE a \in Workers
        BY <2>1, <3>1, <4>1 DEF FlightInv, WorkerFlight, Held, Leading
      <4>2. CASE a = Main
        BY <1>0, <2>1, <3>1, <4>2 DEF FlightInv, MainFlight, Held
      <4> QED
        BY <4>1, <4>2 DEF Actors
    <3> QED
      BY <2>1, <3>1 DEF Working, Leading
  <2>4. ASSUME NEW l \in Keys PROVE Working'[l] = IF l = k THEN {} ELSE Working[l]
    BY <2>1, <2>3 DEF FlightInv, Shape, Working, Leading
  <2>5. Working' = [Working EXCEPT ![k] = {}]
    <3>1. Working = [l \in Keys |-> Working[l]] /\ Working' = [l \in Keys |-> Working'[l]]
      BY DEF Working
    <3> QED
      BY <2>1, <2>4, <3>1
  <2>6. Flight!Settle(w, k, got[w])
    BY <2>1, <2>2, <2>3, <2>5 DEF Flight!Settle
  <2> QED
    BY <2>1, <2>6 DEF Flight!Next
<1>7. ASSUME NEW w \in Workers, Release(w) PROVE Flight!Next \/ UNCHANGED Flight!flight
  <2> DEFINE k == on[w]
  <2>1. w \in Actors /\ k \in Keys /\ at[w] = "release" /\ UNCHANGED <<on, got, cache>>
    BY <1>0, <1>7 DEF Release, FlightInv, WorkerFlight, Held
  <2>2. /\ at'[w] = "answered"
        /\ \A a \in Actors \ {w} : at'[a] = at[a] \/ (at[a] = "waiting" /\ at'[a] = "asking")
    BY <1>7, <2>1 DEF Release
  <2>3. Working' = Working
    BY <2>1, <2>2 DEF Working, Leading
  <2>4. CASE got[w] = Raised
    <3>1. Given' = Given
      BY <2>1, <2>2, <2>4 DEF Given
    <3> QED
      BY <2>1, <2>3, <3>1
  <2>5. CASE got[w] # Raised
    <3>1. cache[k] = got[w]
      BY <2>1, <2>5 DEF FlightInv, WorkerFlight
    <3>2. cache[k] # NoValue
      BY <1>0, <2>1, <2>5, <3>1 DEF FlightInv, WorkerFlight
    <3>3. Given' = [Given EXCEPT ![w] = cache[k]]
      BY <2>1, <2>2, <2>5, <3>1 DEF Given
    <3>4. Flight!Take(w, k)
      BY <2>1, <2>3, <3>2, <3>3 DEF Flight!Take
    <3> QED
      BY <2>1, <3>4 DEF Flight!Next
  <2> QED
    BY <2>4, <2>5
<1>8. ASSUME NEW w \in Workers, Done(w) PROVE Flight!Next \/ UNCHANGED Flight!flight
  <2>1. /\ w \in Actors /\ at[w] \in {"told", "answered"} /\ cache' = cache
        /\ at' = [at EXCEPT ![w] = "idle"] /\ on' = [on EXCEPT ![w] = NoQuestion]
        /\ got' = [got EXCEPT ![w] = NoValue]
    BY <1>0, <1>8 DEF Done, Go, Leave, shared
  <2>2. Working' = Working
    BY <1>0, <2>1 DEF FlightInv, Shape, Working, Leading
  <2>3. Given' = [Given EXCEPT ![w] = NoValue]
    BY <2>1 DEF FlightInv, Shape, Given
  <2>4. Flight!Forget(w)
    BY <2>1, <2>2, <2>3 DEF Flight!Forget
  <2> QED
    BY <2>1, <2>4 DEF Flight!Next
<1>9. ASSUME NEW w \in Workers, NEW q \in Asked, Question(w, q)
      PROVE  Flight!Next \/ UNCHANGED Flight!flight
  <2>1. /\ w \in Actors /\ at[w] = "idle" /\ cache' = cache
        /\ at' = [at EXCEPT ![w] = at'[w]] /\ at'[w] \in {"told", "asking"}
        /\ on' = [on EXCEPT ![w] = q] /\ got' = [got EXCEPT ![w] = got'[w]]
    BY <1>0, <1>9 DEF Question, Ask, Go, FlightInv, Shape, shared
  <2>2. Working' = Working /\ Given' = Given
    BY <2>1 DEF FlightInv, Shape, Working, Given, Leading
  <2> QED
    BY <2>1, <2>2
<1>10. ASSUME Server \/ UNCHANGED vars PROVE Flight!Next \/ UNCHANGED Flight!flight
  BY <1>10 DEF Server, Reply, Die, EndOfStream, vars, question, shared, Working, Given
<1> QED
  BY <1>1, <1>2, <1>3, <1>4, <1>5, <1>6, <1>7, <1>8, <1>9, <1>10 DEF Next, Prepare, Worker

LEMMA FlightStart == Init => Flight!Init
BY EngineAssumption DEF Init, Flight!Init, Working, Given, Leading, Actors

\* The cache of answers (sca/chain/support.py, _once), with everything that can happen to the
\* commands below it, implements the single flight: one works on a question at a time, what it
\* finds is kept, everyone is given that, and a computation that raises leaves room for the next.
THEOREM OnceIsKept == Spec => FlightKept
<1>1. FlightInv /\ FlightInv' /\ [Next]_vars => [Flight!Next]_(Flight!flight)
  BY FlightStep
<1> QED
  BY <1>1, FlightStart, FlightInvariance, PTL DEF Spec, FlightKept, Flight!Spec

-----------------------------------------------------------------------------
(* The server and the two locks. *)

Orders == [by : Actors \cup {Nobody}, on : Keys \cup {Batch, NoQuestion}, step : Nat]
Busy   == {"locked", "server", "process"}

\* Who evaluates has the database; who waits for the server has the server.
LocksInv ==
  /\ dbLock \in Actors \cup {Nobody} /\ serverLock \in Actors \cup {Nobody}
  /\ \A a \in Actors : /\ at[a] \in Busy /\ OpensDatabase(Name(a)) => dbLock = a
                       /\ at[a] = "server" <=> serverLock = a

\* While the server is trusted, it works on the command of who waits for it, or has answered
\* that one: the rest of the queue are ends of streams.
QueueInv ==
  /\ command \in Orders /\ queue \in Seq([of : Orders, did : BOOLEAN]) /\ broken \in BOOLEAN
  /\ serverLock # Nobody => ~broken
  /\ command # NoCommand => serverLock # Nobody /\ command = Mine(serverLock)
  /\ \A i \in 1..Len(queue) : queue[i].of # NoCommand /\ ~broken =>
       /\ serverLock # Nobody /\ queue[i].of = Mine(serverLock) /\ command = NoCommand
       /\ \A j \in 1..Len(queue) : queue[j].of # NoCommand => i = j

CliInv == FlightInv /\ LocksInv /\ QueueInv

LEMMA InitCli == Init => CliInv
<1> SUFFICES ASSUME Init PROVE LocksInv /\ QueueInv
  BY InitFlight DEF CliInv
<1> USE EngineAssumption DEF Init
<1>1. LocksInv
  BY DEF LocksInv, Busy, Actors
<1>2. NoCommand \in Orders
  BY DEF NoCommand, Orders
<1>3. command \in Orders /\ queue \in Seq([of : Orders, did : BOOLEAN]) /\ Len(queue) = 0
  BY <1>2
<1>4. QueueInv
  <2>1. 1..Len(queue) = {} /\ broken = FALSE /\ serverLock = Nobody /\ command = NoCommand
    BY <1>3
  <2> QED
    BY <1>3, <2>1 DEF QueueInv
<1> QED
  BY <1>1, <1>4

\* Steps beside the server and the locks.
Aside(a) ==
  at[a] \in Busy \/ at'[a] \in Busy => at'[a] = at[a] /\ on'[a] = on[a] /\ step'[a] = step[a]

LEMMA AsideKeepsCli ==
  ASSUME CliInv, UNCHANGED cli,
         \A a \in Actors : Aside(a)
  PROVE  LocksInv' /\ QueueInv'
<1>1. ASSUME NEW a \in Actors, at'[a] \in Busy
      PROVE  at[a] \in Busy /\ on'[a] = on[a] /\ step'[a] = step[a] /\ Name(a)' = Name(a)
  BY <1>1 DEF Name, Aside
<1>2. LocksInv'
  <2>1. dbLock' = dbLock /\ serverLock' = serverLock
    BY DEF cli
  <2>2. ASSUME NEW a \in Actors, at'[a] \in Busy, OpensDatabase(Name(a))'
        PROVE  dbLock' = a
    BY <1>1, <2>1, <2>2 DEF CliInv, LocksInv, OpensDatabase
  <2>3. ASSUME NEW a \in Actors PROVE at'[a] = "server" <=> serverLock' = a
    BY <2>1 DEF CliInv, LocksInv, Busy, Aside
  <2> QED
    BY <2>1, <2>2, <2>3 DEF CliInv, LocksInv
<1>3. serverLock # Nobody => Mine(serverLock)' = Mine(serverLock)
  <2>1. serverLock # Nobody => serverLock \in Actors /\ at[serverLock] \in Busy
    BY DEF CliInv, LocksInv, Busy
  <2>2. serverLock' = serverLock
    BY DEF cli
  <2> QED
    BY <2>1, <2>2 DEF Mine, Aside
<1>4. QueueInv'
  BY <1>3 DEF CliInv, QueueInv, cli
<1> QED
  BY <1>2, <1>4

LEMMA WorkersKeepCli ==
  ASSUME CliInv, Prepare \/ \E w \in Workers : Worker(w)
  PROVE  LocksInv' /\ QueueInv'
<1> USE EngineAssumption
<1>0. FlightInv /\ Main \in Actors /\ Workers \subseteq Actors
  BY DEF CliInv, Actors
<1> SUFFICES UNCHANGED cli /\ \A a \in Actors : Aside(a)
  BY AsideKeepsCli
<1> USE DEF Busy, Aside
<1>1. CASE PrefillImports
  BY <1>0, <1>1 DEF PrefillImports, Ask, Go, FlightInv, Shape
<1>2. CASE KeepImports
  <2>1. \A w \in Workers : at[w] = "early"
    BY <1>0, <1>2 DEF KeepImports, FlightInv, MainFlight
  <2>2. CASE Ask(Main, Batch, "begin")
    BY <1>0, <1>2, <2>1, <2>2 DEF KeepImports, Ask, Go, FlightInv, Shape, Actors
  <2>3. CASE StartWorkers
    BY <1>0, <1>2, <2>1, <2>3 DEF KeepImports, StartWorkers, Leave, FlightInv, Shape, Actors
  <2> QED
    BY <1>2, <2>2, <2>3 DEF KeepImports
<1>3. CASE KeepBatch
  <2>1. \A w \in Workers : at[w] = "early"
    BY <1>0, <1>3 DEF KeepBatch, FlightInv, MainFlight
  <2> QED
    BY <1>0, <1>3, <2>1 DEF KeepBatch, StartWorkers, Leave, FlightInv, Shape, Actors
<1>4. ASSUME NEW w \in Workers, Join(w) \/ Publish(w) \/ Done(w)
      PROVE  UNCHANGED cli /\ \A a \in Actors : Aside(a)
  BY <1>0, <1>4 DEF Join, Publish, Done, Leave, Go, FlightInv, Shape
<1>5. ASSUME NEW w \in Workers, Release(w)
      PROVE  UNCHANGED cli /\ \A a \in Actors : Aside(a)
  BY <1>0, <1>5 DEF Release
<1>6. ASSUME NEW w \in Workers, NEW q \in Asked, Question(w, q)
      PROVE  UNCHANGED cli /\ \A a \in Actors : Aside(a)
  <2>1. UNCHANGED cli /\ at[w] = "idle" /\ \E p \in {"told", "asking"} : at' = [at EXCEPT ![w] = p]
    BY <1>6 DEF Question, Ask, Go
  <2>2. on' = [on EXCEPT ![w] = q] /\ (step' = step \/ step' = [step EXCEPT ![w] = 1])
    BY <1>6 DEF Question, Ask
  <2> QED
    BY <1>0, <2>1, <2>2 DEF FlightInv, Shape
<1> QED
  BY <1>1, <1>2, <1>3, <1>4, <1>5, <1>6 DEF Prepare, Worker

\* A command that succeeded, failed or ran out of time has left the database.
Leaves(a) ==
  /\ dbLock' = IF dbLock = a THEN Nobody ELSE dbLock
  /\ at' = [at EXCEPT ![a] = at'[a]] /\ at'[a] \notin Busy
  /\ on' = on /\ step' = [step EXCEPT ![a] = step'[a]]

LEMMA AdvanceLeaves ==
  ASSUME Shape, NEW a \in Actors, NEW unread, NEW excuse, Advance(a, unread, excuse), on' = on
  PROVE  Leaves(a)
BY DEF Advance, Leaves, FreeDatabase, Go, Busy, Shape

LEMMA FailLeaves ==
  ASSUME Shape, NEW a \in Actors, Fail(a) \/ Expire(a), on' = on
  PROVE  Leaves(a)
BY DEF Fail, Expire, Leaves, FreeDatabase, Go, Busy, Shape

\* What a command does with the server and the locks: it takes them, keeps them or leaves them.
Keeps(a) ==
  /\ at' = [at EXCEPT ![a] = "process"] /\ at[a] = "server" /\ UNCHANGED <<dbLock, on, step>>

LEMMA ReceiveKeepsOrLeaves ==
  ASSUME CliInv, NEW a \in Actors, Receive(a)
  PROVE  Keeps(a) \/ Leaves(a)
<1>1. at[a] = "server" /\ on' = on /\ Shape
  BY DEF Receive, CliInv, FlightInv
<1> DEFINE own == Head(queue).of = Mine(a)
           did == Head(queue).did
<1>2. CASE Head(queue).of # NoCommand /\ OnStdout(Name(a))
  <2>1. Advance(a, IF own /\ did THEN empty[a] ELSE empty[a] \cup {Name(a)}, excused[a] \/ (own /\ ~did))
    BY <1>2 DEF Receive
  <2> QED
    BY <1>1, <2>1, AdvanceLeaves
<1>3. CASE Head(queue).of # NoCommand /\ ~OnStdout(Name(a)) /\ own /\ did
  <2>1. Advance(a, empty[a], excused[a])
    BY <1>3 DEF Receive
  <2> QED
    BY <1>1, <2>1, AdvanceLeaves
<1>4. CASE ~(Head(queue).of # NoCommand /\ (OnStdout(Name(a)) \/ (own /\ did)))
  BY <1>1, <1>4 DEF Receive, Keeps, Go
<1> QED
  BY <1>2, <1>3, <1>4

LEMMA CommandKeepsLocks ==
  ASSUME CliInv, NEW a \in Actors, Command(a)
  PROVE  LocksInv'
<1> USE EngineAssumption
<1>0. Nobody \notin Actors /\ LocksInv /\ Shape
  BY DEF CliInv, FlightInv, Actors
<1>1. CASE Lock(a)
  <2>1. at' = [at EXCEPT ![a] = "locked"] /\ UNCHANGED <<on, step, serverLock>> /\ at[a] = "begin"
    BY <1>1 DEF Lock, Go
  <2>2. IF OpensDatabase(Name(a)) THEN dbLock = Nobody /\ dbLock' = a ELSE dbLock' = dbLock
    BY <1>1 DEF Lock
  <2>3. \A b \in Actors : Name(b)' = Name(b)
    BY <2>1 DEF Name
  <2> QED
    BY <1>0, <2>1, <2>2, <2>3 DEF LocksInv, Busy, Shape, OpensDatabase
<1>2. CASE Send(a)
  <2>1. /\ at' = [at EXCEPT ![a] = "server"] /\ UNCHANGED <<on, step, dbLock>> /\ at[a] = "locked"
        /\ serverLock = Nobody /\ serverLock' = a
    BY <1>2 DEF Send, Go
  <2>2. \A b \in Actors : Name(b)' = Name(b)
    BY <2>1 DEF Name
  <2> QED
    BY <1>0, <2>1, <2>2 DEF LocksInv, Busy, Shape, OpensDatabase
<1>3. CASE Bypass(a)
  <2>1. /\ at' = [at EXCEPT ![a] = "process"] /\ UNCHANGED <<on, step, dbLock, serverLock>>
        /\ at[a] = "locked"
    BY <1>3 DEF Bypass, Go
  <2>2. \A b \in Actors : Name(b)' = Name(b)
    BY <2>1 DEF Name
  <2> QED
    BY <1>0, <2>1, <2>2 DEF LocksInv, Busy, Shape, OpensDatabase
<1>4. CASE Keeps(a) /\ serverLock' = Nobody
  <2>1. \A b \in Actors : Name(b)' = Name(b)
    BY <1>4 DEF Name, Keeps
  <2> QED
    BY <1>0, <1>4, <2>1 DEF LocksInv, Busy, Shape, OpensDatabase, Keeps
<1>5. ASSUME Leaves(a), (at[a] = "server" /\ serverLock' = Nobody)
                        \/ (at[a] = "process" /\ serverLock' = serverLock)
      PROVE  LocksInv'
  <2>1. \A b \in Actors \ {a} : Name(b)' = Name(b) /\ at'[b] = at[b]
    BY <1>0, <1>5 DEF Name, Leaves, Shape
  <2>2. at'[a] \notin Busy
    BY <1>5 DEF Leaves
  <2>3. dbLock' \in Actors \cup {Nobody} /\ serverLock' \in Actors \cup {Nobody}
    BY <1>0, <1>5 DEF Leaves, LocksInv
  <2>4. ASSUME NEW b \in Actors, at'[b] \in Busy, OpensDatabase(Name(b))' PROVE dbLock' = b
    BY <1>0, <1>5, <2>1, <2>2, <2>4 DEF Leaves, LocksInv, OpensDatabase
  <2>5. ASSUME NEW b \in Actors PROVE at'[b] = "server" <=> serverLock' = b
    BY <1>0, <1>5, <2>1, <2>2, <2>5 DEF LocksInv, Busy
  <2> QED
    BY <2>3, <2>4, <2>5 DEF LocksInv
<1>6. CASE Receive(a)
  BY <1>4, <1>5, <1>6, ReceiveKeepsOrLeaves DEF Receive
<1>7. CASE Timeout(a)
  <2>1. Expire(a) /\ on' = on /\ at[a] = "server" /\ serverLock' = Nobody
    BY <1>7 DEF Timeout
  <2> QED
    BY <1>0, <1>5, <2>1, FailLeaves
<1>8. CASE Process(a)
  <2>1. on' = on /\ at[a] = "process" /\ serverLock' = serverLock
    BY <1>8 DEF Process
  <2>2. Advance(a, empty[a], excused[a]) \/ Fail(a) \/ Expire(a)
    BY <1>8 DEF Process
  <2> QED
    BY <1>0, <1>5, <2>1, <2>2, FailLeaves, AdvanceLeaves
<1> QED
  BY <1>1, <1>2, <1>3, <1>6, <1>7, <1>8 DEF Command

\* What the server answered is taken by who waits for it, or the server is off.
LEMMA CommandKeepsQueue ==
  ASSUME CliInv, NEW a \in Actors, Command(a)
  PROVE  QueueInv'
<1> USE EngineAssumption
<1>0. Nobody \notin Actors /\ LocksInv /\ Shape /\ QueueInv
  BY DEF CliInv, FlightInv, Actors
<1>1. CASE Lock(a)
  <2>1. UNCHANGED <<on, step, serverLock, broken, queue, command>>
    BY <1>1 DEF Lock
  <2>2. Mine(serverLock)' = Mine(serverLock)
    BY <2>1 DEF Mine
  <2> QED
    BY <1>0, <2>1, <2>2 DEF QueueInv
<1>2. CASE Send(a)
  <2>1. /\ UNCHANGED <<on, step, broken>> /\ ~broken /\ serverLock = Nobody /\ serverLock' = a
        /\ queue' = IF server = "up" THEN queue ELSE <<>>
        /\ command' = Mine(a)
    BY <1>2 DEF Send, Mine
  <2>2. command' = Mine(serverLock)' /\ command' \in Orders
    <3>1. on[a] \in Keys \cup {Batch, NoQuestion} /\ step[a] \in Nat
      BY <1>0 DEF Shape
    <3> QED
      BY <2>1, <3>1 DEF Mine, Orders
  <2>3. queue' \in Seq([of : Orders, did : BOOLEAN])
    BY <1>0, <2>1 DEF QueueInv
  <2>4. \A i \in 1..Len(queue') : queue'[i].of = NoCommand
    BY <1>0, <2>1 DEF QueueInv
  <2> QED
    BY <1>0, <2>1, <2>2, <2>3, <2>4 DEF QueueInv
<1>3. CASE Bypass(a)
  <2>1. UNCHANGED <<serverLock, queue, command>> /\ serverLock = Nobody /\ broken' \in {broken, TRUE}
    BY <1>3 DEF Bypass
  <2> QED
    BY <1>0, <2>1 DEF QueueInv
<1>4. CASE Receive(a)
  <2>1. /\ serverLock = a /\ serverLock' = Nobody /\ queue # <<>> /\ queue' = Tail(queue)
        /\ ~broken
    BY <1>0, <1>4 DEF Receive, LocksInv, QueueInv
  <2>2. /\ queue' \in Seq([of : Orders, did : BOOLEAN]) /\ Len(queue) > 0
        /\ \A i \in 1..Len(queue') : i + 1 \in 1..Len(queue) /\ queue'[i] = queue[i + 1]
    BY <1>0, <2>1 DEF QueueInv
  <2>3. NoCommand \in Orders
    BY DEF NoCommand, Orders
  <2>4. CASE Head(queue).of = NoCommand
    <3>1. broken' = TRUE /\ command' = NoCommand
      BY <1>4, <2>4 DEF Receive, Disable
    <3> QED
      BY <2>1, <2>2, <2>3, <3>1 DEF QueueInv
  <2>5. CASE Head(queue).of # NoCommand
    <3>1. UNCHANGED <<broken, command>>
      BY <1>4, <2>5 DEF Receive
    <3>2. 1 \in 1..Len(queue) /\ queue[1] = Head(queue)
      BY <1>0, <2>2 DEF QueueInv
    <3>3. command = NoCommand
      BY <1>0, <2>1, <2>5, <3>2 DEF QueueInv
    <3>4. \A i \in 1..Len(queue') : queue'[i].of = NoCommand
      <4> SUFFICES ASSUME NEW i \in 1..Len(queue'), queue[i + 1].of # NoCommand PROVE FALSE
        BY <2>2
      <4>1. 1 = i + 1
        BY <1>0, <2>1, <2>2, <2>5, <3>2 DEF QueueInv
      <4> QED
        BY <4>1
    <3> QED
      BY <1>0, <2>1, <2>2, <3>1, <3>3, <3>4 DEF QueueInv
  <2> QED
    BY <2>4, <2>5
<1>5. CASE Timeout(a)
  <2>1. broken' = TRUE /\ command' = NoCommand /\ serverLock' = Nobody /\ queue' = queue
    BY <1>5 DEF Timeout, Disable
  <2>2. NoCommand \in Orders
    BY DEF NoCommand, Orders
  <2> QED
    BY <1>0, <2>1, <2>2 DEF QueueInv
<1>6. CASE Process(a)
  <2>1. at[a] = "process" /\ UNCHANGED <<on, serverLock, broken, queue, command>>
    BY <1>6 DEF Process
  <2>2. serverLock # a
    BY <1>0, <2>1 DEF LocksInv
  <2>3. Leaves(a)
    BY <1>0, <1>6, AdvanceLeaves, FailLeaves DEF Process
  <2>4. serverLock # Nobody => Mine(serverLock)' = Mine(serverLock)
    BY <1>0, <2>1, <2>2, <2>3 DEF Mine, Leaves, LocksInv, Shape
  <2> QED
    BY <1>0, <2>1, <2>4 DEF QueueInv
<1> QED
  BY <1>1, <1>2, <1>3, <1>4, <1>5, <1>6 DEF Command

LEMMA ServerKeepsCli ==
  ASSUME CliInv, Server
  PROVE  LocksInv' /\ QueueInv'
<1>0. LocksInv /\ QueueInv /\ UNCHANGED question
  BY DEF CliInv, Server, Reply, Die, EndOfStream
<1>1. UNCHANGED <<dbLock, serverLock, broken>>
  BY DEF Server, Reply, Die, EndOfStream
<1>2. Mine(serverLock)' = Mine(serverLock) /\ NoCommand \in Orders
  BY <1>0, <1>1 DEF Mine, question, NoCommand, Orders
<1>3. LocksInv'
  BY <1>0, <1>1 DEF LocksInv, Name, OpensDatabase, question
<1>4. CASE Reply
  <2>1. command \in Orders /\ command # NoCommand /\ command' = NoCommand
    BY <1>0, <1>4 DEF Reply, QueueInv
  <2>2. PICK did \in BOOLEAN : queue' = Append(queue, [of |-> command, did |-> did])
    BY <1>4 DEF Reply
  <2>3. /\ queue' \in Seq([of : Orders, did : BOOLEAN]) /\ Len(queue') = Len(queue) + 1
        /\ queue'[Len(queue) + 1].of = command
        /\ \A i \in 1..Len(queue) : queue'[i] = queue[i]
    BY <1>0, <2>1, <2>2 DEF QueueInv
  <2>4. serverLock # Nobody /\ command = Mine(serverLock) /\ ~broken
    BY <1>0, <2>1 DEF QueueInv
  <2>5. \A i \in 1..Len(queue) : queue[i].of = NoCommand
    BY <1>0, <2>1, <2>4 DEF QueueInv
  <2>6. \A i \in 1..Len(queue') : i \in 1..Len(queue) \/ i = Len(queue) + 1
    BY <1>0, <2>3 DEF QueueInv
  <2>7. \A i \in 1..Len(queue') : queue'[i].of # NoCommand => i = Len(queue) + 1
    BY <2>3, <2>5, <2>6
  <2> QED
    BY <1>0, <1>1, <1>2, <1>3, <2>1, <2>3, <2>4, <2>7 DEF QueueInv
<1>5. CASE Die
  BY <1>0, <1>1, <1>2, <1>3, <1>5 DEF Die, QueueInv
<1>6. CASE EndOfStream
  <2>1. queue' = Append(queue, [of |-> NoCommand, did |-> FALSE]) /\ command' = command
    BY <1>6 DEF EndOfStream
  <2>2. /\ queue' \in Seq([of : Orders, did : BOOLEAN]) /\ Len(queue') = Len(queue) + 1
        /\ queue'[Len(queue) + 1].of = NoCommand
        /\ \A i \in 1..Len(queue) : queue'[i] = queue[i]
    BY <1>0, <1>2, <2>1 DEF QueueInv
  <2>3. \A i \in 1..Len(queue') : queue'[i].of # NoCommand => i \in 1..Len(queue)
    BY <1>0, <2>2 DEF QueueInv
  <2> QED
    BY <1>0, <1>1, <1>2, <1>3, <2>1, <2>2, <2>3 DEF QueueInv
<1> QED
  BY <1>4, <1>5, <1>6 DEF Server

LEMMA CliStep == CliInv /\ FlightInv' /\ [Next]_vars => CliInv'
<1> SUFFICES ASSUME CliInv, FlightInv', [Next]_vars PROVE LocksInv' /\ QueueInv'
  BY DEF CliInv
<1>1. CASE UNCHANGED vars
  BY <1>1 DEF CliInv, LocksInv, QueueInv, Name, OpensDatabase, Mine, vars, question, cli
<1> QED
  BY <1>1, WorkersKeepCli, CommandKeepsLocks, CommandKeepsQueue, ServerKeepsCli DEF Next

LEMMA CliInvariance == Spec => []CliInv
BY InitCli, CliStep, FlightInvariance, PTL DEF Spec

LEMMA CliImplies == CliInv => OneEvaluation
<1> SUFFICES ASSUME CliInv, NEW a \in Actors, NEW b \in Actors,
                    at[a] = "process", OpensDatabase(Name(a))
             PROVE  ~Evaluating /\ (at[b] = "process" /\ OpensDatabase(Name(b)) => a = b)
  BY DEF OneEvaluation
<1>1. dbLock = a
  BY DEF CliInv, LocksInv, Busy
<1>2. ASSUME Evaluating PROVE FALSE
  <2>1. serverLock \in Actors /\ command = Mine(serverLock)
    BY <1>2 DEF Evaluating, CliInv, QueueInv, LocksInv
  <2>2. at[serverLock] = "server" /\ OpensDatabase(Name(serverLock))
    BY <1>2, <2>1 DEF Evaluating, Mine, Name, OpensDatabase, CliInv, LocksInv
  <2> QED
    BY <1>1, <2>1, <2>2 DEF CliInv, LocksInv, Busy
<1>3. at[b] = "process" /\ OpensDatabase(Name(b)) => a = b
  BY <1>1 DEF CliInv, LocksInv, Busy
<1> QED
  BY <1>2, <1>3

\* Two evaluations never share the database (codeql_runner.run_codeql under its lock): not
\* those of two workers, and not the process that repeats a command with a server that has it.
THEOREM EvaluationsApart == Spec => []OneEvaluation
BY CliInvariance, CliImplies, PTL

-----------------------------------------------------------------------------
(* The answers that are kept. *)

Open == {"asking", "waiting"} \cup Leading

\* What AnswersTrue says of one answer.
Right(k, v) ==
  v.excused \/ v.says \in {True(k), "problem"} \cup (IF k.kind = "flow" THEN {"unevaluated"} ELSE {})

\* Rows are missing only where a decode failed on the server.
Honest(a) ==
  /\ at[a] \in Open => empty[a] = {} \/ excused[a]
  /\ at[a] \in Open /\ on[a].kind = "flow" => on[a].of \in code.called
  /\ at[a] = "publish" => on[a] = Batch \/ Right(on[a], got[a])

TrueInv ==
  /\ \A a \in Actors : Honest(a)
  /\ \A k \in Keys : cache[k] # NoValue => Right(k, cache[k])

LEMMA InitTrue == Init => TrueInv
BY EngineAssumption DEF Init, TrueInv, Honest, Open, Leading, Actors

\* What was read in full is the truth.
LEMMA AnswerRight ==
  ASSUME NEW q \in Keys, q.kind = "flow" => q.of \in code.called
  PROVE  Answer(q, {}) \in {True(q), "problem"} \cup (IF q.kind = "flow" THEN {"unevaluated"} ELSE {})
BY DEF Answer, True

\* Everybody else's question stays as it is.
Beside(a) ==
  /\ on' = on /\ code' = code
  /\ \A b \in Actors \ {a} : /\ at'[b] = at[b] /\ empty'[b] = empty[b]
                             /\ excused'[b] = excused[b] /\ got'[b] = got[b]

LEMMA AdvanceHonest ==
  ASSUME Shape, NEW a \in Actors, NEW unread, NEW excuse \in BOOLEAN, unread = {} \/ excuse,
         Honest(a), at[a] \in Leading, on[a] \in Keys \cup {Batch},
         Advance(a, unread, excuse), UNCHANGED <<code, on>>
  PROVE  Honest(a)' /\ Beside(a)
<1>1. empty'[a] = unread /\ excused'[a] = excuse /\ at[a] \in Open
  BY DEF Advance, Shape, Open
<1>2. CASE /\ Go(a, "publish") /\ UNCHANGED step
           /\ got' = [got EXCEPT ![a] = [says |-> Answer(on[a], unread), excused |-> excuse]]
  <2>1. on[a] = Batch \/ Right(on[a], got[a])'
    <3> DEFINE v == [says |-> Answer(on[a], unread), excused |-> excuse]
    <3>1. on[a] # Batch => Right(on[a], v)
      BY <1>1, AnswerRight DEF Right, Shape, Honest
    <3>2. True(on[a])' = True(on[a]) /\ on' = on
      BY DEF True
    <3>3. got'[a] = v
      BY <1>2 DEF Shape
    <3> HIDE DEF v
    <3> QED
      BY <3>1, <3>2, <3>3 DEF Right
  <2>2. at'[a] = "publish" /\ on' = on
    BY <1>2 DEF Go, Shape
  <2>3. Honest(a)'
    BY <1>1, <2>1, <2>2 DEF Honest
  <2> QED
    BY <1>2, <2>3 DEF Beside, Advance, Go, Shape
<1>3. CASE Go(a, "begin") /\ UNCHANGED got
  <2>1. Honest(a)'
    BY <1>1, <1>3 DEF Honest, Go, Shape
  <2> QED
    BY <1>3, <2>1 DEF Beside, Advance, Go, Shape
<1> QED
  BY <1>2, <1>3 DEF Advance

LEMMA FailHonest ==
  ASSUME Shape, NEW a \in Actors, Honest(a), at[a] \in Leading, Fail(a) \/ Expire(a),
         UNCHANGED <<code, on>>
  PROVE  Honest(a)' /\ Beside(a)
<1>1. UNCHANGED <<empty, excused>> /\ at[a] \in Open
  BY DEF Fail, Expire, Open
<1>2. CASE Fail(a)
  BY <1>1, <1>2 DEF Fail, Go, Shape, Honest, Right, Problem, Beside, Open, Leading
<1>3. CASE Go(a, "release") /\ got' = [got EXCEPT ![a] = Raised]
  BY <1>1, <1>3 DEF Go, Shape, Honest, Beside, Open, Leading
<1> QED
  BY <1>2, <1>3 DEF Expire

\* A reply that is read is one's own: rows it does not have were excused.
LEMMA CommandHonest ==
  ASSUME CliInv, NEW a \in Actors, Honest(a), Command(a), on[a] \in Keys \cup {Batch}
  PROVE  Honest(a)' /\ Beside(a)
<1>0. Shape /\ UNCHANGED <<code, on>> /\ at[a] \in Leading \ {"publish"} /\ at[a] \in Open
  BY CommandMoves DEF CliInv, FlightInv, Moved, Open
<1>1. excused[a] \in BOOLEAN /\ (empty[a] = {} \/ excused[a])
  BY <1>0 DEF Honest, Shape
<1>2. ASSUME NEW p \in Leading \ {"publish"}, Go(a, p), UNCHANGED <<empty, excused, got>>
      PROVE  Honest(a)' /\ Beside(a)
  BY <1>0, <1>2 DEF Go, Honest, Beside, Shape
<1>3. CASE Lock(a) \/ Send(a) \/ Bypass(a)
  BY <1>2, <1>3 DEF Lock, Send, Bypass, Leading
<1>4. CASE Receive(a)
  <2> DEFINE own == Head(queue).of = Mine(a)
             did == Head(queue).did
  <2>1. CASE Head(queue).of # NoCommand /\ OnStdout(Name(a))
    <3>1. serverLock = a /\ ~broken /\ queue # <<>> /\ queue \in Seq([of : Orders, did : BOOLEAN])
      BY <1>4, EngineAssumption DEF Receive, CliInv, LocksInv, QueueInv, Actors
    <3>2. 1 \in 1..Len(queue) /\ Head(queue) = queue[1]
      BY <3>1
    <3>3. own
      BY <2>1, <3>1, <3>2 DEF CliInv, QueueInv
    <3> DEFINE unread == IF own /\ did THEN empty[a] ELSE empty[a] \cup {Name(a)}
               excuse == excused[a] \/ (own /\ ~did)
    <3>4. excuse \in BOOLEAN
      OBVIOUS
    <3>5. unread = {} \/ excuse
      BY <1>1, <3>3
    <3>6. Advance(a, unread, excuse)
      BY <1>4, <2>1 DEF Receive
    <3> HIDE DEF unread, excuse
    <3> QED
      BY <1>0, <3>4, <3>5, <3>6, AdvanceHonest
  <2>2. CASE Head(queue).of # NoCommand /\ ~OnStdout(Name(a)) /\ own /\ did
    <3>1. Advance(a, empty[a], excused[a])
      BY <1>4, <2>2 DEF Receive
    <3> QED
      BY <1>0, <1>1, <3>1, AdvanceHonest
  <2>3. CASE ~(Head(queue).of # NoCommand /\ (OnStdout(Name(a)) \/ (own /\ did)))
    <3>1. Go(a, "process") /\ UNCHANGED <<step, empty, excused, got>>
      BY <1>4, <2>3 DEF Receive
    <3> QED
      BY <1>2, <3>1 DEF Leading
  <2> QED
    BY <2>1, <2>2, <2>3
<1>5. CASE Timeout(a)
  BY <1>0, <1>5, FailHonest DEF Timeout
<1>6. CASE Process(a)
  <2>1. CASE Advance(a, empty[a], excused[a])
    BY <1>0, <1>1, <2>1, AdvanceHonest
  <2>2. CASE Fail(a) \/ Expire(a)
    BY <1>0, <2>2, FailHonest
  <2> QED
    BY <1>6, <2>1, <2>2 DEF Process
<1> QED
  BY <1>3, <1>4, <1>5, <1>6 DEF Command

LEMMA CommandKeepsTrue ==
  ASSUME CliInv, TrueInv, NEW a \in Actors, Command(a)
  PROVE  TrueInv'
<1>1. on[a] \in Keys \cup {Batch} /\ Shape
  <2>1. at[a] \in Leading
    BY DEF Command, Lock, Send, Bypass, Receive, Timeout, Process, Leading
  <2> QED
    BY <2>1 DEF CliInv, FlightInv, WorkerFlight, MainFlight, Held, Actors, Keys
<1>2. Honest(a)' /\ Beside(a)
  BY <1>1, CommandHonest DEF TrueInv
<1>3. cache' = cache
  BY <1>1, CommandMoves DEF Moved, shared
<1>4. ASSUME NEW b \in Actors \ {a} PROVE Honest(b)'
  BY <1>2, <1>4 DEF TrueInv, Beside, Honest, Right, True
<1>5. ASSUME NEW k \in Keys, cache'[k] # NoValue PROVE Right(k, cache[k])'
  BY <1>2, <1>3, <1>5 DEF TrueInv, Beside, Right, True
<1> QED
  BY <1>2, <1>4, <1>5 DEF TrueInv

\* A question that begins or ends, or waits and looks again.
Quiet(a) ==
  \/ at'[a] \notin Open
  \/ /\ at[a] \in Open /\ at'[a] \in Open \ {"publish"} /\ on'[a] = on[a]
     /\ empty'[a] = empty[a] /\ excused'[a] = excused[a]
  \/ /\ at'[a] \in Open \ {"publish"} /\ empty'[a] = {}
     /\ on'[a].kind = "flow" => on'[a].of \in code.called
  \/ UNCHANGED <<at[a], on[a], empty[a], excused[a], got[a]>>

LEMMA QuietKeepsTrue ==
  ASSUME TrueInv, code' = code, \A a \in Actors : Quiet(a),
         \A k \in Keys : cache'[k] = cache[k] \/ Right(k, cache'[k])
  PROVE  TrueInv'
<1>1. ASSUME NEW a \in Actors PROVE Honest(a)'
  BY <1>1 DEF TrueInv, Quiet, Honest, Open, Leading, Right, True
<1>2. ASSUME NEW k \in Keys, cache'[k] # NoValue PROVE Right(k, cache[k])'
  <2>1. Right(k, cache'[k])
    BY <1>2 DEF TrueInv
  <2>2. True(k)' = True(k)
    BY DEF True
  <2> QED
    BY <2>1, <2>2 DEF Right
<1> QED
  BY <1>1, <1>2 DEF TrueInv

LEMMA NoKeyIsBatch == Batch \notin Keys
<1>1. Batch.kind = "batch" /\ Imports.kind = "imports"
  BY DEF Batch, Imports
<1>2. \A q \in Asked : q.kind \in {"calls", "flow"}
  BY DEF Asked
<1> QED
  BY <1>1, <1>2 DEF Keys

LEMMA WorkersKeepTrue ==
  ASSUME FlightInv, TrueInv, Prepare \/ \E w \in Workers : Worker(w)
  PROVE  TrueInv'
<1> USE EngineAssumption
<1>0. Main \in Actors /\ Workers \subseteq Actors /\ Shape /\ Imports \in Keys
  BY DEF FlightInv, Actors, Keys
<1> SUFFICES /\ code' = code /\ \A a \in Actors : Quiet(a)
             /\ \A k \in Keys : cache'[k] = cache[k] \/ Right(k, cache'[k])
  BY QuietKeepsTrue
<1>1. CASE PrefillImports
  BY <1>0, <1>1 DEF PrefillImports, Ask, Go, Shape, Quiet, Open, Leading, Imports, shared
<1>2. ASSUME StartWorkers PROVE \A a \in Actors : Quiet(a)
  BY <1>0, <1>2 DEF StartWorkers, Quiet, Open, Leading, Shape
<1>3. ASSUME Ask(Main, Batch, "begin") PROVE \A a \in Actors : Quiet(a)
  BY <1>0, <1>3 DEF Ask, Go, Shape, Quiet, Open, Leading, Batch
<1>4. CASE KeepImports
  <2>1. code' = code /\ \A a \in Actors : Quiet(a)
    BY <1>2, <1>3, <1>4 DEF KeepImports
  <2>2. Right(Imports, got[Main])
    BY <1>0, <1>4, NoKeyIsBatch DEF KeepImports, TrueInv, Honest
  <2>3. \A k \in Keys : cache'[k] = cache[k] \/ Right(k, cache'[k])
    BY <1>0, <1>4, <2>2 DEF KeepImports, Shape
  <2> QED
    BY <2>1, <2>3
<1>5. CASE KeepBatch
  BY <1>2, <1>5 DEF KeepBatch
<1>6. ASSUME NEW w \in Workers, Join(w) \/ Release(w) \/ Done(w)
      PROVE  /\ code' = code /\ \A a \in Actors : Quiet(a)
             /\ \A k \in Keys : cache'[k] = cache[k] \/ Right(k, cache'[k])
  <2>1. CASE Join(w)
    BY <1>0, <2>1 DEF Join, Go, Shape, Quiet, Open, Leading
  <2>2. CASE Release(w)
    BY <1>0, <2>2 DEF Release, Go, Shape, Quiet, Open, Leading
  <2>3. CASE Done(w)
    BY <1>0, <2>3 DEF Done, Leave, Go, Shape, Quiet, Open, Leading, shared
  <2> QED
    BY <1>6, <2>1, <2>2, <2>3
<1>7. ASSUME NEW w \in Workers, Publish(w)
      PROVE  /\ code' = code /\ \A a \in Actors : Quiet(a)
             /\ \A k \in Keys : cache'[k] = cache[k] \/ Right(k, cache'[k])
  <2>1. code' = code /\ \A a \in Actors : Quiet(a)
    BY <1>0, <1>7 DEF Publish, Go, Shape, Quiet, Open, Leading
  <2>2. on[w] \in Asked /\ on[w] \in Keys /\ on[w] # Batch /\ at[w] = "publish"
    BY <1>7, NoKeyIsBatch DEF Publish, FlightInv, WorkerFlight, Held, Leading, Keys
  <2>3. Right(on[w], got[w])
    BY <1>0, <2>2 DEF TrueInv, Honest
  <2>4. \A k \in Keys : cache'[k] = cache[k] \/ Right(k, cache'[k])
    BY <1>0, <1>7, <2>3 DEF Publish, Shape
  <2> QED
    BY <2>1, <2>4
<1>8. ASSUME NEW w \in Workers, NEW q \in Asked, Question(w, q)
      PROVE  /\ code' = code /\ \A a \in Actors : Quiet(a)
             /\ \A k \in Keys : cache'[k] = cache[k] \/ Right(k, cache'[k])
  <2>1. code' = code /\ cache' = cache /\ (q.kind = "flow" => q.of \in code.called)
    BY <1>8 DEF Question, shared
  <2>2. CASE Ask(w, q, "asking")
    BY <1>0, <2>1, <2>2 DEF Ask, Go, Shape, Quiet, Open, Leading
  <2>3. CASE ~Ask(w, q, "asking")
    BY <1>0, <1>8, <2>1, <2>3 DEF Question, Go, Shape, Quiet, Open, Leading
  <2> QED
    BY <2>1, <2>2, <2>3
<1> QED
  BY <1>1, <1>4, <1>5, <1>6, <1>7, <1>8 DEF Prepare, Worker

LEMMA TrueStep == CliInv /\ TrueInv /\ [Next]_vars => TrueInv'
<1> SUFFICES ASSUME CliInv, TrueInv, [Next]_vars PROVE TrueInv'
  OBVIOUS
<1>1. CASE UNCHANGED vars \/ Server
  <2>1. UNCHANGED <<code, question, shared>>
    BY <1>1 DEF vars, Server, Reply, Die, EndOfStream
  <2> QED
    BY <2>1, QuietKeepsTrue DEF Quiet, question, shared
<1> QED
  BY <1>1, CommandKeepsTrue, WorkersKeepTrue DEF Next, CliInv

\* What is kept of a question is what CodeQL found, or says that it is not known: no other
\* command's answer is taken for its own, whatever dies, hangs or restarts (ChainSupport._once,
\* codeql_runner.via_server).
THEOREM AnswersAreTrue == Spec => []AnswersTrue
<1>1. TrueInv => AnswersTrue
  BY DEF TrueInv, AnswersTrue, Right
<1>2. Spec => []TrueInv
  BY InitTrue, TrueStep, CliInvariance, PTL DEF Spec
<1> QED
  BY <1>1, <1>2, PTL

=============================================================================
