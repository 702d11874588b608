----------------------------- MODULE CodeWalkProofs -----------------------------
(***************************************************************************)
(* What a walk over the code keeps, for any windows, patterns, budgets and *)
(* number of handlers side by side; and, at the end, what the client of    *)
(* the language server keeps, which a walk asks for usages.  The two have  *)
(* no variable in common.                                                  *)
(***************************************************************************)
EXTENDS CodeWalk, LspClient, TLAPS, FiniteSetTheorems, SequenceTheorems

Stages == {"queued", "run", "show", "log", "done"}

\* One handler for each question of the turn; outside a turn there is none.
Shape ==
  /\ asked \in Seq(Questions)
  /\ stage \in [DOMAIN asked -> Stages]
  /\ DOMAIN before = DOMAIN asked /\ DOMAIN text = DOMAIN asked /\ DOMAIN answers = DOMAIN asked
  /\ \A i \in DOMAIN asked : stage[i] \in {"run", "show"} => asked[i].tool # "lsp_find_usages"
  /\ place # "answer" => asked = <<>>
  /\ facts \in Seq(Questions) /\ covered \subseteq Windows
  /\ calls \in Nat /\ invoked \in Nat

LEMMA InitShape == Init => Shape
BY DEF Init, Shape

\* What the log takes is among what was new.
LEMMA TakenIsNew == ASSUME NEW new, NEW room, NEW t \in Taken(new, room) PROVE t \subseteq new
BY DEF Taken

LEMMA WantedIsThere ==
  ASSUME NEW q \in Questions, q.tool # "lsp_find_usages" PROVE Wanted(q) \subseteq Windows
<1>1. CASE q \in [tool : {"search_code", "lsp_find_usages"}, of : Patterns]
  BY <1>1, WalkAssumption DEF Wanted
<1>2. CASE q \in [tool : {"read_file"}, of : Windows \cup {Missing}]
  BY <1>2 DEF Wanted
<1>3. CASE q = [tool |-> "unknown", of |-> Missing]
  BY <1>3 DEF Wanted
<1> QED
  BY <1>1, <1>2, <1>3 DEF Questions

LEMMA WithFactIs ==
  ASSUME Shape, NEW q \in Questions
  PROVE  /\ WithFact(q) \in Seq(Questions)
         /\ WithFact(q) = facts \/ Len(WithFact(q)) = Len(facts) + 1
         /\ Len(facts) \in Nat /\ Len(facts) <= Len(WithFact(q))
         /\ \A i \in 1..Len(facts) : WithFact(q)[i] = facts[i]
         /\ \E i \in 1..Len(WithFact(q)) : WithFact(q)[i] = q
<1>1. facts \in Seq(Questions) /\ Len(facts) \in Nat
  BY LenProperties DEF Shape
<1>2. CASE Told(q)
  BY <1>1, <1>2 DEF WithFact, Told
<1>3. CASE ~Told(q)
  <2>1. /\ WithFact(q) = Append(facts, q) /\ Append(facts, q) \in Seq(Questions)
        /\ Len(Append(facts, q)) = Len(facts) + 1
        /\ \A i \in 1..Len(facts) : Append(facts, q)[i] = facts[i]
        /\ Append(facts, q)[Len(facts) + 1] = q
    BY <1>1, <1>3, AppendProperties DEF WithFact
  <2>2. Len(facts) + 1 \in 1..Len(WithFact(q))
    BY <1>1, <2>1
  <2> QED
    BY <1>1, <2>1, <2>2
<1> QED
  BY <1>2, <1>3

LEMMA ShapeStep == Shape /\ [Next]_vars => Shape'
<1> SUFFICES ASSUME Shape, [Next]_vars PROVE Shape'
  OBVIOUS
<1> USE DEF Shape, package, handlers, loop, history
<1>1. CASE Enrich
  <2>1. \A t \in Taken(Located, (Room * 3) \div 4) : t \subseteq Windows
    BY TakenIsNew, WalkAssumption
  <2> QED
    BY <1>1, <2>1 DEF Enrich
<1>2. CASE Ask
  <2>1. PICK n \in 1..MaxAsked : \E questions \in [1..n -> Questions] :
          /\ asked' = questions
          /\ stage' = [i \in 1..n |-> IF Slots(questions)[i] THEN "queued" ELSE "done"]
          /\ before' = [i \in 1..n |-> 0] /\ text' = [i \in 1..n |-> ""]
          /\ answers' = [i \in 1..n |-> IF Slots(questions)[i] THEN Unanswered
                                          ELSE [Unanswered EXCEPT !.of = questions[i].of]]
          /\ calls' = calls + Cardinality(Granted(questions))
    BY <1>2 DEF Ask
  <2>0. PICK questions \in [1..n -> Questions] :
          /\ asked' = questions
          /\ stage' = [i \in 1..n |-> IF Slots(questions)[i] THEN "queued" ELSE "done"]
          /\ before' = [i \in 1..n |-> 0] /\ text' = [i \in 1..n |-> ""]
          /\ answers' = [i \in 1..n |-> IF Slots(questions)[i] THEN Unanswered
                                          ELSE [Unanswered EXCEPT !.of = questions[i].of]]
          /\ calls' = calls + Cardinality(Granted(questions))
    BY <2>1
  <2>2. questions \in Seq(Questions) /\ DOMAIN questions = 1..n
    <3>1. n \in Nat
      BY WalkAssumption
    <3>2. DOMAIN questions = 1..n
      OBVIOUS
    <3> QED
      BY <3>1, <3>2, SeqDef
  <2>3. Cardinality(Granted(questions)) \in Nat
    <3>1. IsFiniteSet(1..n)
      BY WalkAssumption, FS_Interval
    <3>2. Granted(questions) \subseteq 1..n
      BY <2>2 DEF Granted
    <3> QED
      BY <3>1, <3>2, FS_Subset, FS_CardinalityType
  <2>4. stage' \in [DOMAIN asked' -> Stages]
    BY <2>0, <2>2 DEF Stages
  <2>5. DOMAIN before' = DOMAIN asked' /\ DOMAIN text' = DOMAIN asked' /\ DOMAIN answers' = DOMAIN asked'
    BY <2>0, <2>2
  <2> QED
    <3>1. \A i \in DOMAIN asked' : stage'[i] \in {"queued", "done"}
      BY <2>0, <2>2
    <3>2. place' = "answer" /\ UNCHANGED <<facts, covered, invoked>>
      BY <1>2 DEF Ask
    <3>3. calls' \in Nat
      <4>1. calls' = calls + Cardinality(Granted(questions)) /\ calls \in Nat
        BY <2>0
      <4> QED
        BY <2>3, <4>1
    <3>4. asked' \in Seq(Questions)
      BY <2>0, <2>2
    <3> QED
      BY <2>4, <2>5, <3>1, <3>2, <3>3, <3>4
<1>3. CASE Stop
  BY <1>3 DEF Stop
<1>4. CASE TurnOver
  BY <1>4 DEF TurnOver
<1>5. ASSUME NEW i \in DOMAIN asked, Begin(i) PROVE Shape'
  BY <1>5 DEF Begin, Move, Stages
<1>6. ASSUME NEW i \in DOMAIN asked, Retrieve(i) PROVE Shape'
  <2>1. asked[i] \in Questions
    BY ElementOfSeq
  <2>2. \A t \in Taken(Wanted(asked[i]) \ covered, Room) : t \subseteq Windows
    BY <1>6, <2>1, TakenIsNew, WantedIsThere DEF Retrieve
  <2>3. facts' \in Seq(Questions) /\ covered' \subseteq Windows
    BY <1>6, <2>1, <2>2, WithFactIs DEF Retrieve
  <2> QED
    BY <1>6, <2>3 DEF Retrieve, Move, Stages
<1>7. ASSUME NEW i \in DOMAIN asked, Show(i) PROVE Shape'
  BY <1>7 DEF Show, Move, Stages
<1>8. ASSUME NEW i \in DOMAIN asked, Log(i) PROVE Shape'
  <2>1. asked[i] \in Questions
    BY ElementOfSeq
  <2>2. facts' \in Seq(Questions)
    BY <1>8, <2>1, WithFactIs DEF Log
  <2> QED
    BY <1>8, <2>2 DEF Log, Move, Stages
<1>9. CASE Rest \/ UNCHANGED vars
  BY <1>9 DEF Rest, vars
<1> QED
  BY <1>1, <1>2, <1>3, <1>4, <1>5, <1>6, <1>7, <1>8, <1>9 DEF Next, Walk, Handler

-----------------------------------------------------------------------------
(* The budget. *)

Queued == {i \in DOMAIN asked : stage[i] = "queued"}

CallsInv == calls <= MaxCalls /\ invoked + Cardinality(Queued) <= calls

\* The questions that get a slot are numbered by what was taken before them, each by its own.
LEMMA GrantedFit ==
  ASSUME calls \in Nat, calls <= MaxCalls, NEW n \in Nat, NEW questions, DOMAIN questions = 1..n
  PROVE  /\ IsFiniteSet(Granted(questions))
         /\ calls + Cardinality(Granted(questions)) <= MaxCalls
<1> DEFINE Known(i) == {j \in 1..(i - 1) : questions[j].tool # "unknown"}
           G == Granted(questions)
<1>0. PICK last \in Int : last = MaxCalls - calls - 1
  BY WalkAssumption
<1> DEFINE K == 0..last
<1>1. IsFiniteSet(G) /\ G \subseteq 1..n
  <2>1. G \subseteq 1..n
    BY DEF Granted
  <2> QED
    BY <2>1, FS_Interval, FS_Subset
<1>2. \A i \in 1..n : IsFiniteSet(Known(i)) /\ Cardinality(Known(i)) \in Nat
  <2> TAKE i \in 1..n
  <2>1. IsFiniteSet(1..(i - 1)) /\ Known(i) \subseteq 1..(i - 1)
    BY FS_Interval
  <2>2. IsFiniteSet(Known(i))
    BY <2>1, FS_Subset
  <2> QED
    BY <2>2, FS_CardinalityType
<1>3. \A i \in G : questions[i].tool # "unknown" /\ calls + Cardinality(Known(i)) < MaxCalls
  BY DEF Granted, Slots
<1>4. ASSUME NEW i \in G, NEW j \in G, i < j PROVE Cardinality(Known(i)) < Cardinality(Known(j))
  <2>1. i \in 1..n /\ j \in 1..n
    BY <1>1
  <2>2. Known(i) \cup {i} \subseteq Known(j) /\ i \notin Known(i)
    <3>1. i \in 1..(j - 1) /\ 1..(i - 1) \subseteq 1..(j - 1) /\ i \notin 1..(i - 1)
      BY <1>4, <2>1
    <3>2. questions[i].tool # "unknown"
      BY <1>3
    <3> QED
      BY <3>1, <3>2
  <2>3. IsFiniteSet(Known(i)) /\ IsFiniteSet(Known(j)) /\ Cardinality(Known(i)) \in Nat /\ Cardinality(Known(j)) \in Nat
    BY <1>2, <2>1
  <2> HIDE DEF Known
  <2>4. Cardinality(Known(i) \cup {i}) = Cardinality(Known(i)) + 1
    BY <2>2, <2>3, FS_AddElement
  <2>5. Cardinality(Known(i) \cup {i}) <= Cardinality(Known(j))
    BY <2>2, <2>3, FS_Subset
  <2> QED
    BY <2>3, <2>4, <2>5
<1>5. IsFiniteSet(K) /\ Cardinality(K) = MaxCalls - calls
  <2>1. IsFiniteSet(0..last) /\ Cardinality(0..last) = IF 0 > last THEN 0 ELSE last - 0 + 1
    BY FS_Interval
  <2> QED
    BY <1>0, <2>1, WalkAssumption
<1>6. ASSUME Cardinality(K) < Cardinality(G) PROVE FALSE
  <2> DEFINE f == [i \in G |-> Cardinality(Known(i))]
  <2>1. f \in [G -> K]
    <3>1. ASSUME NEW i \in G PROVE Cardinality(Known(i)) \in K
      <4>1. Cardinality(Known(i)) \in Nat /\ calls + Cardinality(Known(i)) < MaxCalls
        BY <1>1, <1>2, <1>3
      <4> HIDE DEF Known
      <4> QED
        BY <1>0, <4>1, WalkAssumption
    <3> QED
      BY <3>1
  <2>2. \E i, j \in G : i # j /\ f[i] = f[j]
    <3> HIDE DEF f, K, G
    <3> QED
      BY <1>1, <1>5, <1>6, <2>1, FS_PigeonHole
  <2>3. PICK i, j \in G : i # j /\ f[i] = f[j]
    BY <2>2
  <2>4. Cardinality(Known(i)) = Cardinality(Known(j))
    BY <2>3
  <2>5. i \in 1..n /\ j \in 1..n
    BY <1>1
  <2>6. Cardinality(Known(i)) \in Nat /\ Cardinality(Known(j)) \in Nat
    BY <1>2, <2>5
  <2>7. i < j \/ j < i
    BY <2>3, <2>5
  <2> HIDE DEF Known, f, G
  <2> QED
    BY <1>4, <2>4, <2>6, <2>7
<1>7. Cardinality(G) \in Nat
  BY <1>1, FS_CardinalityType
<1> HIDE DEF K
<1>8. Cardinality(G) <= MaxCalls - calls
  BY <1>5, <1>6, <1>7, WalkAssumption
<1> QED
  BY <1>1, <1>7, <1>8, WalkAssumption

LEMMA CallsStep == Shape /\ CallsInv /\ [Next]_vars => CallsInv'
<1> SUFFICES ASSUME Shape, CallsInv, [Next]_vars PROVE CallsInv'
  OBVIOUS
<1>1. IsFiniteSet(Queued) /\ Cardinality(Queued) \in Nat
  <2>1. IsFiniteSet(DOMAIN asked) /\ Queued \subseteq DOMAIN asked
    <3>1. Len(asked) \in Nat /\ DOMAIN asked = 1..Len(asked)
      BY LenProperties DEF Shape
    <3> QED
      BY <3>1, FS_Interval DEF Queued
  <2> QED
    BY <2>1, FS_Subset, FS_CardinalityType
<1>2. calls \in Nat /\ invoked \in Nat /\ MaxCalls \in Nat
  BY WalkAssumption DEF Shape
<1>3. ASSUME UNCHANGED <<calls, invoked>>, Queued' \subseteq Queued PROVE CallsInv'
  <2>1. Cardinality(Queued') <= Cardinality(Queued) /\ Cardinality(Queued') \in Nat
    BY <1>1, <1>3, FS_Subset, FS_CardinalityType
  <2> QED
    BY <1>1, <1>2, <1>3, <2>1 DEF CallsInv
<1>4. CASE Ask
  <2>1. PICK n \in 1..MaxAsked : \E questions \in [1..n -> Questions] :
          /\ asked' = questions
          /\ stage' = [i \in 1..n |-> IF Slots(questions)[i] THEN "queued" ELSE "done"]
          /\ calls' = calls + Cardinality(Granted(questions))
    BY <1>4 DEF Ask
  <2>2. PICK questions \in [1..n -> Questions] :
          /\ asked' = questions
          /\ stage' = [i \in 1..n |-> IF Slots(questions)[i] THEN "queued" ELSE "done"]
          /\ calls' = calls + Cardinality(Granted(questions))
    BY <2>1
  <2>3. Queued' = Granted(questions)
    BY <2>2 DEF Queued, Granted
  <2>4. n \in Nat /\ DOMAIN questions = 1..n /\ calls <= MaxCalls
    BY WalkAssumption DEF CallsInv
  <2>5. IsFiniteSet(Granted(questions)) /\ calls + Cardinality(Granted(questions)) <= MaxCalls
    BY <1>2, <2>4, GrantedFit
  <2>6. Cardinality(Granted(questions)) \in Nat
    BY <2>5, FS_CardinalityType
  <2>7. invoked' = invoked /\ invoked <= calls
    <3>1. invoked' = invoked
      BY <1>4 DEF Ask, history
    <3> QED
      BY <1>1, <1>2, <3>1 DEF CallsInv
  <2>8. calls' = calls + Cardinality(Granted(questions))
    BY <2>2
  <2>9. Cardinality(Queued') = Cardinality(Granted(questions))
    BY <2>3
  <2> QED
    BY <1>2, <2>5, <2>6, <2>7, <2>8, <2>9 DEF CallsInv
<1>5. ASSUME NEW i \in DOMAIN asked, Begin(i) PROVE CallsInv'
  <2>1. i \in Queued /\ Queued' = Queued \ {i} /\ invoked' = invoked + 1 /\ calls' = calls
    BY <1>5 DEF Begin, Move, Queued, Shape, loop
  <2>2. Cardinality(Queued') = Cardinality(Queued) - 1
    BY <1>1, <2>1, FS_RemoveElement
  <2> QED
    BY <1>1, <1>2, <2>1, <2>2 DEF CallsInv
<1>6. ASSUME NEW i \in DOMAIN asked, Retrieve(i) \/ Show(i) \/ Log(i) PROVE CallsInv'
  <2>1. UNCHANGED <<calls, invoked, asked>>
    BY <1>6 DEF Retrieve, Show, Log, loop, history
  <2>2. PICK to \in {"show", "log", "done"} : Move(i, to)
    BY <1>6 DEF Retrieve, Show, Log
  <2>3. Queued' \subseteq Queued
    BY <2>1, <2>2 DEF Queued, Move, Shape
  <2> QED
    BY <1>3, <2>1, <2>3
<1>7. CASE Enrich \/ Stop \/ Rest \/ UNCHANGED vars
  <2>1. UNCHANGED <<calls, invoked, asked, stage>>
    BY <1>7 DEF Enrich, Stop, Rest, vars, handlers, loop, history
  <2> QED
    BY <1>3, <2>1 DEF Queued
<1>8. CASE TurnOver
  <2>1. UNCHANGED <<calls, invoked>> /\ Queued' = {}
    BY <1>8 DEF TurnOver, Queued, loop, history
  <2> QED
    BY <1>3, <2>1
<1> QED
  BY <1>4, <1>5, <1>6, <1>7, <1>8 DEF Next, Walk, Handler

LEMMA CallsInvariance == Spec => [](Shape /\ CallsInv)
<1>1. Init => Shape /\ CallsInv
  <2>1. Init => Queued = {}
    BY DEF Init, Queued
  <2> QED
    <3> SUFFICES ASSUME Init PROVE Shape /\ CallsInv
      OBVIOUS
    <3>1. Cardinality(Queued) = 0
      BY <2>1, FS_EmptySet
    <3>2. calls = 0 /\ invoked = 0 /\ 0 <= MaxCalls
      BY WalkAssumption DEF Init
    <3> QED
      BY <3>1, <3>2, InitShape DEF CallsInv
<1>2. Shape /\ CallsInv /\ [Next]_vars => (Shape /\ CallsInv)'
  BY ShapeStep, CallsStep
<1> QED
  BY <1>1, <1>2, PTL DEF Spec

\* No more handlers are ever called than the budget of questions allows, however many questions
\* a turn asks and however many run side by side (run_calls).
THEOREM BudgetKept == Spec => []QuestionsBounded
<1>1. Shape /\ CallsInv => QuestionsBounded
  <2> SUFFICES ASSUME Shape, CallsInv PROVE QuestionsBounded
    OBVIOUS
  <2>1. IsFiniteSet(DOMAIN asked) /\ Queued \subseteq DOMAIN asked
    <3>1. Len(asked) \in Nat /\ DOMAIN asked = 1..Len(asked)
      BY LenProperties DEF Shape
    <3> QED
      BY <3>1, FS_Interval DEF Queued
  <2>2. Cardinality(Queued) \in Nat
    BY <2>1, FS_Subset, FS_CardinalityType
  <2> QED
    BY <2>2, WalkAssumption DEF Shape, CallsInv, QuestionsBounded
<1> QED
  BY <1>1, CallsInvariance, PTL

-----------------------------------------------------------------------------
(* What the walk adds, and what it denies. *)

\* The package only grows, and `added` says that it is not the one the walk began with.
GrowInv ==
  /\ added \in BOOLEAN /\ (place = "enrich" => ~added)
  /\ place # "enrich" =>
       /\ given = <<given[1], given[2]>> /\ given[1] \subseteq covered
       /\ Len(given[2]) \in Nat /\ Len(given[2]) <= Len(facts)
       /\ Len(given[2]) = Len(facts) => given[2] = facts
       /\ added <=> given[1] # covered \/ Len(given[2]) < Len(facts)

\* A search that came back with nothing, and the answer that says so.
DenialInv ==
  \A i \in DOMAIN asked :
    /\ DOMAIN answers[i] = {"of", "shows", "absent"}
    /\ text[i] = "nothing" /\ asked[i].tool = "search_code" => Recorded(asked[i]) \/ Full
    /\ answers[i].absent /\ asked[i].tool = "search_code" => Recorded(asked[i]) \/ Full

WalkInv == GrowInv /\ DenialInv

\* What is told stays told, and what is full stays full.
LEMMA Kept ==
  ASSUME Shape, Shape', covered \subseteq covered', Len(facts) <= Len(facts'),
         \A i \in 1..Len(facts) : facts'[i] = facts[i]
  PROVE  Full => Full'
<1>1. IsFiniteSet(covered) /\ IsFiniteSet(covered')
  BY WalkAssumption, FS_Subset DEF Shape
<1>2. Cardinality(covered) \in Nat /\ Cardinality(covered') \in Nat /\ Cardinality(covered) <= Cardinality(covered')
  BY <1>1, FS_Subset, FS_CardinalityType
<1> QED
  BY <1>2, WalkAssumption DEF Full

LEMMA ToldKept ==
  ASSUME Shape, Shape', Len(facts) <= Len(facts'), \A i \in 1..Len(facts) : facts'[i] = facts[i],
         NEW q, Told(q)
  PROVE  Told(q)'
<1>1. Len(facts) \in Nat /\ Len(facts') \in Nat
  BY LenProperties DEF Shape
<1> QED
  BY <1>1 DEF Told

LEMMA GrowKeeps ==
  ASSUME Shape, Shape', GrowInv, place # "enrich", place' # "enrich", given' = given,
         covered \subseteq covered', facts' = facts \/ Len(facts') = Len(facts) + 1,
         added' <=> added \/ covered' # covered \/ Len(facts') > Len(facts), added' \in BOOLEAN
  PROVE  GrowInv'
<1>1. Len(facts) \in Nat /\ Len(facts') \in Nat
  BY LenProperties DEF Shape
<1> DEFINE a == given[1]
           b == given[2]
<1>2. /\ given = <<a, b>> /\ a \subseteq covered /\ Len(b) \in Nat /\ Len(b) <= Len(facts)
      /\ Len(b) = Len(facts) => b = facts
      /\ added <=> a # covered \/ Len(b) < Len(facts)
  BY DEF GrowInv
<1>3. a # covered' <=> a # covered \/ covered' # covered
  BY <1>2
<1>4. /\ Len(b) <= Len(facts') /\ (Len(b) = Len(facts') => b = facts')
      /\ Len(b) < Len(facts') <=> Len(b) < Len(facts) \/ Len(facts') > Len(facts)
  BY <1>1, <1>2
<1>5. added' <=> a # covered' \/ Len(b) < Len(facts')
  BY <1>2, <1>3, <1>4
<1>6. given' = <<a, b>> /\ given'[1] = a /\ given'[2] = b
  BY <1>2
<1> HIDE DEF a, b
<1> QED
  BY <1>2, <1>4, <1>5, <1>6 DEF GrowInv

LEMMA WalkStep == Shape /\ WalkInv /\ [Next]_vars => WalkInv'
<1> SUFFICES ASSUME Shape, WalkInv, [Next]_vars PROVE WalkInv'
  OBVIOUS
<1>0. Shape' /\ GrowInv /\ DenialInv /\ Len(facts) \in Nat
  BY ShapeStep, LenProperties DEF WalkInv, Shape
<1>1. CASE Enrich
  <2>1. /\ place' # "enrich" /\ facts' = facts /\ added' = added /\ place = "enrich"
        /\ given' = <<covered', facts>>
    BY <1>1 DEF Enrich
  <2>2. GrowInv'
    BY <1>0, <2>1 DEF GrowInv
  <2>3. asked' = <<>> /\ DOMAIN asked' = {}
    BY <1>1, <2>1 DEF Enrich, Shape
  <2> QED
    BY <2>2, <2>3 DEF WalkInv, DenialInv
<1>2. ASSUME UNCHANGED <<covered, facts, added, given>>, place # "enrich", place' # "enrich" PROVE GrowInv'
  BY <1>0, <1>2 DEF GrowInv
<1>3. CASE Ask
  <2>1. GrowInv'
    BY <1>2, <1>3 DEF Ask, package, history
  <2>2. PICK n \in 1..MaxAsked : \E questions \in [1..n -> Questions] :
          /\ asked' = questions /\ text' = [i \in 1..n |-> ""]
          /\ answers' = [i \in 1..n |-> IF Slots(questions)[i] THEN Unanswered
                                          ELSE [Unanswered EXCEPT !.of = questions[i].of]]
    BY <1>3 DEF Ask
  <2>3. \A i \in 1..n : /\ text'[i] = "" /\ ~answers'[i].absent
                        /\ DOMAIN answers'[i] = {"of", "shows", "absent"}
    <3>1. PICK questions \in [1..n -> Questions] :
            /\ text' = [i \in 1..n |-> ""]
            /\ answers' = [i \in 1..n |-> IF Slots(questions)[i] THEN Unanswered
                                            ELSE [Unanswered EXCEPT !.of = questions[i].of]]
      BY <2>2
    <3>2. ASSUME NEW e PROVE /\ ~[Unanswered EXCEPT !.of = e].absent /\ ~Unanswered.absent
                             /\ DOMAIN [Unanswered EXCEPT !.of = e] = {"of", "shows", "absent"}
                             /\ DOMAIN Unanswered = {"of", "shows", "absent"}
      BY DEF Unanswered
    <3>3. ASSUME NEW i \in 1..n
          PROVE  text'[i] = "" /\ (answers'[i] = Unanswered \/ answers'[i] = [Unanswered EXCEPT !.of = questions[i].of])
      BY <3>1
    <3> QED
      BY <3>2, <3>3
  <2>4. DOMAIN asked' = 1..n
    BY <2>2
  <2> QED
    BY <2>1, <2>3, <2>4 DEF WalkInv, DenialInv
<1>4. CASE Stop
  <2>1. GrowInv'
    BY <1>2, <1>4 DEF Stop, Finish, package, history
  <2> QED
    BY <1>0, <1>4, <2>1 DEF Stop, WalkInv, DenialInv, package, handlers, Recorded, Told, Full
<1>5. CASE TurnOver
  <2>1. GrowInv'
    BY <1>2, <1>5 DEF TurnOver, NextTurn, Finish, package, history
  <2>2. DOMAIN asked' = {}
    BY <1>5 DEF TurnOver
  <2> QED
    BY <2>1, <2>2 DEF WalkInv, DenialInv
<1>6. ASSUME NEW i \in DOMAIN asked, Begin(i) PROVE WalkInv'
  <2>1. GrowInv'
    BY <1>2, <1>6 DEF Begin, package
  <2> QED
    BY <1>0, <1>6, <2>1 DEF Begin, WalkInv, DenialInv, package, Recorded, Told, Full
<1>7. ASSUME NEW i \in DOMAIN asked, Retrieve(i) PROVE WalkInv'
  <2> DEFINE q == asked[i]
  <2>1. q \in Questions
    BY ElementOfSeq DEF Shape
  <2>2. /\ UNCHANGED <<asked, answers, given, place>> /\ place = "answer"
        /\ covered \subseteq covered'
        /\ facts' = facts \/ facts' = WithFact(q)
        /\ added' \in BOOLEAN /\ (added' <=> added \/ covered' # covered \/ Len(facts') > Len(facts))
        /\ \A j \in DOMAIN asked : j # i => text'[j] = text[j]
        /\ notes \subseteq notes'
        /\ text'[i] = "nothing" /\ q.tool = "search_code" =>
             Full \/ facts' = WithFact(q) \/ (Refused(q) /\ Refusal[q.of] \in notes')
    <3>1. PICK t \in IF Full THEN {{}} ELSE Taken(Wanted(q) \ covered, Room) :
            /\ covered' = covered \cup t
            /\ facts' = IF q.tool = "search_code" /\ ~Refused(q) /\ ~Full THEN WithFact(q) ELSE facts
            /\ added' = (added \/ t # {} \/ Len(facts') > Len(facts))
      BY <1>7 DEF Retrieve, Grown
    <3>2. t \subseteq Wanted(q) \ covered
      BY <3>1, TakenIsNew
    <3>3. t # {} <=> covered' # covered
      BY <3>1, <3>2
    <3>4. UNCHANGED <<asked, answers, given, place>> /\ place = "answer"
      BY <1>7 DEF Retrieve, history
    <3>5. \A j \in DOMAIN asked : j # i => text'[j] = text[j]
      BY <1>7 DEF Retrieve, Shape
    <3>6. added' <=> added \/ covered' # covered \/ Len(facts') > Len(facts)
      BY <3>1, <3>3
    <3>7. added' \in BOOLEAN
      BY <3>1
    <3>8. notes \subseteq notes' /\ (Refused(q) /\ ~Full => Refusal[q.of] \in notes')
      BY <1>7 DEF Retrieve
    <3> QED
      BY <3>1, <3>4, <3>5, <3>6, <3>7, <3>8
  <2>3. facts' = facts \/ Len(facts') = Len(facts) + 1
    BY <2>1, <2>2, WithFactIs
  <2>4. Len(facts) <= Len(facts') /\ \A j \in 1..Len(facts) : facts'[j] = facts[j]
    <3>1. CASE facts' = facts
      BY <1>0, <3>1
    <3>2. CASE facts' = WithFact(q)
      <4>1. Len(facts) <= Len(WithFact(q)) /\ \A j \in 1..Len(facts) : WithFact(q)[j] = facts[j]
        BY <2>1, WithFactIs
      <4> QED
        BY <3>2, <4>1
    <3> QED
      BY <2>2, <3>1, <3>2
  <2>5. GrowInv'
    BY <1>0, <2>2, <2>3, GrowKeeps
  <2>6. Full => Full'
    BY <1>0, <2>2, <2>4, Kept
  <2>7. \A j \in DOMAIN asked : Recorded(asked[j]) => Recorded(asked[j])'
    <3>1. \A j \in DOMAIN asked : Told(asked[j]) => Told(asked[j])'
      BY <1>0, <2>2, <2>4, ToldKept
    <3> QED
      BY <2>2, <3>1 DEF Recorded
  <2>8. text'[i] = "nothing" /\ q.tool = "search_code" => Recorded(q)' \/ Full'
    <3>1. CASE facts' = WithFact(q)
      <4>1. \E j \in 1..Len(facts') : facts'[j] = q
        BY <2>1, <3>1, WithFactIs
      <4> QED
        BY <2>2, <4>1 DEF Told, Recorded
    <3>2. CASE Refused(q) /\ Refusal[q.of] \in notes'
      BY <2>2, <3>2 DEF Refused, Recorded
    <3> QED
      BY <2>2, <2>6, <3>1, <3>2
  <2>9. DenialInv'
    BY <1>0, <2>2, <2>6, <2>7, <2>8 DEF DenialInv
  <2> QED
    BY <2>5, <2>9 DEF WalkInv
<1>8. ASSUME NEW i \in DOMAIN asked, Show(i) PROVE WalkInv'
  <2>1. GrowInv'
    BY <1>2, <1>8 DEF Show, package, history
  <2>2. /\ UNCHANGED <<asked, text, facts, covered, notes>>
        /\ answers' = [answers EXCEPT ![i] =
             [of |-> asked[i].of, shows |-> IF asked[i].tool = "search_code" THEN Shown(i) ELSE {},
              absent |-> text[i] = "nothing"
                          /\ IF asked[i].tool = "search_code" THEN Shown(i) = {} ELSE asked[i].of = Missing]]
    BY <1>8 DEF Show, package
  <2>3. /\ DOMAIN answers'[i] = {"of", "shows", "absent"}
        /\ answers'[i].absent => text[i] = "nothing"
        /\ \A j \in DOMAIN asked : j # i => answers'[j] = answers[j]
    BY <2>2 DEF Shape
  <2>4. DenialInv'
    BY <1>0, <2>2, <2>3 DEF DenialInv, Recorded, Told, Full
  <2> QED
    BY <2>1, <2>4 DEF WalkInv
<1>9. ASSUME NEW i \in DOMAIN asked, Log(i) PROVE WalkInv'
  <2>1. asked[i] \in Questions
    BY ElementOfSeq DEF Shape
  <2>2. /\ UNCHANGED <<asked, text, covered, notes, given, place>> /\ place = "answer"
        /\ facts' = facts \/ facts' = WithFact(asked[i])
        /\ answers' = [answers EXCEPT ![i].of = asked[i].of]
        /\ added' = (added \/ Len(facts') > Len(facts))
    BY <1>9 DEF Log, Grown, history
  <2>3. facts' = facts \/ Len(facts') = Len(facts) + 1
    BY <2>1, <2>2, WithFactIs
  <2>4. Len(facts) <= Len(facts') /\ \A j \in 1..Len(facts) : facts'[j] = facts[j]
    <3>1. CASE facts' = facts
      BY <1>0, <3>1
    <3>2. CASE facts' = WithFact(asked[i])
      <4>1. Len(facts) <= Len(WithFact(asked[i])) /\ \A j \in 1..Len(facts) : WithFact(asked[i])[j] = facts[j]
        BY <2>1, WithFactIs
      <4> QED
        BY <3>2, <4>1
    <3> QED
      BY <2>2, <3>1, <3>2
  <2>5. GrowInv'
    <3>1. added' \in BOOLEAN
      BY <2>2
    <3> QED
      BY <1>0, <2>2, <2>3, <3>1, GrowKeeps
  <2>6. \A j \in DOMAIN asked : Recorded(asked[j]) => Recorded(asked[j])'
    BY <1>0, <2>2, <2>4, ToldKept DEF Recorded
  <2>7. \A j \in DOMAIN asked : /\ DOMAIN answers'[j] = {"of", "shows", "absent"}
                                /\ answers'[j].absent = answers[j].absent
    BY <1>0, <2>2 DEF DenialInv, Shape
  <2>8. DenialInv'
    BY <1>0, <2>2, <2>6, <2>7 DEF DenialInv, Full
  <2> QED
    BY <2>5, <2>8 DEF WalkInv
<1>10. CASE Rest \/ UNCHANGED vars
  BY <1>0, <1>10 DEF Rest, vars, WalkInv, GrowInv, DenialInv, Recorded, Told, Full
<1> QED
  BY <1>1, <1>3, <1>4, <1>5, <1>6, <1>7, <1>8, <1>9, <1>10 DEF Next, Walk, Handler

LEMMA WalkInvariance == Spec => [](Shape /\ WalkInv)
<1>1. Init => Shape /\ WalkInv
  <2> SUFFICES ASSUME Init PROVE Shape /\ WalkInv
    OBVIOUS
  <2>1. asked = <<>> /\ DOMAIN asked = {} /\ place = "enrich" /\ added = FALSE
    BY DEF Init
  <2> QED
    BY <2>1, InitShape DEF WalkInv, GrowInv, DenialInv
<1>2. Shape /\ WalkInv /\ [Next]_vars => (Shape /\ WalkInv)'
  BY ShapeStep, WalkStep
<1> QED
  BY <1>1, <1>2, PTL DEF Spec

\* The walk says that the material grew exactly when it did, however its handlers' writes fall
\* (CodeWalk.retrieve, logged).
THEOREM GrowthIsTold == Spec => []AddedMeansGrown
<1>1. WalkInv => AddedMeansGrown
  BY DEF WalkInv, GrowInv, AddedMeansGrown
<1> QED
  BY <1>1, WalkInvariance, PTL

\* "No match" is said only of a search whose own line is among the facts, for which there was no
\* room, or which was refused and whose refusal is among the notes (RepositoryEvidence.retrieve and
\* _note; codewalk.py, search).
THEOREM DenialsOnRecord == Spec => []DenialOnRecord
<1>1. Shape /\ WalkInv => DenialOnRecord
  BY DEF Shape, WalkInv, DenialInv, DenialOnRecord
<1> QED
  BY <1>1, WalkInvariance, PTL

-----------------------------------------------------------------------------
(* Theorems, for any callers, files, limits and bounds: what server processes are left behind, and
   which clients without a way back. *)

\* What the two properties speak of, but for the restart thread.
client == <<gen, alive, up, broken, started>>
thread == <<relock, rpc, reason, late>>

RestartPlaces ==
  {"none", "restart", "clear", "popen", "init", "initialize", "inform", "initialized", "started",
   "index", "probe", "stop", "shutdown", "kill", "fail", "end"}

\* A client marked for a restart has no server, but in a restart for no reason, whose new server
\* can meet the marks of the one before; while a restart is on its way the marks say how far it
\* has come, whatever the callers' writes do to them meanwhile.
LinkInv ==
  /\ broken \in BOOLEAN /\ up \in BOOLEAN /\ started \in BOOLEAN /\ relock \in BOOLEAN
  /\ reason \in BOOLEAN /\ rpc \in RestartPlaces
  /\ relock <=> rpc # "none"
  /\ broken => ~up \/ (~reason /\ rpc \in {"init", "initialize", "stop", "shutdown", "kill"})
  /\ reason /\ rpc \in {"clear", "popen", "fail"} => ~up
  /\ reason /\ rpc = "popen" => ~broken
  /\ rpc \in {"init", "initialize", "inform", "initialized", "started"} => broken \/ up
  /\ rpc \in {"index", "probe"} => broken \/ (started /\ up)
  /\ reason /\ rpc \in {"none", "end"} => broken \/ (started /\ up)

\* A restart for no reason that has not replaced the server yet.
Owed == IF ~reason /\ rpc \in {"clear", "popen"} THEN 1 ELSE 0

\* What is left behind and what may yet be is accounted for by the late restarts.
BehindInv ==
  /\ gen \in Nat /\ late \in Nat /\ alive \subseteq 1..gen
  /\ Cardinality(LeftBehind) + Owed <= late

ClientInv == LinkInv /\ BehindInv

LEMMA InitClient == LspInit => ClientInv
<1> SUFFICES ASSUME LspInit PROVE ClientInv
  OBVIOUS
<1>1. LinkInv
  BY DEF LspInit, LinkInv, RestartPlaces
<1>2. LeftBehind = {} /\ Owed = 0
  BY DEF LspInit, LeftBehind, Owed
<1>3. BehindInv
  BY <1>2, FS_EmptySet DEF LspInit, BehindInv
<1> QED
  BY <1>1, <1>3 DEF ClientInv

LEMMA BehindFinite ==
  ASSUME BehindInv
  PROVE  IsFiniteSet(alive) /\ IsFiniteSet(LeftBehind) /\ Cardinality(LeftBehind) \in Nat
<1>1. IsFiniteSet(1..gen)
  BY FS_Interval DEF BehindInv
<1>2. IsFiniteSet(alive)
  BY <1>1, FS_Subset DEF BehindInv
<1>3. IsFiniteSet(LeftBehind)
  BY <1>2, FS_Subset DEF LeftBehind
<1> QED
  BY <1>2, <1>3, FS_CardinalityType

\* Nothing more is left behind, and nothing more is owed.
LEMMA BehindKeeps ==
  ASSUME BehindInv, gen' = gen, late' = late, alive' \subseteq alive,
         LeftBehind' \subseteq LeftBehind, Owed' <= Owed
  PROVE  BehindInv'
<1>1. Cardinality(LeftBehind') <= Cardinality(LeftBehind) /\ Cardinality(LeftBehind') \in Nat
  BY BehindFinite, FS_Subset, FS_CardinalityType
<1>2. Cardinality(LeftBehind) \in Nat /\ Owed \in Nat /\ Owed' \in Nat
  BY BehindFinite DEF Owed
<1> QED
  BY <1>1, <1>2 DEF BehindInv

\* _drop.
Dropped ==
  /\ up /\ broken' = TRUE /\ started' = FALSE /\ up' = FALSE
  /\ alive' = alive \ {gen} /\ gen' = gen

LEMMA WriteEnds ==
  ASSUME Unsent \/ Cancelled
  PROVE  Dropped \/ UNCHANGED client
BY DEF Unsent, Cancelled, Drop, Dropped, Sendable, client, server, link

LEMMA DropBehind ==
  ASSUME BehindInv, Dropped \/ UNCHANGED client, late' = late, Owed' <= Owed
  PROVE  BehindInv'
<1>1. gen' = gen /\ alive' \subseteq alive /\ LeftBehind' \subseteq LeftBehind
  BY DEF Dropped, client, LeftBehind
<1> QED
  BY <1>1, BehindKeeps

LEMMA DropKeeps ==
  ASSUME ClientInv, Dropped \/ UNCHANGED client, UNCHANGED thread
  PROVE  ClientInv'
<1>1. BehindInv'
  BY DropBehind DEF ClientInv, thread, Owed
<1>2. CASE Dropped
  BY <1>1, <1>2 DEF ClientInv, LinkInv, Dropped, RestartPlaces, thread
<1>3. CASE UNCHANGED client
  BY <1>1, <1>3 DEF ClientInv, LinkInv, client, thread
<1> QED
  BY <1>2, <1>3

LEMMA CallerKeeps ==
  ASSUME ClientInv, NEW c \in Callers, CallerStep(c) \/ Answer(c)
  PROVE  ClientInv'
<1>1. CASE Reconnect(c)
  <2>1. UNCHANGED <<client, reason, late>> /\ relock \in BOOLEAN
    BY <1>1 DEF Reconnect, client, server, link, ClientInv, LinkInv
  <2>2. CASE UNCHANGED <<relock, rpc>>
    BY <2>1, <2>2, DropKeeps DEF thread
  <2>3. CASE ~relock /\ relock' = TRUE /\ rpc' = "restart"
    <3>1. BehindInv'
      BY <2>1, <2>3, DropBehind DEF ClientInv, Owed
    <3>2. LinkInv'
      BY <2>1, <2>3 DEF ClientInv, LinkInv, client, RestartPlaces
    <3> QED
      BY <3>1, <3>2 DEF ClientInv
  <2> QED
    BY <1>1, <2>2, <2>3 DEF Reconnect
<1>2. CASE TellFails(c) \/ SendFails(c) \/ GiveUp(c)
  <2>1. UNCHANGED thread
    BY <1>2 DEF TellFails, SendFails, GiveUp, tries, thread
  <2>2. Dropped \/ UNCHANGED client
    BY <1>2, WriteEnds DEF TellFails, SendFails, GiveUp, client, server, link
  <2> QED
    BY <2>1, <2>2, DropKeeps
<1>3. CASE \/ Open(c) \/ NotifyLock(c) \/ NotifyLate(c) \/ Tell(c) \/ Opened(c) \/ FindBroken(c)
           \/ AskServer(c) \/ Resume(c) \/ AskLock(c) \/ AskLate(c) \/ SendNot(c) \/ Send(c)
           \/ Silence(c) \/ Answer(c)
  <2>1. UNCHANGED client /\ UNCHANGED thread
    BY <1>3 DEF Open, NotifyLock, NotifyLate, Tell, Opened, FindBroken, AskServer, Resume, AskLock,
                AskLate, SendNot, Send, Silence, Answer, Answered, LateAnswer, client, server, link,
                tries, thread
  <2> QED
    BY <2>1, DropKeeps
<1> QED
  BY <1>1, <1>2, <1>3 DEF CallerStep

\* A step of the restart that changes neither a server nor the late restarts.
LEMMA RestartMoves ==
  ASSUME ClientInv, UNCHANGED <<gen, alive, up, late>>, Owed' <= Owed, LinkInv'
  PROVE  ClientInv'
<1>1. BehindInv'
  BY BehindKeeps DEF ClientInv, LeftBehind
<1> QED
  BY <1>1 DEF ClientInv

LEMMA RestartKeeps ==
  ASSUME ClientInv, RestartStep
  PROVE  ClientInv'
<1> USE DEF LinkInv, RestartPlaces
<1>0. LinkInv /\ BehindInv
  BY DEF ClientInv
<1>1. CASE Reason
  <2>1. LinkInv'
    BY <1>0, <1>1 DEF Reason, server, link
  <2>2. LeftBehind' = LeftBehind /\ gen' = gen /\ alive' = alive
    BY <1>1 DEF Reason, server, link, LeftBehind
  <2>3. late \in Nat /\ Owed = 0 /\ late' = late + Owed'
    BY <1>0, <1>1 DEF Reason, Owed, BehindInv
  <2>4. BehindInv'
    BY <1>0, <2>2, <2>3, BehindFinite DEF BehindInv, Owed
  <2> QED
    BY <2>1, <2>4 DEF ClientInv
<1>2. CASE Clear
  <2>1. LinkInv'
    BY <1>0, <1>2 DEF Clear, server, tries
  <2> QED
    BY <1>2, <2>1, RestartMoves DEF Clear, server, tries, Owed
<1>3. CASE Popen
  <2>1. /\ gen' = gen + 1 /\ up' = TRUE /\ alive' = alive \cup {gen + 1}
        /\ UNCHANGED <<broken, started, relock, reason, late>>
        /\ rpc' = "init" /\ rpc = "popen"
    BY <1>3 DEF Popen, tries
  <2>2. LinkInv'
    BY <1>0, <2>1
  <2>3. gen \in Nat /\ alive \subseteq 1..gen
    BY <1>0 DEF BehindInv
  <2>4. LeftBehind' = alive /\ Owed' = 0
    BY <2>1, <2>3 DEF LeftBehind, Owed
  <2>5. Cardinality(alive) <= Cardinality(LeftBehind) + Owed /\ Cardinality(alive) \in Nat
    <3>1. CASE reason
      BY <1>0, <2>1, <3>1, BehindFinite DEF LeftBehind, Owed
    <3>2. CASE ~reason
      <4>1. Owed = 1
        BY <2>1, <3>2 DEF Owed
      <4>2. alive \subseteq LeftBehind \cup {gen}
        BY DEF LeftBehind
      <4>3. /\ IsFiniteSet(LeftBehind \cup {gen})
            /\ Cardinality(LeftBehind \cup {gen}) <= Cardinality(LeftBehind) + 1
            /\ Cardinality(LeftBehind \cup {gen}) \in Nat
        <5>1. IsFiniteSet(LeftBehind) /\ Cardinality(LeftBehind) \in Nat
          BY <1>0, BehindFinite
        <5>2. /\ IsFiniteSet(LeftBehind \cup {gen})
              /\ \/ Cardinality(LeftBehind \cup {gen}) = Cardinality(LeftBehind)
                 \/ Cardinality(LeftBehind \cup {gen}) = Cardinality(LeftBehind) + 1
          BY <5>1, FS_AddElement
        <5> QED
          BY <5>1, <5>2
      <4>4. Cardinality(alive) <= Cardinality(LeftBehind \cup {gen}) /\ Cardinality(alive) \in Nat
        BY <1>0, <4>2, <4>3, BehindFinite, FS_Subset, FS_CardinalityType
      <4> QED
        BY <1>0, <4>1, <4>3, <4>4, BehindFinite
    <3> QED
      BY <1>0, <3>1, <3>2
  <2>6. BehindInv'
    <3>1. gen' \in Nat /\ late' \in Nat /\ alive' \subseteq 1..gen'
      BY <1>0, <2>1, <2>3 DEF BehindInv
    <3> QED
      BY <1>0, <2>1, <2>4, <2>5, <3>1, BehindFinite DEF BehindInv, Owed
  <2> QED
    BY <2>2, <2>6 DEF ClientInv
<1>4. CASE PopenFails
  <2>1. LinkInv'
    BY <1>0, <1>4 DEF PopenFails, link, tries
  <2> QED
    BY <1>4, <2>1, RestartMoves DEF PopenFails, server, link, tries, Owed
<1>5. CASE RestartLock
  <2>1. LinkInv'
    BY <1>0, <1>5 DEF RestartLock, link, tries
  <2> QED
    BY <1>5, <2>1, RestartMoves DEF RestartLock, server, link, tries, Owed
<1>6. CASE RestartLate
  <2>1. LinkInv'
    BY <1>0, <1>6 DEF RestartLate, link, tries
  <2> QED
    BY <1>6, <2>1, RestartMoves DEF RestartLate, server, link, tries, Owed
<1>7. CASE Initialize
  <2>1. rpc = "initialize" /\ UNCHANGED <<relock, reason, late>>
    BY <1>7 DEF Initialize, tries
  <2>2. CASE rpc' = "stop" /\ (Dropped \/ UNCHANGED client)
    <3>1. BehindInv'
      BY <1>0, <2>1, <2>2, DropBehind DEF Owed
    <3>2. CASE Dropped
      BY <1>0, <2>1, <2>2, <3>1, <3>2 DEF Dropped, ClientInv
    <3>3. CASE UNCHANGED client
      BY <1>0, <2>1, <2>2, <3>1, <3>3 DEF client, ClientInv
    <3> QED
      BY <2>2, <3>2, <3>3
  <2>3. CASE rpc' = "inform" /\ UNCHANGED client /\ Heard
    <3>1. BehindInv'
      BY <1>0, <2>1, <2>3, DropBehind DEF Owed
    <3> QED
      BY <1>0, <2>1, <2>3, <3>1 DEF client, Heard, Sendable, ClientInv
  <2> QED
    BY <1>7, <2>2, <2>3, WriteEnds DEF Initialize, client, server, link
<1>8. CASE Initialized \/ Probe \/ Shutdown
  <2>1. UNCHANGED <<relock, reason, late>> /\ (Dropped \/ UNCHANGED client)
    BY <1>8, WriteEnds DEF Initialized, Probe, Shutdown, tries
  <2>2. \/ rpc = "initialized" /\ rpc' = "started"
        \/ rpc = "probe" /\ rpc' = "end"
        \/ rpc = "shutdown" /\ rpc' = "kill"
    BY <1>8 DEF Initialized, Probe, Shutdown
  <2>3. BehindInv'
    BY <1>0, <2>1, <2>2, DropBehind DEF Owed
  <2>4. CASE Dropped
    BY <1>0, <2>1, <2>2, <2>3, <2>4 DEF Dropped, ClientInv
  <2>5. CASE UNCHANGED client
    BY <1>0, <2>1, <2>2, <2>3, <2>5 DEF client, ClientInv
  <2> QED
    BY <2>1, <2>4, <2>5
<1>9. CASE Started
  <2>1. LinkInv'
    BY <1>0, <1>9 DEF Started, tries
  <2> QED
    BY <1>9, <2>1, RestartMoves DEF Started, server, tries, Owed
<1>10. CASE StopServer
  <2>1. LinkInv'
    BY <1>0, <1>10 DEF StopServer, tries
  <2>2. /\ gen' = gen /\ late' = late /\ alive' \subseteq alive /\ LeftBehind' \subseteq LeftBehind
        /\ Owed' <= Owed
    BY <1>10 DEF StopServer, tries, LeftBehind, Owed
  <2> QED
    BY <1>0, <2>1, <2>2, BehindKeeps DEF ClientInv
<1>11. CASE Fail
  <2>1. LinkInv'
    BY <1>0, <1>11 DEF Fail, tries
  <2> QED
    BY <1>11, <2>1, RestartMoves DEF Fail, server, tries, Owed
<1>12. CASE End
  <2>1. LinkInv'
    BY <1>0, <1>12 DEF End, link, tries
  <2> QED
    BY <1>12, <2>1, RestartMoves DEF End, server, link, tries, Owed
<1> QED
  BY <1>1, <1>2, <1>3, <1>4, <1>5, <1>6, <1>7, <1>8, <1>9, <1>10, <1>11, <1>12 DEF RestartStep

LEMMA ClientStep == ClientInv /\ [LspNext]_lspvars => ClientInv'
<1> SUFFICES ASSUME ClientInv, [LspNext]_lspvars PROVE ClientInv'
  OBVIOUS
<1>1. CASE Die
  <2>1. /\ UNCHANGED <<gen, up, broken, started, thread>> /\ alive' \subseteq alive
    BY <1>1 DEF Die, link, tries, thread
  <2>2. BehindInv'
    BY <2>1, BehindKeeps DEF ClientInv, LeftBehind, Owed, thread
  <2> QED
    BY <2>1, <2>2 DEF ClientInv, LinkInv, thread
<1>2. CASE PauseOver \/ UNCHANGED lspvars
  <2>1. UNCHANGED client /\ UNCHANGED thread
    BY <1>2 DEF PauseOver, lspvars, client, server, link, tries, thread
  <2> QED
    BY <2>1, DropKeeps
<1> QED
  BY <1>1, <1>2, CallerKeeps, RestartKeeps DEF LspNext

LEMMA ClientInvariance == LspSpec => []ClientInv
BY InitClient, ClientStep, PTL DEF LspSpec

\* No server that was dropped, whose start failed half way or that was told goodbye is left to run
\* (lsp/client.py, _drop and stop): at most one is left behind for each restart that was begun when
\* nothing was broken any more, which _reconnect does not rule out.
THEOREM NoneLeftBehind == LspSpec => []NoOrphan
<1>1. ClientInv => NoOrphan
  <2> SUFFICES ASSUME ClientInv PROVE NoOrphan
    OBVIOUS
  <2>1. Cardinality(LeftBehind) \in Nat /\ Owed \in Nat /\ late \in Nat
        /\ Cardinality(LeftBehind) + Owed <= late
    BY BehindFinite DEF ClientInv, BehindInv, Owed
  <2> QED
    BY <2>1 DEF NoOrphan
<1> QED
  BY <1>1, ClientInvariance, PTL

\* A client that is not being restarted can be used or is marked for a restart, however the restart
\* and the callers' failing writes fall together, as long as the last restart was for a reason
\* (_restart, _reconnect, start).
THEOREM WayBack == LspSpec => []NeverWedged
<1>1. ClientInv => NeverWedged
  BY DEF ClientInv, LinkInv, NeverWedged
<1> QED
  BY <1>1, ClientInvariance, PTL
=============================================================================
