------------------------------ MODULE ChainProofs ------------------------------
(***************************************************************************)
(* Theorems about the chain of checks, for any projects, advisories, tools *)
(* and answers of the model.                                               *)
(*                                                                         *)
(* The invariant says of each fact what it tells of the world once it is   *)
(* there (Told), and of a result which of the four ways the chain ended    *)
(* and from which facts (Ending).  Before it stand what the helpers        *)
(* compute (what is loaded, how it ships, whether the version is affected, *)
(* whether the bridge is closed, what the advisory resolves to); after it, *)
(* what an outcome and a label say of the facts they come from.  Together: *)
(* from a label, over the facts, back to the project as it really is.      *)
(***************************************************************************)
EXTENDS Chain, WellFoundedInduction, TLAPS

-----------------------------------------------------------------------------
(* Closures: what is loaded, required, what leads to the flaw. *)

Closed(T, next) == \A q \in T : next[q] \subseteq T

\* A closure is in every set that has its start and that the relation does not leave.
LEMMA ClosureIsLeast ==
  ASSUME NEW from, NEW next, NEW T \in SUBSET PackageSet, from \subseteq T, Closed(T, next)
  PROVE  Closure(from, next) \subseteq T
BY DEF Closure, Closed

\* It has its start.
LEMMA ClosureHasFrom ==
  ASSUME NEW from \in SUBSET PackageSet, NEW next
  PROVE  from \subseteq Closure(from, next) /\ Closure(from, next) \subseteq PackageSet
BY DEF Closure

\* And the relation does not leave it.
LEMMA ClosureIsClosed ==
  ASSUME NEW from, NEW next \in [PackageSet -> SUBSET PackageSet]
  PROVE  Closed(Closure(from, next), next)
BY DEF Closure, Closed

\* What a package loads are packages.
LEMMA LoadsIs ==
  ASSUME NEW g, Project(g)
  PROVE  Loads(g) \in [PackageSet -> SUBSET PackageSet]
BY DEF Loads, Project

\* Those that lead to a package are packages.
LEMMA CallersIs ==
  ASSUME NEW b PROVE  Callers(b) \in [PackageSet -> SUBSET PackageSet]
BY DEF Callers

\* What is loaded loads what it requires.
LEMMA LoadedIsClosed ==
  ASSUME NEW g, Project(g), NEW p \in PackageSet, Loaded(g, p), NEW q \in Loads(g)[p]
  PROVE  q \in PackageSet /\ Loaded(g, q)
<1> DEFINE from == IF g.js THEN Entered(g) ELSE Entered(g) \cup g.prod
<1>1. Closed(Closure(from, Loads(g)), Loads(g))
  BY LoadsIs, ClosureIsClosed
<1>2. q \in PackageSet
  BY LoadsIs
<1> QED
  BY <1>1, <1>2 DEF Closed, Loaded

\* What is imported or started is loaded.
LEMMA EnteredIsLoaded ==
  ASSUME NEW g, Project(g), NEW p \in Entered(g)
  PROVE  p \in PackageSet /\ Loaded(g, p)
<1> DEFINE from == IF g.js THEN Entered(g) ELSE Entered(g) \cup g.prod
<1>1. from \in SUBSET PackageSet /\ p \in from
  BY DEF Project, Entered
<1> QED
  BY <1>1, ClosureHasFrom DEF Loaded

\* A package leads to the flaw when it is the flaw, or hands on what one that leads to it has.
LEMMA LeadsInduction ==
  ASSUME NEW b, NEW T \in SUBSET PackageSet, Flawed \in T,
         \A q \in T, r \in PackageSet : Leads(b, r, q) => r \in T,
         NEW p \in PackageSet, LeadsTo(b, p)
  PROVE  p \in T
<1>1. Closed(T, Callers(b))
  BY DEF Closed, Callers
<1> QED
  BY <1>1, ClosureIsLeast DEF LeadsTo

\* The flaw leads to itself.
LEMMA FlawLeads == ASSUME NEW b PROVE LeadsTo(b, Flawed)
BY PackagesAssumption, ClosureHasFrom DEF LeadsTo

\* A package calls only what it loads.
LEMMA LeadsLoads ==
  ASSUME NEW g, NEW b, CodeOf(g, b), NEW p \in PackageSet, NEW q \in PackageSet, Leads(b, p, q)
  PROVE  q \in Loads(g)[p]
BY DEF CodeOf, Leads

\* What calls the flaw loads it.
LEMMA LeadingLoads ==
  ASSUME NEW g, NEW b, Project(g), CodeOf(g, b),
         NEW p \in PackageSet, Loaded(g, p), LeadsTo(b, p)
  PROVE  Loaded(g, Flawed)
<1> DEFINE T == {r \in PackageSet : Loaded(g, r) => Loaded(g, Flawed)}
<1>1. Flawed \in T
  BY PackagesAssumption
<1>2. ASSUME NEW q \in T, NEW r \in PackageSet, Leads(b, r, q) PROVE r \in T
  BY <1>2, LeadsLoads, LoadedIsClosed
<1> HIDE DEF T
<1>3. T \in SUBSET PackageSet
  BY DEF T
<1>4. p \in T
  BY <1>1, <1>2, <1>3, LeadsInduction
<1> QED
  BY <1>4 DEF T

\* And one package that is loaded hands it on directly, unless the flaw itself is called.
LEMMA SomeoneLeads ==
  ASSUME NEW g, NEW b, Project(g), CodeOf(g, b),
         NEW p \in PackageSet \ {Flawed}, Loaded(g, p), LeadsTo(b, p)
  PROVE  \E r \in PackageSet : Loaded(g, r) /\ Flawed \in Loads(g)[r]
<1> DEFINE Someone == \E r \in PackageSet : Loaded(g, r) /\ Flawed \in Loads(g)[r]
           T == {q \in PackageSet : q # Flawed /\ Loaded(g, q) => Someone}
<1>1. Flawed \in T
  BY PackagesAssumption
<1>2. ASSUME NEW q \in T, NEW r \in PackageSet, Leads(b, r, q) PROVE r \in T
  <2>1. q \in Loads(g)[r]
    BY <1>2, LeadsLoads
  <2>2. CASE Loaded(g, r)
    <3>1. Loaded(g, q)
      BY <2>1, <2>2, LoadedIsClosed
    <3> QED
      BY <1>2, <2>1, <2>2, <3>1
  <2> QED
    BY <2>2
<1> HIDE DEF T
<1>3. T \in SUBSET PackageSet
  BY DEF T
<1>4. p \in T
  BY <1>1, <1>2, <1>3, LeadsInduction
<1> QED
  BY <1>4 DEF T

-----------------------------------------------------------------------------
(* How it ships. *)

\* A package that ships as not loaded and is loaded after all: the imports or the start command were
\* not all read (a command that stands in no Dockerfile is not), or a requirement above it is loaded by
\* another package alone.
THEOREM ShippedIsUnloaded ==
  ASSUME NEW g, Project(g), g.js, Shipped(g, Flawed) \in {"build_only", "image_only"},
         Entered(g) = Scanned(g) \cup Started(g), PeersRead(g), Entered(g) \subseteq Starts(g),
         \A r \in RootsOf(g, Flawed) : Loaded(g, r) => r \in Entered(g)
  PROVE  ~Loaded(g, Flawed)
<1> DEFINE up == [q \in PackageSet |-> IF q \in Starts(g) THEN {} ELSE Parents(g, q)]
           U  == Closure({Flawed}, up)
           T  == {q \in Closure(Entered(g), Loads(g)) : q \notin U}
<1>1. RootsOf(g, Flawed) \cap Entered(g) = {}
  BY DEF Shipped
<1>2. \A r \in RootsOf(g, Flawed) : ~Loaded(g, r)
  BY <1>1
<1>3. CASE Flawed \in Starts(g)
  BY <1>2, <1>3 DEF RootsOf
<1>4. CASE Flawed \notin Starts(g)
  <2> HIDE DEF up, U, T
  <2>1. RootsOf(g, Flawed) = Starts(g) \cap U
    BY <1>4 DEF RootsOf, U, up
  <2>2. up \in [PackageSet -> SUBSET PackageSet]
    BY DEF up, Parents
  <2>3. Closed(U, up) /\ Flawed \in U /\ U \subseteq PackageSet
    BY <2>2, PackagesAssumption, ClosureIsClosed, ClosureHasFrom DEF U
  <2>4. Entered(g) \subseteq PackageSet
    BY DEF Project, Entered
  <2>5. Entered(g) \subseteq T
    BY <1>1, <2>1, <2>4, ClosureHasFrom DEF T
  <2>6. ASSUME NEW q \in T, NEW p \in Loads(g)[q] PROVE p \in T
    <3>1. q \in PackageSet /\ Loaded(g, q) /\ q \notin U
      BY <2>6, <2>4, ClosureHasFrom DEF T, Loaded
    <3>2. p \in PackageSet /\ Loaded(g, p)
      BY <3>1, LoadedIsClosed
    <3>3. p \in Requires(g, q)
      BY <3>1 DEF Loads, PeersRead, Requires
    <3>4. q \in Parents(g, p)
      BY <3>1, <3>3 DEF Parents
    <3>5. ASSUME p \in U PROVE FALSE
      <4>1. p \notin Starts(g)
        BY <1>2, <2>1, <3>2, <3>5
      <4>2. q \in up[p]
        BY <3>2, <3>4, <4>1 DEF up
      <4> QED
        BY <2>3, <3>1, <3>5, <4>2 DEF Closed
    <3> QED
      BY <3>2, <3>5 DEF T, Loaded
  <2>7. T \in SUBSET PackageSet /\ Closed(T, Loads(g))
    BY <2>6, <2>4, ClosureHasFrom DEF T, Closed
  <2>8. Closure(Entered(g), Loads(g)) \subseteq T
    BY <2>5, <2>7, ClosureIsLeast
  <2> QED
    BY <2>3, <2>8 DEF T, Loaded
<1> QED
  BY <1>3, <1>4

-----------------------------------------------------------------------------
(* Induction over what is read one by one, in a form without operators as parameters. *)

\* A set with zero and every successor has all natural numbers.
LEMMA NatSetInduction ==
  ASSUME NEW S, 0 \in S, \A n \in Nat : n \in S => n + 1 \in S
  PROVE  Nat \subseteq S
<1> DEFINE T == {n \in Nat : n \notin S}
<1> SUFFICES ASSUME T # {} PROVE FALSE
  OBVIOUS
<1>0. T \subseteq Nat
  OBVIOUS
<1>1. PICK m \in T : \A k \in T : <<k, m>> \notin OpToRel(<, Nat)
  <2> HIDE DEF T
  <2> QED
    BY <1>0, WFMin, NatLessThanWellFounded, Zenon
<1>2. \A k \in T : ~ (k < m)
  BY <1>1, Zenon DEF OpToRel
<1> HIDE <1>1
<1>3. m # 0 /\ m \in Nat
  OBVIOUS
<1>4. m - 1 \in Nat /\ m = (m - 1) + 1 /\ m - 1 < m
  BY <1>3
<1>5. m - 1 \in T
  BY <1>4
<1> QED
  BY <1>2, <1>4, <1>5

\* The same up to a bound.
LEMMA UptoInduction ==
  ASSUME NEW n \in Nat, NEW S, 0 \in S, \A i \in 1..n : i - 1 \in S => i \in S
  PROVE  0..n \subseteq S
<1> DEFINE K == {k \in Nat : k <= n => k \in S}
<1>1. 0 \in K
  OBVIOUS
<1>2. ASSUME NEW k \in Nat, k \in K PROVE k + 1 \in K
  <2>1. CASE k + 1 <= n
    <3>1. k + 1 \in 1..n /\ (k + 1) - 1 = k
      BY <2>1
    <3> QED
      BY <1>2, <2>1, <3>1
  <2> QED
    BY <2>1
<1> HIDE DEF K
<1>3. Nat \subseteq K
  BY <1>1, <1>2, NatSetInduction
<1> QED
  BY <1>3 DEF K

\* The values worked out step by step exist: what the definition of a recursive function needs.
Run(f, n, S, b, step) ==
  f \in [0..n -> S] /\ f[0] = b /\ \A i \in 1..n : f[i] = step[i][f[i - 1]]

\* Whatever each step does to a value of the set, its run exists.
LEMMA StepByStep ==
  ASSUME NEW n \in Nat, NEW S, NEW b \in S, NEW step \in [1..n -> [S -> S]]
  PROVE  \E f : Run(f, n, S, b, step)
<1> DEFINE K == {k \in 0..n : \E f : Run(f, k, S, b, step)}
<1>1. 0 \in K
  <2>1. Run([i \in 0..0 |-> b], 0, S, b, step)
    BY DEF Run
  <2> QED
    BY <2>1
<1>2. ASSUME NEW m \in 1..n, m - 1 \in K PROVE m \in K
  <2> DEFINE k == m - 1
  <2>1. k \in Nat /\ m = k + 1
    OBVIOUS
  <2>2. PICK f : Run(f, k, S, b, step)
    BY <1>2
  <2> HIDE DEF k
  <2> DEFINE last == step[m][f[k]]
             h == [i \in 0..m |-> IF i <= k THEN f[i] ELSE last]
  <2>3. last \in S
    BY <2>1, <2>2 DEF Run
  <2> HIDE DEF last
  <2>4. h \in [0..m -> S]
    BY <2>1, <2>2, <2>3 DEF Run
  <2>5. h[0] = b /\ h[m] = last /\ \A i \in 0..k : h[i] = f[i]
    BY <2>1, <2>2 DEF Run
  <2> HIDE DEF h
  <2>6. ASSUME NEW i \in 1..m PROVE h[i] = step[i][h[i - 1]]
    <3>1. CASE i = m
      <4>1. i - 1 = k /\ k \in 0..k
        BY <2>1, <3>1
      <4> QED
        BY <2>5, <3>1, <4>1 DEF last
    <3>2. CASE i \in 1..k /\ i - 1 \in 0..k
      BY <2>2, <2>5, <3>2 DEF Run
    <3> QED
      BY <2>1, <3>1, <3>2
  <2>7. Run(h, m, S, b, step)
    BY <2>4, <2>5, <2>6 DEF Run
  <2> QED
    BY <2>7
<1> HIDE DEF K
<1>3. 0..n \subseteq K
  BY <1>1, <1>2, UptoInduction
<1> QED
  BY <1>3 DEF K

\* And what is defined so runs through the same set.
LEMMA RunStays ==
  ASSUME NEW n \in Nat, NEW S, NEW F, DOMAIN F = 0..n, F = [i \in 0..n |-> F[i]],
         F[0] \in S, \A i \in 1..n : F[i - 1] \in S => F[i] \in S
  PROVE  F \in [0..n -> S]
<1> DEFINE K == {i \in 0..n : F[i] \in S}
<1>1. 0 \in K
  OBVIOUS
<1>2. \A i \in 1..n : i - 1 \in K => i \in K
  OBVIOUS
<1> HIDE DEF K
<1>3. 0..n \subseteq K
  BY <1>1, <1>2, UptoInduction
<1> QED
  BY <1>3 DEF K

-----------------------------------------------------------------------------
(* The version check. *)

Looked == [state : {"out", "affected", "unclear"}, start : 0..NoStart]
Fresh  == [state |-> "out", start |-> NoStart]

\* A look at one event keeps the form of what was seen.
LEMMA EventIs ==
  ASSUME NEW v, NEW z \in Looked, NEW e \in Events
  PROVE  Event(v, z, e) \in Looked
BY DEF Event, Looked, Events, NoStart, Unread

\* Within is a run of Event over the range.
LEMMA WithinIs ==
  ASSUME NEW v, NEW r \in Seq(Events)
  PROVE  \E seen \in [0..Len(r) -> Looked] :
           /\ seen[0] = Fresh
           /\ \A i \in 1..Len(r) : seen[i] = Event(v, seen[i - 1], r[i])
           /\ Within(v, r) = IF seen[Len(r)].state = "out" /\ seen[Len(r)].start <= v THEN "affected"
                             ELSE seen[Len(r)].state
<1> DEFINE n == Len(r)
           step == [i \in 1..n |-> [z \in Looked |-> Event(v, z, r[i])]]
           F == CHOOSE seen : seen = [i \in 0..Len(r) |->
                  IF i = 0 THEN [state |-> "out", start |-> NoStart] ELSE Event(v, seen[i - 1], r[i])]
<1>1. n \in Nat /\ \A i \in 1..n : r[i] \in Events
  OBVIOUS
<1>2. Fresh \in Looked
  BY DEF Fresh, Looked, NoStart
<1> HIDE DEF n
<1>3. \A i \in 1..n, z \in Looked : Event(v, z, r[i]) \in Looked
  BY <1>1, EventIs
<1>4. step \in [1..n -> [Looked -> Looked]]
  BY <1>3
<1>5. PICK f : Run(f, n, Looked, Fresh, step)
  <2> HIDE DEF step
  <2> QED
    BY <1>1, <1>2, <1>4, StepByStep
<1>6. f = [i \in 0..n |-> IF i = 0 THEN Fresh ELSE Event(v, f[i - 1], r[i])]
  BY <1>1, <1>5 DEF Run
<1>7. F = [i \in 0..Len(r) |-> IF i = 0 THEN Fresh ELSE Event(v, F[i - 1], r[i])]
  BY <1>6, Zenon DEF n, Fresh
<1>8. Within(v, r) = IF F[Len(r)].state = "out" /\ F[Len(r)].start <= v THEN "affected" ELSE F[Len(r)].state
  BY Zenon DEF Within
<1> HIDE DEF F
<1>9. F[0] = Fresh /\ \A i \in 1..n : F[i] = Event(v, F[i - 1], r[i])
  BY <1>1, <1>7 DEF n
<1>10. F \in [0..n -> Looked]
  <2>1. DOMAIN F = 0..n /\ F = [i \in 0..n |-> F[i]]
    BY <1>7 DEF n
  <2>2. F[0] \in Looked /\ \A i \in 1..n : F[i - 1] \in Looked => F[i] \in Looked
    BY <1>2, <1>3, <1>9
  <2> QED
    BY <1>1, <2>1, <2>2, RunStays
<1> QED
  BY <1>8, <1>9, <1>10 DEF n

\* What the events up to the i-th say: nothing yet, or that v is between two of them.
Between(r, v, j) == r[j].kind = "introduced" /\ r[j].at <= v /\ ~Ended(v, r[j + 1])
SaysSoFar(r, v, i, z) ==
  /\ z.state = "out" =>
       /\ z.start = IF i > 0 /\ r[i].kind = "introduced" THEN r[i].at ELSE NoStart
       /\ \A j \in 1..(i - 1) : ~Between(r, v, j)
  /\ z.state = "affected" =>
       \E j \in 1..(i - 1) : Between(r, v, j) /\ Ordered(r[j + 1].at) /\ r[j + 1].kind # "introduced"

\* The version of an event is a number, the unreadable one the greatest.
LEMMA EventsAre == ASSUME NEW e \in Events PROVE e.at \in Nat /\ e.at <= 99
BY DEF Events, Unread

\* The events of an advisory take turns.
LEMMA InOrderSays ==
  ASSUME NEW r \in Seq(Events), InOrder(r)
  PROVE  /\ DOMAIN r = 1..Len(r) /\ Len(r) \in Nat /\ \A i \in 1..Len(r) : r[i] \in Events
         /\ \A i \in 1..Len(r) :
              i > 1 => /\ i - 1 \in 1..Len(r) /\ r[i - 1] \in Events
                       /\ r[i].kind = "introduced" <=> r[i - 1].kind # "introduced"
<1>1. DOMAIN r = 1..Len(r) /\ Len(r) \in Nat /\ \A i \in 1..Len(r) : r[i] \in Events
  OBVIOUS
<1>2. ASSUME NEW i \in 1..Len(r), i > 1 PROVE i - 1 \in 1..Len(r) /\ i \in DOMAIN r
  BY <1>1, <1>2
<1> QED
  BY <1>1, <1>2 DEF InOrder

\* One event more: the state still says what the events so far mean.
LEMMA EventSays ==
  ASSUME NEW v \in 0..Unread, NEW r \in Seq(Events), InOrder(r), NEW i \in 1..Len(r),
         NEW z \in Looked, SaysSoFar(r, v, i - 1, z)
  PROVE  SaysSoFar(r, v, i, Event(v, z, r[i]))
<1> DEFINE e == r[i]
           t == Event(v, z, e)
<1>1. e \in Events /\ i \in Nat
  OBVIOUS
<1>2. i > 1 => r[i - 1].at \in Nat /\ r[i - 1].at <= 99
  BY InOrderSays, EventsAre
<1>2a. i > 1 => (r[i].kind = "introduced" <=> r[i - 1].kind # "introduced")
  BY InOrderSays
<1>2b. /\ \A j \in 1..((i - 1) - 1) : j \in 1..(i - 1)
       /\ i > 1 => (i - 1) + 1 = i
  OBVIOUS
<1> HIDE DEF e
<1>3. CASE z.state # "out"
  <2>1. t = z
    BY <1>3 DEF Event
  <2> QED
    BY <1>2b, <1>3, <2>1 DEF SaysSoFar, e
<1>4. CASE z.state = "out" /\ e.kind = "introduced"
  <2>1. t.state \in {"out", "unclear"} /\ (t.state = "out" => t.start = e.at)
    BY <1>4 DEF Event, Looked
  <2>2. \A j \in 1..(i - 1) : ~Between(r, v, j)
    <3>1. ASSUME NEW j \in 1..(i - 1), Between(r, v, j) PROVE FALSE
      <4>1. j # i - 1
        BY <1>1, <1>2, <1>2a, <1>4, <3>1 DEF Between, e
      <4>2. j \in 1..((i - 1) - 1)
        BY <1>1, <3>1, <4>1
      <4> QED
        BY <1>4, <3>1, <4>2 DEF SaysSoFar
    <3> QED
      BY <3>1
  <2> QED
    BY <1>1, <1>4, <2>1, <2>2 DEF SaysSoFar, e
<1>5. CASE z.state = "out" /\ e.kind # "introduced" /\ z.start = NoStart
  <2>1. t = z
    BY <1>5 DEF Event
  <2>2. ASSUME NEW j \in 1..(i - 1), Between(r, v, j) PROVE FALSE
    <3>1. CASE j = i - 1
      <4>0. i > 1 /\ i - 1 > 0 /\ r[i - 1].kind = "introduced"
        BY <1>1, <2>2, <3>1 DEF Between
      <4>1. z.start = r[i - 1].at
        BY <1>2, <1>5, <4>0 DEF SaysSoFar
      <4> QED
        BY <1>2, <1>5, <4>0, <4>1 DEF NoStart
    <3>2. CASE j # i - 1
      <4>1. j \in 1..((i - 1) - 1)
        BY <1>1, <2>2, <3>2
      <4> QED
        BY <1>5, <2>2, <4>1 DEF SaysSoFar
    <3> QED
      BY <3>1, <3>2
  <2> QED
    BY <1>1, <1>5, <2>1, <2>2 DEF SaysSoFar, e
<1>6. CASE z.state = "out" /\ e.kind # "introduced" /\ z.start # NoStart
  <2>1. i > 1 /\ i - 1 \in 1..(i - 1) /\ r[i - 1].kind = "introduced" /\ z.start = r[i - 1].at
    BY <1>1, <1>6 DEF SaysSoFar
  <2>2. (i - 1) + 1 = i
    BY <1>1
  <2>3. v \in Nat /\ e.at \in Nat /\ r[i - 1].at \in Nat
    <3>1. e.at \in Nat
      BY <1>1, EventsAre
    <3> QED
      BY <1>2, <2>1, <3>1 DEF Unread
  <2>4. Inside(v, z.start, e) <=> Between(r, v, i - 1)
    BY <2>1, <2>2, <2>3 DEF Inside, Between, Ended, e
  <2>5. CASE ~Ordered(e.at)
    <3>1. t.state = "unclear"
      BY <1>6, <2>5 DEF Event, Looked
    <3> QED
      BY <3>1 DEF SaysSoFar, e
  <2>6. CASE Ordered(e.at) /\ Inside(v, z.start, e)
    <3>1. t.state = "affected"
      BY <1>6, <2>6 DEF Event, Looked
    <3> QED
      BY <1>6, <2>1, <2>2, <2>4, <2>6, <3>1 DEF SaysSoFar, e
  <2>7. CASE Ordered(e.at) /\ ~Inside(v, z.start, e)
    <3>1. t.state = "out" /\ t.start = NoStart
      BY <1>6, <2>7 DEF Event, Looked
    <3>2. ASSUME NEW j \in 1..(i - 1), Between(r, v, j) PROVE FALSE
      <4>1. j # i - 1
        BY <2>4, <2>7, <3>2
      <4>2. j \in 1..((i - 1) - 1)
        BY <1>1, <3>2, <4>1
      <4> QED
        BY <1>6, <3>2, <4>2 DEF SaysSoFar
    <3> QED
      BY <1>6, <3>1, <3>2 DEF SaysSoFar, e
  <2> QED
    BY <2>5, <2>6, <2>7
<1> QED
  BY <1>3, <1>4, <1>5, <1>6

\* One range answers as it means: "affected" and "out" are never mistaken, "unclear" says nothing.
LEMMA WithinTells ==
  ASSUME NEW v \in 0..Unread, Ordered(v), NEW r \in Seq(Events), InOrder(r)
  PROVE  /\ Within(v, r) \in {"affected", "out", "unclear"}
         /\ Within(v, r) = "affected" => AffectedBy(r, v)
         /\ Within(v, r) = "out" => ~AffectedBy(r, v)
<1> DEFINE n == Len(r)
<1>1. PICK seen \in [0..n -> Looked] :
        /\ seen[0] = Fresh
        /\ \A i \in 1..n : seen[i] = Event(v, seen[i - 1], r[i])
        /\ Within(v, r) = IF seen[n].state = "out" /\ seen[n].start <= v THEN "affected"
                          ELSE seen[n].state
  BY WithinIs
<1>2. n \in Nat /\ DOMAIN r = 1..n /\ \A i \in 1..n : r[i] \in Events
  OBVIOUS
<1> HIDE DEF n
<1>3. SaysSoFar(r, v, n, seen[n])
  <2> DEFINE K == {i \in 0..n : SaysSoFar(r, v, i, seen[i])}
  <2>1. 0 \in K
    BY <1>1, <1>2 DEF SaysSoFar, Fresh
  <2>2. ASSUME NEW i \in 1..n, i - 1 \in K PROVE i \in K
    <3>1. seen[i - 1] \in Looked
      BY <1>1, <1>2, <2>2
    <3>2. SaysSoFar(r, v, i, Event(v, seen[i - 1], r[i]))
      BY <2>2, <3>1, EventSays DEF n
    <3> QED
      BY <1>1, <3>2
  <2> HIDE DEF K
  <2>3. 0..n \subseteq K
    BY <1>2, <2>1, <2>2, UptoInduction
  <2> QED
    BY <1>2, <2>3 DEF K
<1>4. seen[n] \in Looked
  BY <1>1, <1>2
<1>5. v < Unread /\ v \in Nat
  BY DEF Ordered, Unread
<1>6. ASSUME NEW j \in 1..n, r[j].kind = "introduced", r[j].at <= v,
             j < n => ~Ended(v, r[j + 1]) /\ Ordered(r[j + 1].at)
      PROVE  AffectedBy(r, v)
  <2>1. ASSUME NEW k \in 1..n, k > j, r[k].kind # "introduced", Ended(v, r[k]) PROVE FALSE
    <3>1. j + 1 \in 1..n /\ j < n
      BY <1>2, <2>1
    <3>2. r[j + 1] \in Events /\ r[k] \in Events
      BY <1>2, <3>1
    <3>3. k # j + 1
      BY <1>6, <2>1, <3>1
    <3>4. Ordered(r[k].at)
      BY <1>5, <2>1, <3>2 DEF Ended, Ordered, Unread, Events
    <3>5. j + 1 < k
      BY <1>2, <2>1, <3>3
    <3>6. r[j + 1].at < r[k].at \/ (r[j + 1].at = r[k].at /\ r[k].kind = "last_affected")
      BY <1>2, <1>6, <3>1, <3>4, <3>5 DEF InOrder
    <3>7. r[j + 1].at \in Nat /\ r[k].at \in Nat
      BY <3>2, EventsAre
    <3> QED
      BY <1>5, <1>6, <2>1, <3>1, <3>6, <3>7 DEF Ended
  <2> QED
    BY <1>2, <1>6, <2>1 DEF AffectedBy
<1>7. ASSUME Within(v, r) = "affected" PROVE AffectedBy(r, v)
  <2>1. CASE seen[n].state = "out"
    <3>1. seen[n].start <= v
      BY <1>1, <1>7, <2>1
    <3>2. n > 0 /\ r[n].kind = "introduced" /\ r[n].at <= v
      BY <1>3, <1>5, <2>1, <3>1 DEF SaysSoFar, NoStart, Unread
    <3> QED
      BY <1>2, <1>6, <3>2
  <2>2. CASE seen[n].state # "out"
    <3>1. PICK j \in 1..(n - 1) :
            Between(r, v, j) /\ Ordered(r[j + 1].at) /\ r[j + 1].kind # "introduced"
      BY <1>1, <1>3, <1>7, <2>2 DEF SaysSoFar
    <3> QED
      BY <1>2, <1>6, <3>1 DEF Between
  <2> QED
    BY <2>1, <2>2
<1>8. ASSUME Within(v, r) = "out", AffectedBy(r, v) PROVE FALSE
  <2>1. seen[n].state = "out" /\ ~(seen[n].start <= v)
    BY <1>1, <1>8
  <2>2. PICK j \in 1..n : /\ r[j].kind = "introduced" /\ r[j].at <= v
                          /\ \A k \in 1..n : k > j /\ r[k].kind # "introduced" => ~Ended(v, r[k])
    BY <1>2, <1>8 DEF AffectedBy
  <2>3. CASE j = n
    BY <1>2, <1>3, <2>1, <2>2, <2>3 DEF SaysSoFar
  <2>4. CASE j < n
    <3>1. j + 1 \in 1..n /\ j + 1 > 1 /\ (j + 1) - 1 = j /\ j + 1 > j /\ j \in 1..(n - 1)
      BY <1>2, <2>4
    <3>2. r[j + 1].kind # "introduced"
      BY <1>2, <2>2, <3>1 DEF InOrder
    <3>3. Between(r, v, j)
      BY <2>2, <3>1, <3>2 DEF Between
    <3> QED
      BY <1>3, <2>1, <3>1, <3>3 DEF SaysSoFar
  <2> QED
    BY <1>2, <2>3, <2>4
<1>9. Within(v, r) \in {"affected", "out", "unclear"}
  BY <1>1, <1>4 DEF Looked
<1> QED
  BY <1>7, <1>8, <1>9

\* versions.check reads the ranges one by one, and the first that is not "out" answers.
States == {"affected", "out", "unclear"}

\* The version check is never wrong about what it says: "affected" is affected, and a version it
\* puts outside every range is.
THEOREM VersionTells ==
  ASSUME NEW adv, Versions(adv), NEW v \in 0..Unread
  PROVE  /\ VersionState(adv, v) \in {"affected", "unaffected", "unclear"}
         /\ VersionState(adv, v) = "affected" => Affected(adv, v)
         /\ VersionState(adv, v) = "unaffected" => ~Affected(adv, v)
<1> DEFINE n == Len(adv.ranges)
           step == [i \in 1..n |-> [z \in States |-> IF z # "out" THEN z ELSE Within(v, adv.ranges[i])]]
           F == CHOOSE seen : seen = [i \in 0..Len(adv.ranges) |->
                  IF i = 0 THEN "out"
                  ELSE IF seen[i - 1] # "out" THEN seen[i - 1] ELSE Within(v, adv.ranges[i])]
<1>1. /\ n \in Nat /\ DOMAIN adv.ranges = 1..n
      /\ \A i \in 1..n : adv.ranges[i] \in Seq(Events) /\ InOrder(adv.ranges[i])
  BY DEF Versions
<1>2. CASE adv.listed
  BY <1>2 DEF VersionState, Affected
<1>3. CASE ~adv.listed /\ (~Ordered(v) \/ adv.ranges = << >>)
  BY <1>3, Zenon DEF VersionState
<1>4. CASE ~adv.listed /\ Ordered(v) /\ adv.ranges # << >>
  <2> HIDE DEF n
  <2>1. \A i \in 1..n : /\ Within(v, adv.ranges[i]) \in States
                        /\ Within(v, adv.ranges[i]) = "affected" => AffectedBy(adv.ranges[i], v)
                        /\ Within(v, adv.ranges[i]) = "out" => ~AffectedBy(adv.ranges[i], v)
    BY <1>1, <1>4, WithinTells DEF States
  <2>2. step \in [1..n -> [States -> States]]
    BY <2>1
  <2>3. PICK f : Run(f, n, States, "out", step)
    <3> HIDE DEF step
    <3>1. "out" \in States
      BY DEF States
    <3> QED
      BY <1>1, <2>2, <3>1, StepByStep
  <2>4. \A i \in 1..n, z \in States : step[i][z] = IF z # "out" THEN z ELSE Within(v, adv.ranges[i])
    OBVIOUS
  <2>5. f = [i \in 0..n |-> IF i = 0 THEN "out"
                            ELSE IF f[i - 1] # "out" THEN f[i - 1] ELSE Within(v, adv.ranges[i])]
    <3> HIDE DEF step, F
    <3>1. /\ n \in Nat /\ f \in [0..n -> States] /\ f[0] = "out"
          /\ \A i \in 1..n : f[i] = step[i][f[i - 1]]
      BY <1>1, <2>3 DEF Run
    <3>2. ASSUME NEW i \in 1..n
          PROVE  f[i] = IF f[i - 1] # "out" THEN f[i - 1] ELSE Within(v, adv.ranges[i])
      <4>1. i - 1 \in 0..n
        BY <3>1
      <4>2. f[i - 1] \in States
        BY <3>1, <4>1
      <4> QED
        BY <2>4, <3>1, <4>2
    <3>3. \A i \in 0..n : i = 0 \/ i \in 1..n
      BY <3>1
    <3>4. ASSUME NEW i \in 0..n
          PROVE  f[i] = IF i = 0 THEN "out"
                        ELSE IF f[i - 1] # "out" THEN f[i - 1] ELSE Within(v, adv.ranges[i])
      BY <3>1, <3>2, <3>3
    <3>5. f = [i \in 0..n |-> f[i]]
      BY <3>1
    <3> QED
      BY <3>4, <3>5, Zenon
  <2>6. F = [i \in 0..Len(adv.ranges) |->
                  IF i = 0 THEN "out"
                  ELSE IF F[i - 1] # "out" THEN F[i - 1] ELSE Within(v, adv.ranges[i])]
    BY <2>5, Zenon DEF n
  <2>7. VersionState(adv, v) = IF F[Len(adv.ranges)] = "out" THEN "unaffected" ELSE F[Len(adv.ranges)]
    BY <1>4, Zenon DEF VersionState
  <2> HIDE DEF F, step
  <2>8. /\ F[0] = "out"
        /\ \A i \in 1..n : F[i] = IF F[i - 1] # "out" THEN F[i - 1] ELSE Within(v, adv.ranges[i])
    <3>1. \A i \in 0..n : F[i] = IF i = 0 THEN "out"
                                 ELSE IF F[i - 1] # "out" THEN F[i - 1] ELSE Within(v, adv.ranges[i])
      BY <2>6, Zenon DEF n
    <3>2. 0 \in 0..n /\ \A i \in 1..n : i \in 0..n /\ i # 0
      BY <1>1
    <3> QED
      BY <3>1, <3>2, Zenon
  <2> DEFINE Says(i) == /\ F[i] \in States
                        /\ F[i] = "out" => \A k \in 1..i : ~AffectedBy(adv.ranges[k], v)
                        /\ F[i] = "affected" => \E k \in 1..n : AffectedBy(adv.ranges[k], v)
             K == {i \in 0..n : Says(i)}
  <2>9. 0 \in K
    BY <1>1, <2>8 DEF States
  <2>10. ASSUME NEW i \in 1..n, i - 1 \in K PROVE i \in K
    <3>1. \A k \in 1..i : k = i \/ k \in 1..(i - 1)
      OBVIOUS
    <3>2. CASE F[i - 1] # "out"
      BY <1>1, <2>8, <2>10, <3>2
    <3>3. CASE F[i - 1] = "out"
      BY <1>1, <2>1, <2>8, <2>10, <3>1, <3>3
    <3> QED
      BY <3>2, <3>3
  <2> HIDE DEF K
  <2>11. n \in K
    <3>1. n \in Nat
      BY <1>1
    <3>2. 0..n \subseteq K
      BY <2>9, <2>10, <3>1, UptoInduction
    <3> QED
      BY <3>1, <3>2
  <2>12. Affected(adv, v) <=> \E k \in 1..n : AffectedBy(adv.ranges[k], v)
    BY <1>1, <1>4 DEF Affected
  <2> QED
    BY <2>7, <2>11, <2>12 DEF K, n, States
<1> QED
  BY <1>2, <1>3, <1>4

-----------------------------------------------------------------------------
(* The bridge. *)

\* A way that neither leads up to the project nor ends unread has a package on it that does not
\* hand the flaw on.
LEMMA ClosedIsBroken ==
  ASSUME NEW b, NEW path, WalkBridge(b, path) \notin {"calls", "unknown"}
  PROVE  Broken(b, path)
<1> DEFINE n == MaxDepth + 1
           start == IF Flawed \in b.sources /\ b.entry THEN "open" ELSE "unknown"
           Ends == {"open", "unknown", "closed"}
           step == [i \in 1..n |-> [z \in Ends |->
                      IF z # "open" \/ i >= Len(path) THEN z ELSE Hop(b, path, i)]]
           F == CHOOSE walk : walk = [i \in 0..(MaxDepth + 1) |->
                  IF i = 0 THEN IF Flawed \in b.sources /\ b.entry THEN "open" ELSE "unknown"
                  ELSE IF walk[i - 1] # "open" \/ i >= Len(path) THEN walk[i - 1]
                  ELSE Hop(b, path, i)]
<1>1. n \in Nat /\ n = 5 /\ MaxDepth = 4
  BY DEF MaxDepth
<1>2. start \in Ends /\ \A i : Hop(b, path, i) \in Ends
  BY DEF Hop
<1> HIDE DEF n, start
<1>3. step \in [1..n -> [Ends -> Ends]]
  BY <1>2
<1>4. PICK f : Run(f, n, Ends, start, step)
  <2> HIDE DEF step, Ends
  <2> QED
    BY <1>1, <1>2, <1>3, StepByStep
<1>5. f = [i \in 0..n |-> IF i = 0 THEN start
                          ELSE IF f[i - 1] # "open" \/ i >= Len(path) THEN f[i - 1]
                          ELSE Hop(b, path, i)]
  <2>1. \A i \in 1..n, z \in Ends : step[i][z] = IF z # "open" \/ i >= Len(path) THEN z ELSE Hop(b, path, i)
    OBVIOUS
  <2> HIDE DEF step, Ends
  <2>2. \A i \in 1..n : f[i - 1] \in Ends
    BY <1>1, <1>4 DEF Run
  <2> QED
    BY <1>1, <1>4, <2>1, <2>2 DEF Run
<1>6. F = [i \in 0..(MaxDepth + 1) |->
                  IF i = 0 THEN IF Flawed \in b.sources /\ b.entry THEN "open" ELSE "unknown"
                  ELSE IF F[i - 1] # "open" \/ i >= Len(path) THEN F[i - 1]
                  ELSE Hop(b, path, i)]
  BY <1>5, Zenon DEF n, start
<1>7. WalkBridge(b, path) = IF F[MaxDepth + 1] = "open" THEN "calls" ELSE F[MaxDepth + 1]
  BY Zenon DEF WalkBridge
<1> HIDE DEF F, step, Ends
<1>8. /\ F[0] \in {"open", "unknown"}
      /\ \A i \in 1..n : F[i] = IF F[i - 1] # "open" \/ i >= Len(path) THEN F[i - 1] ELSE Hop(b, path, i)
  BY <1>1, <1>6 DEF n
<1> DEFINE K == {i \in 0..n : F[i] \in {"open", "unknown"} \/ Broken(b, path)}
<1>9. 0 \in K
  BY <1>1, <1>8
<1>10. ASSUME NEW i \in 1..n, i - 1 \in K PROVE i \in K
  <2>1. CASE F[i - 1] # "open" \/ i >= Len(path)
    BY <1>1, <1>8, <1>10, <2>1
  <2>2. CASE ~(F[i - 1] # "open" \/ i >= Len(path))
    <3>1. F[i] = Hop(b, path, i)
      BY <1>8, <2>2
    <3>2. ASSUME Hop(b, path, i) \notin {"open", "unknown"} PROVE Broken(b, path)
      <4>1. ~(i > MaxDepth) /\ ~Leads(b, Up(path, i), Up(path, i - 1))
        BY <3>2, Zenon DEF Hop
      <4>2. i \in 1..MaxDepth
        BY <1>1, <4>1
      <4>3. i < Len(path)
        BY <1>1, <2>2
      <4> QED
        BY <4>1, <4>2, <4>3 DEF Broken
    <3> QED
      BY <1>1, <3>1, <3>2
  <2> QED
    BY <2>1, <2>2
<1> HIDE DEF K
<1>11. n \in K
  BY <1>1, <1>9, <1>10, UptoInduction
<1> QED
  BY <1>7, <1>11 DEF K, n

\* Where the flaw is a requirement of the project's own there is no bridge; "no" is every way read
\* and broken, and the functions of another package are searched for only where it calls the flaw.
LEMMA BridgeIs ==
  ASSUME NEW g, NEW b
  PROVE  LET bridge == Bridge(g, b) IN
         /\ bridge.says \in {"none", "unchecked", "calls", "no"}
         /\ bridge.says # "none" => Flawed \notin Starts(g)
         /\ bridge.through # Flawed => bridge.says = "calls"
         /\ bridge.says = "no" =>
              \A i \in DOMAIN Introductions(g, Flawed) : Broken(b, Introductions(g, Flawed)[i])
<1> DEFINE ways == Introductions(g, Flawed)
<1>1. \A i \in DOMAIN ways : WalkBridge(b, ways[i]) \notin {"calls", "unknown"} => Broken(b, ways[i])
  BY ClosedIsBroken
<1> HIDE DEF ways
<1> QED
  BY <1>1 DEF Bridge, ways

-----------------------------------------------------------------------------
(* The symbol. *)

FnNames == FunctionNames \cup {"none"}
Symbols == [fn : FnNames, names : Seq(FnNames), file : BOOLEAN, listed : BOOLEAN, guess : BOOLEAN,
            distributed : BOOLEAN, paths : BOOLEAN, condition : BOOLEAN, missing : BOOLEAN]

\* The function a symbol stands for is among those that are searched for.
Sought(symbol) == symbol.fn # "none" => \E i \in DOMAIN symbol.names : symbol.names[i] = symbol.fn

\* Nothing resolved is a symbol.
LEMMA NoSymbolIs == NoSymbol \in Symbols /\ Sought(NoSymbol)
<1>1. << >> \in Seq(FnNames)
  OBVIOUS
<1> QED
  BY <1>1 DEF NoSymbol, Symbols, FnNames, Sought

\* So are names,
LEMMA NamedIs ==
  ASSUME NEW fns \in Seq(FnNames), fns # << >>
  PROVE  Named(fns) \in Symbols /\ Sought(Named(fns))
<1>1. Head(fns) \in FnNames /\ 1 \in DOMAIN fns /\ fns[1] = Head(fns)
  OBVIOUS
<1> HIDE DEF FnNames
<1> QED
  BY <1>1, NoSymbolIs DEF Named, Symbols, Sought

\* the model's context,
LEMMA FromContextIs ==
  ASSUME NEW answer \in ContextAnswers
  PROVE  FromContext(answer) \in Symbols /\ Sought(FromContext(answer))
<1>1. answer.fn \in FnNames
  BY DEF ContextAnswers, FnNames, FunctionNames
<1>2. <<answer.fn>> \in Seq(FnNames) /\ 1 \in DOMAIN <<answer.fn>> /\ <<answer.fn>>[1] = answer.fn
  BY <1>1
<1> QED
  BY <1>1, <1>2, NoSymbolIs DEF FromContext, Symbols, Sought

\* what the fix and the text name,
LEMMA TouchedIs ==
  ASSUME NEW a \in Advisories, NEW diff
  PROVE  Touched(a, diff) \in Seq(FnNames) /\ a.named \in Seq(FnNames)
<1>1. a.changed \in Seq(FunctionNames) /\ a.named \in Seq(FunctionNames)
  BY DEF Advisories
<1>2. << >> \in Seq(FnNames) /\ a.changed \in Seq(FnNames) /\ a.named \in Seq(FnNames)
  BY <1>1 DEF FnNames
<1> QED
  BY <1>2 DEF Touched

\* what the model answered,
LEMMA FromAnswerIs ==
  ASSUME NEW a \in Advisories, NEW diff, NEW installed,
         NEW answer \in SymbolAnswers \cup {Failed}
  PROVE  /\ FromAnswer(a, diff, installed, answer) \in Symbols
         /\ Sought(FromAnswer(a, diff, installed, answer))
<1>1. CASE answer = Failed
  BY <1>1, NoSymbolIs DEF FromAnswer
<1>2. CASE answer # Failed
  <2>1. answer.fn \in FnNames /\ "none" \in FnNames
    BY <1>2 DEF SymbolAnswers, FnNames
  <2> DEFINE names == <<answer.fn>> \o Touched(a, diff)
  <2>2. names \in Seq(FnNames) /\ 1 \in DOMAIN names /\ names[1] = answer.fn
    BY <2>1, TouchedIs
  <2> HIDE DEF names
  <2>3. FromAnswer(a, diff, installed, answer) =
          [NoSymbol EXCEPT
             !.fn = IF Keeps(a, diff, installed, answer) /\ Callable(answer, installed)
                      THEN answer.fn ELSE "none",
             !.names = names, !.file = answer.file # "none",
             !.distributed = ~(answer.fn = "none" /\ answer.file = "unshipped"),
             !.condition = TRUE, !.missing = answer.fn # "none" /\ ~Declared(installed, answer.fn)]
    BY <1>2 DEF FromAnswer, names
  <2> DEFINE symbol == FromAnswer(a, diff, installed, answer)
  <2>4. symbol \in Symbols /\ symbol.names = names /\ symbol.fn \in {answer.fn, "none"}
    BY <2>1, <2>2, <2>3, NoSymbolIs DEF Symbols
  <2> HIDE DEF symbol
  <2>5. Sought(symbol)
    BY <2>2, <2>4 DEF Sought
  <2> QED
    BY <2>4, <2>5 DEF symbol
<1> QED
  BY <1>1, <1>2

\* what stands in for it,
LEMMA FallbackIs ==
  ASSUME NEW a \in Advisories, NEW diff, NEW base \in Symbols, Sought(base),
         NEW context \in ContextAnswers \cup {Failed},
         NEW guess \in {"flaw", "bypassed", "alien", "none"}
  PROVE  /\ Fallback(a, diff, base, context, guess) \in Symbols
         /\ Sought(Fallback(a, diff, base, context, guess))
<1> DEFINE spoken == a.named \o Touched(a, diff)
<1>1. \A other \in Symbols : Sought(other) => Carry(base, other) \in Symbols /\ Sought(Carry(base, other))
  BY DEF Carry, Symbols, Sought
<1>2. context # Failed => FromContext(context) \in Symbols /\ Sought(FromContext(context))
  BY FromContextIs
<1>3. spoken \in Seq(FnNames)
  BY TouchedIs
<1>4. spoken # << >> => Named(spoken) \in Symbols /\ Sought(Named(spoken))
  BY <1>3, NamedIs
<1>5. /\ [Named(<<guess>>) EXCEPT !.guess = TRUE] \in Symbols
      /\ Sought([Named(<<guess>>) EXCEPT !.guess = TRUE])
  <2>1. guess \in FnNames
    BY DEF FnNames, FunctionNames
  <2>2. <<guess>> \in Seq(FnNames) /\ <<guess>> # << >>
    BY <2>1
  <2>3. Named(<<guess>>) \in Symbols /\ Sought(Named(<<guess>>))
    BY <2>2, NamedIs
  <2> QED
    BY <2>3 DEF Symbols, Sought
<1> QED
  BY <1>1, <1>2, <1>4, <1>5 DEF Fallback

\* and what the installed package declares of it.
LEMMA KeepDeclaredIs ==
  ASSUME NEW symbol \in Symbols, Sought(symbol)
  PROVE  KeepDeclared(symbol) \in Symbols /\ Sought(KeepDeclared(symbol))
<1> DEFINE names == symbol.names
           n == Len(names)
           Lists == Seq(FnNames)
           step == [i \in 1..n |-> [l \in Lists |->
                      IF names[i] # "none" /\ Declared(TRUE, names[i]) THEN Append(l, names[i]) ELSE l]]
           F == CHOOSE found : found = [i \in 0..Len(symbol.names) |->
                  IF i = 0 THEN << >>
                  ELSE IF symbol.names[i] # "none" /\ Declared(TRUE, symbol.names[i])
                         THEN Append(found[i - 1], symbol.names[i])
                  ELSE found[i - 1]]
<1>1. n \in Nat /\ \A i \in 1..n : names[i] \in FnNames
  BY DEF Symbols
<1>2. << >> \in Lists
  OBVIOUS
<1>3. \A i \in 1..n, l \in Lists : Append(l, names[i]) \in Lists
  BY <1>1
<1> HIDE DEF n, Lists
<1>4. step \in [1..n -> [Lists -> Lists]]
  BY <1>3
<1>5. PICK f : Run(f, n, Lists, << >>, step)
  <2> HIDE DEF step
  <2> QED
    BY <1>1, <1>2, <1>4, StepByStep
<1>6. f = [i \in 0..n |-> IF i = 0 THEN << >>
                          ELSE IF symbol.names[i] # "none" /\ Declared(TRUE, symbol.names[i])
                                 THEN Append(f[i - 1], symbol.names[i])
                          ELSE f[i - 1]]
  <2>1. \A i \in 1..n, l \in Lists :
          step[i][l] = IF names[i] # "none" /\ Declared(TRUE, names[i]) THEN Append(l, names[i]) ELSE l
    OBVIOUS
  <2> HIDE DEF step
  <2>2. \A i \in 1..n : f[i - 1] \in Lists
    BY <1>1, <1>5 DEF Run
  <2>3. \A i \in 1..n : f[i] = IF names[i] # "none" /\ Declared(TRUE, names[i])
                                 THEN Append(f[i - 1], names[i]) ELSE f[i - 1]
    BY <1>5, <2>1, <2>2 DEF Run
  <2>4. f \in [0..n -> Lists] /\ f[0] = << >>
    BY <1>5 DEF Run
  <2> HIDE DEF names
  <2>5. \A i \in 0..n : i = 0 \/ i \in 1..n
    BY <1>1
  <2>6. f = [i \in 0..n |-> IF i = 0 THEN << >>
                          ELSE IF names[i] # "none" /\ Declared(TRUE, names[i])
                                 THEN Append(f[i - 1], names[i])
                          ELSE f[i - 1]]
    BY <2>3, <2>4, <2>5
  <2> QED
    BY <2>6 DEF names
<1>7. F = [i \in 0..Len(symbol.names) |->
                  IF i = 0 THEN << >>
                  ELSE IF symbol.names[i] # "none" /\ Declared(TRUE, symbol.names[i])
                         THEN Append(F[i - 1], symbol.names[i])
                  ELSE F[i - 1]]
  BY <1>6, Zenon DEF n
<1> DEFINE kept == F[Len(symbol.names)]
<1>8. KeepDeclared(symbol) =
        IF symbol.fn = "none" THEN symbol
        ELSE IF Declared(TRUE, symbol.fn) THEN [symbol EXCEPT !.names = kept]
        ELSE [symbol EXCEPT !.names = kept, !.fn = IF kept = << >> THEN "none" ELSE Head(kept)]
  BY Zenon DEF KeepDeclared
<1> HIDE DEF F, step
<1>9. kept \in Lists
  <2>1. DOMAIN F = 0..n /\ F = [i \in 0..n |-> F[i]]
    BY <1>7 DEF n
  <2>2. F[0] \in Lists /\ \A i \in 1..n : F[i - 1] \in Lists => F[i] \in Lists
    BY <1>1, <1>2, <1>3, <1>7 DEF n
  <2>3. F \in [0..n -> Lists]
    BY <1>1, <2>1, <2>2, RunStays
  <2> QED
    BY <1>1, <2>3 DEF n
<1> DEFINE Keeps1(l, k) == names[k] # "none" /\ Declared(TRUE, names[k]) =>
                             \E j \in DOMAIN l : l[j] = names[k]
           K == {i \in 0..n : F[i] \in Lists /\ \A k \in 1..i : Keeps1(F[i], k)}
<1>9a. n \in K
  <2> HIDE DEF names
  <2>1. 0 \in K
    BY <1>1, <1>2, <1>7 DEF n, names
  <2>2. ASSUME NEW i \in 1..n, i - 1 \in K PROVE i \in K
    <3>1. F[i - 1] \in Lists /\ \A k \in 1..(i - 1) : Keeps1(F[i - 1], k)
      BY <2>2
    <3>2. F[i] = IF names[i] # "none" /\ Declared(TRUE, names[i])
                   THEN Append(F[i - 1], names[i]) ELSE F[i - 1]
      <4>1. i \in 0..n /\ i # 0
        BY <1>1
      <4> QED
        BY <1>7, <4>1 DEF n, names
    <3>3. names[i] \in FnNames
      BY <1>1 DEF names
    <3>4. /\ Append(F[i - 1], names[i]) \in Lists
          /\ \A j \in DOMAIN F[i - 1] : /\ j \in DOMAIN Append(F[i - 1], names[i])
                                       /\ Append(F[i - 1], names[i])[j] = F[i - 1][j]
          /\ \E j \in DOMAIN Append(F[i - 1], names[i]) : Append(F[i - 1], names[i])[j] = names[i]
      <4>1. \A l \in Seq(FnNames), e \in FnNames :
              /\ \A j \in DOMAIN l : j \in DOMAIN Append(l, e) /\ Append(l, e)[j] = l[j]
              /\ Len(l) + 1 \in DOMAIN Append(l, e) /\ Append(l, e)[Len(l) + 1] = e
        OBVIOUS
      <4> QED
        BY <1>3, <3>1, <3>3, <4>1 DEF Lists, names
    <3>5. \A k \in 1..i : k = i \/ k \in 1..(i - 1)
      OBVIOUS
    <3> DEFINE G == F[i]
    <3>6. G \in Lists /\ \A k \in 1..i : Keeps1(G, k)
      <4>1. CASE names[i] # "none" /\ Declared(TRUE, names[i])
        BY <3>1, <3>2, <3>4, <3>5, <4>1
      <4>2. CASE ~(names[i] # "none" /\ Declared(TRUE, names[i]))
        BY <3>1, <3>2, <3>5, <4>2
      <4> QED
        BY <4>1, <4>2
    <3>7. i \in 0..n
      BY <1>1
    <3> HIDE DEF Keeps1
    <3> QED
      BY <3>6, <3>7
  <2> HIDE DEF K
  <2>3. 0..n \subseteq K
    BY <1>1, <2>1, <2>2, UptoInduction
  <2> QED
    BY <1>1, <2>3
<1>9b. \A k \in DOMAIN names : Keeps1(kept, k)
  <2>1. DOMAIN names = 1..n
    BY DEF n, Symbols
  <2> QED
    BY <1>9a, <2>1 DEF n
<1> HIDE DEF kept
<1>10. kept # << >> => Head(kept) \in FnNames /\ 1 \in DOMAIN kept /\ kept[1] = Head(kept)
  BY <1>9 DEF Lists
<1> QED
  BY <1>8, <1>9, <1>9b, <1>10 DEF Symbols, Lists, FnNames, Sought

\* What an advisory is resolved to is a symbol, whatever the model answers.
LEMMA ResolvedIs ==
  ASSUME NEW a \in Advisories, NEW diff, NEW installed, NEW m \in ModelAnswers
  PROVE  Resolved(a, diff, installed, m) \in Symbols /\ Sought(Resolved(a, diff, installed, m))
<1> DEFINE alone  == IF m.context = Failed THEN NoSymbol ELSE FromContext(m.context)
           answer == IF Again(a, diff, m.first) THEN m.second ELSE m.first
<1>1. /\ m.context \in ContextAnswers \cup {Failed} /\ answer \in SymbolAnswers \cup {Failed}
      /\ m.guess \in {"flaw", "bypassed", "alien", "none"}
  BY DEF ModelAnswers
<1>2. alone \in Symbols /\ Sought(alone)
  BY <1>1, NoSymbolIs, FromContextIs
<1>3. /\ [Named(<<"flaw">>) EXCEPT !.listed = TRUE] \in Symbols
      /\ Sought([Named(<<"flaw">>) EXCEPT !.listed = TRUE])
  <2>1. <<"flaw">> \in Seq(FnNames) /\ <<"flaw">> # << >>
    BY DEF FnNames, FunctionNames
  <2>2. Named(<<"flaw">>) \in Symbols /\ Sought(Named(<<"flaw">>))
    BY <2>1, NamedIs
  <2> QED
    BY <2>2 DEF Symbols, Sought
<1>4. /\ Fallback(a, diff, FromAnswer(a, diff, installed, answer), m.context, m.guess) \in Symbols
      /\ Sought(Fallback(a, diff, FromAnswer(a, diff, installed, answer), m.context, m.guess))
  BY <1>1, FromAnswerIs, FallbackIs
<1>5. FromAdvisory(a, diff, installed, m) \in Symbols /\ Sought(FromAdvisory(a, diff, installed, m))
  BY <1>2, <1>3, <1>4 DEF FromAdvisory
<1>6. a.paths \in BOOLEAN
  BY DEF Advisories
<1>7. /\ [FromAdvisory(a, diff, installed, m) EXCEPT !.paths = a.paths] \in Symbols
      /\ Sought([FromAdvisory(a, diff, installed, m) EXCEPT !.paths = a.paths])
  BY <1>5, <1>6 DEF Symbols, Sought
<1> QED
  BY <1>7, KeepDeclaredIs DEF Resolved

-----------------------------------------------------------------------------
(* The inductive invariant: what each fact, once gathered, says of the world. *)

Locals(v) ==
  [a : Advisories, symbol : Symbols, through : {Flawed, Bridge(v.g, v.b).through},
   claim : {"none", "closed"}, api : BOOLEAN, reached : BOOLEAN, matched : {"none", "flaw", "parent"}]

Typed ==
  /\ w \in Worlds /\ s \in Setups /\ c \in FactRecords /\ x \in Locals(w)
  /\ pc # "done" <=> result = << >>

\* What nobody has asked yet is not known.
Unsearched == {"graph", "advisory", "ship", "exclude", "resolve", "callsite", "bridge"}
TellsLittle ==
  /\ pc = "graph" => c.audit = "failed"
  /\ pc \in Unsearched =>
       /\ c.bridge = "none" /\ c.found = "unsearched" /\ c.flow = "open" /\ ~c.uncalled /\ ~c.receiver
       /\ x.through = Flawed /\ x.claim = "none" /\ x.matched = "none" /\ ~x.reached
  /\ pc \notin {"condition", "usage", "audit", "decide", "done"} => ~c.reach

\* Given from the start, or asked of nobody here.
TellsProject ==
  /\ c.direct = (Flawed \in Starts(w.g)) /\ c.driven = w.driven
  /\ c.shipped \in {"unknown", Shipped(w.g, Flawed)}
  /\ (c.build => w.build # "no") /\ ~c.excluded

TellsVersion ==
  /\ c.version \in {"affected", "unclear"}
  /\ pc \notin {"graph", "advisory", "done"} /\ c.version = "affected" => Affected(w.adv, w.version)

TellsGraph ==
  /\ c.graph = "unreached" =>
       ~Reached(w) \/ (c.go /\ {"called", "imported"} \subseteq {w.modules[i] : i \in DOMAIN w.modules})
  /\ c.graph = "lowered" => Lowered

TellsSymbol ==
  /\ c.named = (x.symbol.fn # "none") /\ c.missing = x.symbol.missing /\ Sought(x.symbol)
  /\ c.symbol = IF ~x.symbol.distributed THEN "undistributed"
                ELSE IF Usable(x.symbol) THEN "usable" ELSE "unusable"

\* What follows a bridge that is closed: nobody searches on.
TellsBridge ==
  /\ x.through # Flawed => c.bridge = "calls"
  /\ c.bridge # "none" => c.named /\ ~c.direct
  /\ c.bridge = "no" =>
       /\ c.found = "absent" /\ ~c.uncalled /\ x.claim = "none"
       /\ x.symbol.fn = "flaw" =>
            \A i \in DOMAIN Introductions(w.g, Flawed) : Broken(w.b, Introductions(w.g, Flawed)[i])

\* What was found is there, and where the text finds no call of the flaw there is none.
TellsCalls ==
  /\ c.found = "tests" => w.own[x.through] = "tests"
  /\ c.found \in {"called", "unconfirmed"} /\ x.through = Flawed => w.own[Flawed] \in {"plain", "unbound"}
  /\ c.found = "called" /\ x.through = Flawed => Calls(w, Flawed)
  /\ c.found \in {"unsearched", "absent"} => c.evidence = "none"
  /\ pc \in {"investigate", "search", "lastresort", "entries"} /\ c.found = "absent" /\ c.bridge # "no"
       /\ x.through = Flawed /\ x.symbol.fn = "flaw" /\ x.symbol.distributed
       => w.own[Flawed] = "no" \/ Flawed \in w.common
  /\ x.matched = "flaw" => x.through = Flawed
  /\ c.receiver => ~Matches

TellsClaim ==
  /\ x.claim = "closed" =>
       /\ c.named /\ Flawed \in w.b.sources /\ c.bridge # "no"
       /\ x.symbol.fn = "flaw" => ~Calls(w, x.through) \/ (x.through = Flawed /\ CommonName)
  /\ c.uncalled => x.claim = "closed" /\ ~Reopened

TellsInput ==
  /\ x.reached => w.own[x.through] = "plain" /\ w.input = "flows"
  /\ c.flow = "found" => w.input = "flows" /\ (x.through = Flawed => Calls(w, Flawed))
  /\ c.flow = "absent" =>
       w.input # "reads" /\ (w.input # "flows" \/ w.own[x.through] = "tests")
  /\ c.reach => c.found = "called" /\ c.flow = "open" /\ c.driven
  /\ c.condition \in {"absent", "infrastructure"} => w.condition # "none" /\ ~w.met

\* "no", "tests" and "absent" are taken only where no framework names the package.
NotNamed(path, used) ==
  /\ c.direct /\ used \in {"no", "tests"} => ~w.framework /\ (~Nameable(Flawed) \/ Flawed \notin w.g.imports)
  /\ path = "absent" => ~w.framework /\ Flawed \notin w.g.imports
  /\ c.direct /\ path \in {"imported", "absent"} => used = "open"

TellsUse == NotNamed(c.path, c.used)

TellsAudit ==
  /\ ~c.bound
  /\ c.go => c.graph # "none"
  /\ c.audit = "passed" /\ w.hidden =>
       \/ c.graph = "unreached" /\ "not_reached" \in s.skip
       \/ pc \in {"decide", "done"} /\ Rechecked(c) \in s.skip \cup {"none"}

Told == /\ TellsLittle /\ TellsProject /\ TellsVersion /\ TellsGraph /\ TellsSymbol /\ TellsBridge
        /\ TellsCalls /\ TellsClaim /\ TellsInput /\ TellsUse /\ TellsAudit

-----------------------------------------------------------------------------
(* One lemma to a step: it leaves the facts true of the world. *)

\* The project is one of those assumed.
LEMMA WorldIs == ASSUME Typed PROVE World(w)
BY ChainAssumption DEF Typed

\* A step that only notes facts keeps the types.
LEMMA NoteTyped ==
  ASSUME Typed, NEW from, NEW to, from # "done", to # "done", NEW facts \in FactRecords,
         Note(from, to, facts)
  PROVE  Typed'
BY DEF Typed, Note, Step

\* Most steps may find nothing.
Followed == {<<"graph", "advisory">>, <<"exclude", "resolve">>, <<"callsite", "bridge">>,
             <<"investigate", "search">>, <<"search", "lastresort">>, <<"lastresort", "entries">>,
             <<"entries", "invisible">>, <<"receiver", "flow">>, <<"reach", "condition">>,
             <<"audit", "decide">>}

\* A check that has no answer says nothing.
LEMMA NothingNew ==
  ASSUME Typed, Told, NEW from, NEW to, <<from, to>> \in Followed, Note(from, to, c)
  PROVE  Typed' /\ Told'
<1> USE DEF Told, Note, Step
<1>1. Typed'
  BY NoteTyped DEF Typed, Followed
<1>2. TellsLittle' /\ TellsCalls'
  BY DEF TellsLittle, Unsearched, TellsCalls, Matches, Real, Followed
<1>3. TellsVersion' /\ TellsAudit'
  BY DEF TellsVersion, TellsAudit, Followed
<1>4. TellsProject' /\ TellsGraph' /\ TellsSymbol' /\ TellsBridge'
  BY DEF TellsProject, TellsGraph, Lowered, TellsSymbol, TellsBridge
<1>5. TellsClaim' /\ TellsInput' /\ TellsUse'
  BY DEF TellsClaim, CommonName, Reopened, ReopenedBySelf, TellsInput, TellsUse, NotNamed, Nameable
<1> QED
  BY <1>1, <1>2, <1>3, <1>4, <1>5

\* The scanner's graph is right about the call, Go's about the modules that could be checked.
LEMMA CallGraphTells == ASSUME Typed, Told, CallGraph PROVE Typed' /\ Told'
<1> DEFINE Others == {"called", "imported"} \subseteq {w.modules[i] : i \in DOMAIN w.modules}
<1>1. ASSUME NEW answer \in {"reached", "unreached", "none"}, NEW go \in BOOLEAN,
             Note("graph", "advisory", [c EXCEPT !.graph = answer, !.go = go]),
             go => answer # "none", answer = "unreached" => ~Reached(w) \/ (go /\ Others)
      PROVE  Typed' /\ Told'
  <2>1. Typed'
    <3> DEFINE half == [c EXCEPT !.graph = answer]
    <3>1. half \in FactRecords
      BY <1>1 DEF Typed, FactRecords
    <3> HIDE DEF half
    <3>2. [half EXCEPT !.go = go] \in FactRecords
      BY <1>1, <3>1 DEF FactRecords
    <3> QED
      BY <1>1, <3>2, NoteTyped DEF half
  <2> USE <1>1 DEF Told, Note, Step, Typed, FactRecords
  <2> HIDE DEF Others
  <2>2. TellsLittle' /\ TellsCalls'
    BY DEF TellsLittle, Unsearched, TellsCalls, Matches, Real
  <2>3. TellsVersion' /\ TellsAudit'
    BY DEF TellsLittle, TellsVersion, TellsAudit
  <2>4. TellsProject' /\ TellsSymbol' /\ TellsBridge'
    BY DEF TellsProject, TellsSymbol, TellsBridge
  <2>5. TellsGraph'
    BY DEF TellsGraph, Others
  <2>6. TellsClaim' /\ TellsInput' /\ TellsUse'
    BY DEF TellsClaim, CommonName, Reopened, ReopenedBySelf, TellsInput, TellsUse, NotNamed, Nameable
  <2> QED
    BY <2>1, <2>2, <2>3, <2>4, <2>5, <2>6
<1>2. CASE w.graph = "go"
  <2>1. PICK checked \in Checks(w.modules) :
          LET answer == Strongest(w.modules, checked) IN
          Note("graph", "advisory", [c EXCEPT !.graph = answer, !.go = answer # "none"])
    BY <1>2 DEF CallGraph
  <2> DEFINE answer == Strongest(w.modules, checked)
  <2>2. answer \in {"reached", "unreached", "none"}
    BY DEF Strongest
  <2>3. ASSUME answer = "unreached", Reached(w) PROVE Others
    <3>1. \E i \in DOMAIN w.modules : w.modules[i] = "called"
      BY <1>2, <2>3, WorldIs DEF World
    <3>2. \E i \in DOMAIN w.modules : w.modules[i] = "imported"
      BY <2>3 DEF Strongest, Checks
    <3> QED
      BY <3>1, <3>2
  <2> HIDE DEF answer
  <2> QED
    BY <1>1, <2>1, <2>2, <2>3 DEF answer
<1>3. CASE w.graph = "scanner"
  <2> DEFINE answer == IF Reached(w) THEN "reached" ELSE "unreached"
  <2>1. Note("graph", "advisory", [c EXCEPT !.graph = answer])
    BY <1>3 DEF CallGraph
  <2>2. [c EXCEPT !.graph = answer] = [c EXCEPT !.graph = answer, !.go = c.go] /\ c.go \in BOOLEAN
    BY DEF Typed, FactRecords
  <2>3. answer \in {"reached", "unreached", "none"} /\ answer # "none"
        /\ (answer = "unreached" => ~Reached(w))
    OBVIOUS
  <2> HIDE DEF answer
  <2>4. Note("graph", "advisory", [c EXCEPT !.graph = answer, !.go = c.go])
    BY <2>1, <2>2
  <2>5. c.go \in BOOLEAN
    BY <2>2
  <2> QED
    BY <1>1, <2>3, <2>4, <2>5
<1>4. CASE w.graph = "none"
  <2>1. Note("graph", "advisory", c)
    BY <1>4 DEF CallGraph
  <2>2. <<"graph", "advisory">> \in Followed
    BY DEF Followed
  <2> QED
    BY <2>1, <2>2, NothingNew
<1> QED
  BY <1>2, <1>3, <1>4, WorldIs DEF World

\* The end of the chain leaves what was gathered.
LEMMA EndTells ==
  ASSUME Typed, Told, NEW from, from # "done", NEW outcome, NEW facts, End(from, outcome, facts)
  PROVE  Typed' /\ Told'
<1> USE DEF Told, End, Step
<1>1. Typed'
  BY DEF Typed
<1>2. TellsLittle' /\ TellsCalls' /\ TellsVersion'
  BY DEF TellsLittle, Unsearched, TellsCalls, Matches, Real, TellsVersion
<1>3. TellsProject' /\ TellsGraph' /\ TellsSymbol' /\ TellsBridge'
  BY DEF TellsProject, TellsGraph, Lowered, TellsSymbol, TellsBridge
<1>4. TellsClaim' /\ TellsInput' /\ TellsUse'
  BY DEF TellsClaim, CommonName, Reopened, ReopenedBySelf, TellsInput, TellsUse, NotNamed, Nameable
<1>5. TellsAudit'
  BY DEF TellsAudit
<1> QED
  BY <1>1, <1>2, <1>3, <1>4, <1>5

\* What the databases have of the advisory is an advisory too.
LEMMA KnownIs ==
  ASSUME NEW v, v.a \in Advisories, NEW answered
  PROVE  Known(v, answered) \in Advisories
<1>1. << >> \in Seq(FunctionNames)
  OBVIOUS
<1>2. [v.a EXCEPT !.symbols = "none", !.paths = FALSE] \in Advisories /\ Nothing(v) \in Advisories
  BY <1>1 DEF Advisories, Nothing
<1>3. (CHOOSE a \in FromNvd(v) : TRUE) = [v.a EXCEPT !.symbols = "none", !.paths = FALSE]
  BY DEF FromNvd
<1> QED
  BY <1>2, <1>3 DEF Known

\* What is read in the advisory, and in the statement of a condition, are facts.
LEMMA ReadIs ==
  ASSUME NEW f \in FactRecords, NEW build \in BOOLEAN, NEW gadget \in BOOLEAN,
         NEW version \in {"affected", "unaffected", "unclear"},
         NEW condition \in {"none", "holds", "text_absent", "absent", "infrastructure", "external"}
  PROVE  /\ [f EXCEPT !.version = version, !.build = build, !.gadget = gadget] \in FactRecords
         /\ [f EXCEPT !.condition = condition, !.gadget = gadget] \in FactRecords
<1>1. [f EXCEPT !.version = version, !.build = build, !.gadget = gadget] \in FactRecords
  <2>1. [f EXCEPT !.version = version] \in FactRecords
    BY DEF FactRecords
  <2>2. ASSUME NEW y \in FactRecords
        PROVE  [y EXCEPT !.build = build, !.gadget = gadget] \in FactRecords
    BY <2>2 DEF FactRecords
  <2>3. [f EXCEPT !.version = version, !.build = build, !.gadget = gadget]
          = [[f EXCEPT !.version = version] EXCEPT !.build = build, !.gadget = gadget]
    BY DEF FactRecords
  <2> QED
    BY <2>1, <2>2, <2>3
<1>2. [f EXCEPT !.condition = condition, !.gadget = gadget] \in FactRecords
  <2>1. [f EXCEPT !.condition = condition] \in FactRecords
    BY DEF FactRecords
  <2>2. ASSUME NEW y \in FactRecords PROVE [y EXCEPT !.gadget = gadget] \in FactRecords
    BY <2>2 DEF FactRecords
  <2>3. [f EXCEPT !.condition = condition, !.gadget = gadget]
          = [[f EXCEPT !.condition = condition] EXCEPT !.gadget = gadget]
    BY DEF FactRecords
  <2> QED
    BY <2>1, <2>2, <2>3
<1> QED
  BY <1>1, <1>2

\* The version goes on as affected only when it is.
LEMMA VersionStepTells == ASSUME Typed, Told, Version PROVE Typed' /\ Told'
<1>1. PICK answered \in SUBSET Databases :
        LET state == IF Whole(w, answered) # {} THEN VersionState(w.adv, w.version) ELSE "unclear"
            read  == [c EXCEPT !.version = state, !.build = IsBuildRisk(answered),
                               !.gadget = NeedsOther(answered)] IN
        IF state = "unaffected"
          THEN End("advisory", "version_unaffected", Unplaced(read))
          ELSE /\ Step("advisory", "ship") /\ c' = read
               /\ x' = [x EXCEPT !.a = Known(w, answered)] /\ UNCHANGED result
  BY DEF Version
<1> DEFINE state == IF Whole(w, answered) # {} THEN VersionState(w.adv, w.version) ELSE "unclear"
           build == IsBuildRisk(answered)
           gadget == NeedsOther(answered)
<1>2. state \in {"affected", "unaffected", "unclear"} /\ (state = "affected" => Affected(w.adv, w.version))
  BY WorldIs, VersionTells DEF World
<1>2a. build \in BOOLEAN /\ gadget \in BOOLEAN /\ (build => w.build # "no")
  BY DEF IsBuildRisk, NeedsOther, TextRead
<1>3. CASE state = "unaffected"
  <2>1. End("advisory", "version_unaffected",
            Unplaced([c EXCEPT !.version = state, !.build = build, !.gadget = gadget]))
    BY <1>1, <1>3
  <2> HIDE DEF state, build, gadget
  <2> QED
    BY <2>1, EndTells
<1>4. CASE state # "unaffected"
  <2>1. /\ Step("advisory", "ship") /\ c' = [c EXCEPT !.version = state, !.build = build, !.gadget = gadget]
        /\ x' = [x EXCEPT !.a = Known(w, answered)] /\ UNCHANGED result
    BY <1>1, <1>4
  <2> HIDE DEF state, build, gadget
  <2> DEFINE known == Known(w, answered)
  <2>2. known \in Advisories
    BY WorldIs, KnownIs DEF World
  <2> HIDE DEF known
  <2>3. c' = [c EXCEPT !.version = state, !.build = build, !.gadget = gadget] /\ x' = [x EXCEPT !.a = known]
    BY <2>1 DEF known
  <2>9. c' \in FactRecords
    BY <1>2, <1>2a, <2>3, ReadIs DEF Typed
  <2> USE <1>2, <1>2a, <2>1, <2>2, <2>3 DEF Told, Step, Typed, FactRecords, Locals
  <2>4. Typed'
    <3>1. c' \in FactRecords
      BY <2>9 DEF FactRecords
    <3>2. x' \in Locals(w)
      OBVIOUS
    <3> QED
      BY <3>1, <3>2
  <2>5. TellsVersion'
    BY <1>4 DEF TellsVersion
  <2>6. TellsLittle' /\ TellsCalls' /\ TellsAudit'
    BY DEF TellsLittle, Unsearched, TellsCalls, Matches, Real, TellsAudit
  <2>7. TellsProject' /\ TellsGraph' /\ TellsSymbol' /\ TellsBridge'
    BY DEF TellsProject, TellsGraph, Lowered, TellsSymbol, TellsBridge
  <2>8. TellsClaim' /\ TellsInput' /\ TellsUse'
    BY DEF TellsClaim, CommonName, Reopened, ReopenedBySelf, TellsInput, TellsUse, NotNamed, Nameable
  <2> QED
    BY <2>4, <2>5, <2>6, <2>7, <2>8
<1> QED
  BY <1>3, <1>4

\* What shipping says is one of its four answers.
LEMMA ShippedIs ==
  ASSUME NEW g, NEW p PROVE Shipped(g, p) \in {"unknown", "runtime", "build_only", "image_only"}
BY DEF Shipped, ShippedByScope, NotLoaded

\* How the package ships is computed from the project.
LEMMA ShipTells == ASSUME Typed, Told, Ship PROVE Typed' /\ Told'
<1> DEFINE placed == [c EXCEPT !.shipped = Shipped(w.g, Flawed)]
<1>1. CASE \E outcome, facts : End("ship", outcome, facts)
  BY <1>1, EndTells
<1>2. CASE Note("ship", "exclude", placed)
  <2> HIDE DEF placed
  <2> DEFINE value == Shipped(w.g, Flawed)
  <2>1. value \in {"unknown", "runtime", "build_only", "image_only"}
    BY ShippedIs
  <2>2. placed = [c EXCEPT !.shipped = value]
    BY DEF placed
  <2>3. value = Shipped(w.g, Flawed)
    OBVIOUS
  <2> HIDE DEF value
  <2> USE <1>2, <2>1, <2>2, <2>3 DEF Told, Note, Step, Typed, FactRecords
  <2>4. Typed'
    <3>1. placed \in FactRecords
      OBVIOUS
    <3> QED
      BY <3>1, NoteTyped
  <2>5. TellsLittle' /\ TellsCalls' /\ TellsAudit'
    BY DEF TellsLittle, Unsearched, TellsCalls, Matches, Real, TellsAudit
  <2>6. TellsVersion' /\ TellsGraph' /\ TellsSymbol' /\ TellsBridge'
    BY DEF TellsVersion, TellsGraph, Lowered, TellsSymbol, TellsBridge
  <2>7. TellsProject'
    BY DEF TellsProject
  <2>8. TellsClaim' /\ TellsInput' /\ TellsUse'
    BY DEF TellsClaim, CommonName, Reopened, ReopenedBySelf, TellsInput, TellsUse, NotNamed, Nameable
  <2> QED
    BY <2>4, <2>5, <2>6, <2>7, <2>8
<1> QED
  BY <1>1, <1>2 DEF Ship

\* What the deployment owns ends the chain, else nothing is known of it.
LEMMA ExcludeTells == ASSUME Typed, Told, Exclude PROVE Typed' /\ Told'
<1>1. CASE End("exclude", "infrastructure", Unplaced([c EXCEPT !.excluded = TRUE]))
  BY <1>1, EndTells
<1>2. CASE Note("exclude", "resolve", c)
  <2>1. <<"exclude", "resolve">> \in Followed
    BY DEF Followed
  <2> QED
    BY <1>2, <2>1, NothingNew
<1> QED
  BY <1>1, <1>2 DEF Exclude

\* The facts on the symbol are those of the symbol.
LEMMA ResolveTells == ASSUME Typed, Told, Resolve PROVE Typed' /\ Told'
<1>1. PICK m \in Answers, fetched \in BOOLEAN :
        LET diff   == Diff(x.a, fetched)
            symbol == Resolved(x.a, diff, Flawed \in w.b.sources, m) IN
        /\ Step("resolve", "callsite")
        /\ x' = [x EXCEPT !.symbol = symbol]
        /\ c' = [c EXCEPT !.named = symbol.fn # "none", !.missing = symbol.missing,
                          !.symbol = IF ~symbol.distributed THEN "undistributed"
                                     ELSE IF Usable(symbol) THEN "usable" ELSE "unusable"]
        /\ UNCHANGED result
  BY DEF Resolve
<1> DEFINE symbol == Resolved(x.a, Diff(x.a, fetched), Flawed \in w.b.sources, m)
           use == IF ~symbol.distributed THEN "undistributed"
                  ELSE IF Usable(symbol) THEN "usable" ELSE "unusable"
           named == symbol.fn # "none"
           missing == symbol.missing
<1>2. m \in ModelAnswers
  <2>1. s.answers \subseteq ModelAnswers
    BY ChainAssumption DEF Typed
  <2>2. [first |-> Failed, second |-> Failed, context |-> Failed, guess |-> "none"] \in ModelAnswers
    BY DEF ModelAnswers
  <2> QED
    BY <2>1, <2>2 DEF Answers
<1>3. x.a \in Advisories
  BY DEF Typed, Locals
<1>4. symbol \in Symbols /\ Sought(symbol)
  BY <1>2, <1>3, ResolvedIs
<1>5. /\ Step("resolve", "callsite") /\ UNCHANGED result
      /\ x' = [x EXCEPT !.symbol = symbol]
      /\ c' = [c EXCEPT !.named = named, !.missing = missing, !.symbol = use]
  BY <1>1
<1> HIDE DEF symbol
<1>6. use \in {"undistributed", "usable", "unusable"}
  OBVIOUS
<1>7. missing \in BOOLEAN /\ named \in BOOLEAN
  BY <1>4 DEF Symbols
<1>8. use = IF ~symbol.distributed THEN "undistributed"
            ELSE IF Usable(symbol) THEN "usable" ELSE "unusable"
  OBVIOUS
<1> HIDE DEF use, named, missing
<1>9. /\ pc = "resolve" /\ pc' = "callsite" /\ pc \in Unsearched
      /\ c.bridge = "none" /\ c.found = "unsearched" /\ c.flow = "open" /\ ~c.uncalled /\ ~c.receiver
      /\ x.through = Flawed /\ x.claim = "none" /\ x.matched = "none" /\ ~x.reached
  BY <1>5 DEF Told, TellsLittle, Unsearched, Step
<1> USE <1>5, <1>9 DEF Told, Step, Typed, FactRecords, Locals
<1>10. Typed'
  <2>1. c' \in FactRecords
    <3> DEFINE half == [c EXCEPT !.named = named, !.missing = missing]
    <3>1. half \in FactRecords
      BY <1>7
    <3>2. c' = [half EXCEPT !.symbol = use]
      OBVIOUS
    <3> HIDE DEF half
    <3> QED
      BY <1>6, <3>1, <3>2 DEF FactRecords
  <2>2. x' \in Locals(w)
    BY <1>4
  <2> QED
    BY <2>1, <2>2
<1>11. TellsSymbol'
  BY <1>4, <1>8 DEF TellsSymbol, named, missing
<1>12. TellsLittle' /\ TellsCalls' /\ TellsAudit'
  BY DEF TellsLittle, Unsearched, TellsCalls, Matches, Real, TellsAudit
<1>13. TellsVersion' /\ TellsGraph' /\ TellsProject' /\ TellsBridge'
  BY DEF TellsVersion, TellsGraph, Lowered, TellsProject, TellsBridge
<1>14. TellsClaim' /\ TellsInput' /\ TellsUse'
  BY DEF TellsClaim, TellsInput, TellsUse, NotNamed, Nameable
<1> QED
  BY <1>10, <1>11, <1>12, <1>13, <1>14

\* A finding is lowered only for a reason that is so.
LEMMA CallSiteTells == ASSUME Typed, Told, CallSite PROVE Typed' /\ Told'
<1>1. ASSUME NEW graph \in {"none", "reached", "lowered", "unreached"},
             NEW audit \in {"passed", "reopened", "failed"},
             Note("callsite", "bridge", [c EXCEPT !.graph = graph, !.audit = audit]),
             graph = c.graph \/ (c.graph = "reached" /\ graph = "lowered" /\ Lowered /\ audit = c.audit),
             audit = c.audit \/ (graph = "unreached" /\ (audit = "passed" /\ w.hidden => "not_reached" \in s.skip))
      PROVE  Typed' /\ Told'
  <2>1. Typed'
    <3> DEFINE half == [c EXCEPT !.graph = graph]
    <3>1. half \in FactRecords
      BY <1>1 DEF Typed, FactRecords
    <3> HIDE DEF half
    <3>2. [half EXCEPT !.audit = audit] \in FactRecords
      BY <1>1, <3>1 DEF FactRecords
    <3> QED
      BY <1>1, <3>2, NoteTyped DEF half
  <2> USE <1>1 DEF Told, Note, Step, Typed, FactRecords
  <2>2. TellsLittle' /\ TellsCalls'
    BY DEF TellsLittle, Unsearched, TellsCalls, Matches, Real
  <2>3. TellsVersion' /\ TellsAudit'
    BY DEF TellsVersion, TellsAudit
  <2>4. TellsProject' /\ TellsSymbol' /\ TellsBridge'
    BY DEF TellsProject, TellsSymbol, TellsBridge
  <2>5. TellsGraph'
    BY DEF TellsGraph, Lowered
  <2>6. TellsClaim' /\ TellsInput' /\ TellsUse'
    BY DEF TellsClaim, CommonName, Reopened, ReopenedBySelf, TellsInput, TellsUse, NotNamed, Nameable
  <2> QED
    BY <2>1, <2>2, <2>3, <2>4, <2>5, <2>6
<1>2. c.audit \in {"passed", "reopened", "failed"} /\ c.graph \in {"none", "reached", "lowered", "unreached"}
  BY DEF Typed, FactRecords
<1>3. CASE c.graph = "reached" /\ Lowered /\ Note("callsite", "bridge", [c EXCEPT !.graph = "lowered"])
  <2>1. [c EXCEPT !.graph = "lowered"] = [c EXCEPT !.graph = "lowered", !.audit = c.audit]
    BY DEF Typed, FactRecords
  <2> QED
    BY <1>1, <1>2, <1>3, <2>1
<1>4. CASE Note("callsite", "bridge", c)
  <2>1. <<"callsite", "bridge">> \in Followed
    BY DEF Followed
  <2> QED
    BY <1>4, <2>1, NothingNew
<1>5. CASE c.graph = "unreached" /\ \E audit \in Untraced : Note("callsite", "bridge", [c EXCEPT !.audit = audit])
  <2>1. PICK audit \in Untraced : Note("callsite", "bridge", [c EXCEPT !.audit = audit])
    BY <1>5
  <2>2. /\ audit \in {"passed", "reopened", "failed"}
        /\ audit = "passed" /\ w.hidden => "not_reached" \in s.skip
    BY DEF Untraced, AuditAnswers
  <2>3. [c EXCEPT !.audit = audit] = [c EXCEPT !.graph = c.graph, !.audit = audit]
    BY DEF Typed, FactRecords
  <2> QED
    BY <1>1, <1>2, <1>5, <2>1, <2>2, <2>3
<1> QED
  BY <1>3, <1>4, <1>5 DEF CallSite

\* What the bridge says: nothing where no function is known, "no" of the flaw only when it is so.
LEMMA BridgeSaysIs ==
  ASSUME Typed, NEW bridge \in BridgeSays(x.symbol)
  PROVE  /\ bridge.says \in {"none", "unchecked", "calls", "no"}
         /\ bridge.through \in {Flawed, Bridge(w.g, w.b).through}
         /\ bridge.says # "none" => x.symbol.fn # "none" /\ Flawed \notin Starts(w.g)
         /\ bridge.through # Flawed => bridge.says = "calls"
         /\ bridge.says = "no" /\ x.symbol.fn = "flaw" =>
              \A i \in DOMAIN Introductions(w.g, Flawed) : Broken(w.b, Introductions(w.g, Flawed)[i])
<1> DEFINE there == Bridge(w.g, w.b)
<1>1. /\ there.says \in {"none", "unchecked", "calls", "no"}
      /\ there.says # "none" => Flawed \notin Starts(w.g)
      /\ there.through # Flawed => there.says = "calls"
      /\ there.says = "no" =>
              \A i \in DOMAIN Introductions(w.g, Flawed) : Broken(w.b, Introductions(w.g, Flawed)[i])
  BY BridgeIs
<1> HIDE DEF there
<1>2. CASE x.symbol.fn = "none" \/ ~x.symbol.distributed
  BY <1>2 DEF BridgeSays
<1>3. CASE ~(x.symbol.fn = "none" \/ ~x.symbol.distributed) /\ (x.symbol.fn = "flaw" \/ there.says = "none")
  <2>1. bridge = there
    BY <1>3 DEF BridgeSays, there
  <2> QED
    BY <1>1, <1>3, <2>1 DEF there
<1>4. CASE ~(x.symbol.fn = "none" \/ ~x.symbol.distributed) /\ ~(x.symbol.fn = "flaw" \/ there.says = "none")
  <2>1. bridge.says \in {"no", "unchecked"} /\ bridge.through = Flawed
    BY <1>4 DEF BridgeSays, there
  <2> QED
    BY <1>1, <1>4, <2>1
<1> QED
  BY <1>2, <1>3, <1>4

\* A bridge that says "no" leaves nothing to be searched for.
LEMMA AskBridgeTells == ASSUME Typed, Told, AskBridge PROVE Typed' /\ Told'
<1>1. PICK bridge \in BridgeSays(x.symbol) :
        /\ c' = [c EXCEPT !.bridge = bridge.says, !.found = IF bridge.says = "no" THEN "absent" ELSE @]
        /\ x' = [x EXCEPT !.through = bridge.through]
  BY DEF AskBridge
<1> DEFINE says == bridge.says
           through == bridge.through
           found == IF says = "no" THEN "absent" ELSE "unsearched"
<1>2. /\ says \in {"none", "unchecked", "calls", "no"} /\ through \in {Flawed, Bridge(w.g, w.b).through}
      /\ says # "none" => x.symbol.fn # "none" /\ Flawed \notin Starts(w.g)
      /\ through # Flawed => says = "calls"
      /\ says = "no" /\ x.symbol.fn = "flaw" =>
              \A i \in DOMAIN Introductions(w.g, Flawed) : Broken(w.b, Introductions(w.g, Flawed)[i])
  BY BridgeSaysIs
<1>3. /\ pc = "bridge" /\ pc' = "investigate" /\ UNCHANGED <<w, s, result>> /\ pc \in Unsearched
      /\ c.bridge = "none" /\ c.found = "unsearched" /\ c.flow = "open" /\ ~c.uncalled /\ ~c.receiver
      /\ x.through = Flawed /\ x.claim = "none" /\ x.matched = "none" /\ ~x.reached
  BY DEF AskBridge, Told, TellsLittle, Unsearched, Step
<1>4. c' = [c EXCEPT !.bridge = says, !.found = found] /\ x' = [x EXCEPT !.through = through]
  BY <1>1, <1>3 DEF Typed, FactRecords
<1>5. found \in {"absent", "unsearched"} /\ (found = "absent" <=> says = "no")
  OBVIOUS
<1> HIDE DEF says, through, found
<1>5a. c' \in FactRecords
  <2> DEFINE half == [c EXCEPT !.bridge = says]
  <2>1. half \in FactRecords /\ c' = [half EXCEPT !.found = found]
    BY <1>2, <1>4 DEF Typed, FactRecords
  <2> HIDE DEF half
  <2> QED
    BY <1>5, <2>1 DEF FactRecords
<1> USE <1>2, <1>3, <1>4, <1>5 DEF Told, Typed, FactRecords, Locals
<1>6. Typed'
  <2>1. c' \in FactRecords
    BY <1>5a
  <2>2. x' \in Locals(w)
    OBVIOUS
  <2> QED
    BY <2>1, <2>2
<1>7. TellsBridge'
  BY DEF TellsBridge, TellsSymbol, TellsProject
<1>8. TellsLittle' /\ TellsCalls'
  BY DEF TellsLittle, Unsearched, TellsCalls, Matches, Real
<1>9. TellsVersion' /\ TellsAudit'
  BY DEF TellsVersion, TellsAudit
<1>10. TellsProject' /\ TellsSymbol' /\ TellsGraph'
  BY DEF TellsProject, TellsSymbol, TellsGraph, Lowered
<1>11. TellsClaim' /\ TellsInput' /\ TellsUse'
  BY DEF TellsClaim, TellsInput, TellsUse, NotNamed, Nameable
<1> QED
  BY <1>6, <1>7, <1>8, <1>9, <1>10, <1>11

\* A find is one in the world, and an absence one where the function was looked for.
Looking == {<<"investigate", "search">>, <<"search", "lastresort">>, <<"lastresort", "entries">>,
            <<"entries", "invisible">>}
FoundThere(to, found) ==
  /\ found = "tests" => w.own[x.through] = "tests"
  /\ found \in {"called", "unconfirmed"} /\ x.through = Flawed => w.own[Flawed] \in {"plain", "unbound"}
  /\ found = "called" /\ x.through = Flawed => w.own[Flawed] = "plain"
  /\ to # "invisible" /\ found = "absent" /\ x.through = Flawed /\ x.symbol.fn = "flaw"
       /\ x.symbol.distributed => w.own[Flawed] = "no" \/ Flawed \in w.common

\* What is found under a name is there.
LEMMA FindTells ==
  ASSUME Typed, Told, NEW from, NEW to, <<from, to>> \in Looking, c.bridge # "no",
         NEW found \in {"unsearched", "absent", "unconfirmed", "referenced", "tests", "called"},
         NEW evidence \in {"none", "name", "import", "engine"},
         found \in {"unsearched", "absent"} => evidence = "none",
         NEW api \in BOOLEAN,
         NEW matched \in {"none", "flaw", "parent"}, matched = "flaw" => x.through = Flawed,
         FoundThere(to, found),
         Find(from, to, found, evidence, api, matched)
  PROVE  Typed' /\ Told'
<1>1. /\ pc = from /\ pc' = to /\ UNCHANGED <<w, s, result>>
      /\ from \in {"investigate", "search", "lastresort", "entries"}
      /\ to \in {"search", "lastresort", "entries", "invisible"}
      /\ c' = [c EXCEPT !.found = found, !.evidence = evidence]
      /\ x' = [x EXCEPT !.api = api, !.matched = matched]
  BY DEF Find, Step, Looking
<1>1a. c' \in FactRecords
  <2> DEFINE half == [c EXCEPT !.found = found]
  <2>1. half \in FactRecords /\ c' = [half EXCEPT !.evidence = evidence]
    BY <1>1 DEF Typed, FactRecords
  <2> HIDE DEF half
  <2> QED
    BY <2>1 DEF FactRecords
<1> USE <1>1 DEF Told, Typed, FactRecords, Locals
<1>2. Typed'
  <2>1. c' \in FactRecords
    BY <1>1a
  <2>2. x' \in Locals(w)
    OBVIOUS
  <2> QED
    BY <2>1, <2>2
<1>3. TellsCalls'
  BY DEF TellsCalls, Calls, Matches, Real, FoundThere
<1>4. TellsLittle' /\ TellsInput'
  BY DEF TellsLittle, Unsearched, TellsInput
<1>5. TellsVersion' /\ TellsAudit'
  BY DEF TellsVersion, TellsAudit
<1>6. TellsProject' /\ TellsSymbol' /\ TellsGraph' /\ TellsBridge'
  BY DEF TellsProject, TellsSymbol, TellsGraph, Lowered, TellsBridge
<1>7. TellsClaim' /\ TellsUse'
  BY DEF TellsClaim, CommonName, Reopened, ReopenedBySelf, TellsUse, NotNamed, Nameable
<1> QED
  BY <1>2, <1>3, <1>4, <1>5, <1>6, <1>7

\* What the text finds is one of six answers, and a call only of the flaw itself.
LEMMA TextFindsIs ==
  ASSUME Typed, NEW p, NEW found, found = TextFinds(p)
  PROVE  /\ found \in {"absent", "unconfirmed", "referenced", "tests", "called"}
         /\ found = "tests" => w.own[p] = "tests"
         /\ found = "unconfirmed" /\ p = Flawed => w.own[p] \in {"plain", "unbound"}
         /\ found = "called" => w.own[p] = "plain"
         /\ found = "absent" /\ p = Flawed => w.own[p] = "no" \/ Flawed \in w.common
<1>1. w.own[Flawed] \in Uses
  BY WorldIs, PackagesAssumption DEF World
<1>2. CASE BoundTo(p)
  BY <1>2 DEF TextFinds, BoundTo
<1>3. CASE ~BoundTo(p) /\ w.own[p] \in {"plain", "unbound"}
  BY <1>3 DEF TextFinds, BoundTo, Unbound
<1>4. CASE w.own[p] \notin {"plain", "unbound"}
  BY <1>1, <1>4 DEF TextFinds, BoundTo, Uses, Unbound
<1> QED
  BY <1>2, <1>3, <1>4

\* A search finds what is there, or nothing.
LEMMA LooksTells ==
  ASSUME Typed, Told, NEW from, NEW to, <<from, to>> \in Looking, c.bridge # "no",
         NEW targets, NEW lead \in BOOLEAN,
         x.through = Flawed /\ x.symbol.fn = "flaw" /\ x.symbol.distributed => "flaw" \in targets,
         Looks(from, to, targets, lead)
  PROVE  Typed' /\ Told'
<1> DEFINE name == IF x.through # Flawed THEN "parent" ELSE "flaw"
           text == IF ~x.symbol.distributed /\ ~lead THEN "unsearched"
                   ELSE IF name \in targets THEN TextFinds(x.through) ELSE "absent"
           matched == IF text \in {"unsearched", "absent"} THEN x.matched ELSE name
<1>1. name \in {"none", "flaw", "parent"} /\ (name = "flaw" => x.through = Flawed)
  OBVIOUS
<1>2. CASE /\ s.engine /\ name \in targets /\ w.own[x.through] = "plain" /\ text # "unsearched"
           /\ Find(from, to, "called", "engine", TRUE, name)
  <2>1. FoundThere(to, "called")
    BY <1>2 DEF FoundThere
  <2> HIDE DEF name, text
  <2> QED
    BY <1>1, <1>2, <2>1, FindTells
<1>3. CASE Find(from, to, text, EvidenceOf(text), FALSE, matched)
  <2> DEFINE found == TextFinds(x.through)
  <2>1. /\ found \in {"absent", "unconfirmed", "referenced", "tests", "called"}
        /\ found = "tests" => w.own[x.through] = "tests"
        /\ found = "unconfirmed" /\ x.through = Flawed => w.own[x.through] \in {"plain", "unbound"}
        /\ found = "called" => w.own[x.through] = "plain"
        /\ found = "absent" /\ x.through = Flawed => w.own[x.through] = "no" \/ Flawed \in w.common
    BY TextFindsIs
  <2>2. text \in {"unsearched", "absent", "unconfirmed", "referenced", "tests", "called"}
    <3> HIDE DEF found
    <3> QED
      BY <2>1 DEF found
  <2>3. FoundThere(to, text)
    <3>1. text = "unsearched" \/ text = found \/ (text = "absent" /\ name \notin targets)
      OBVIOUS
    <3>2. x.through = Flawed => name = "flaw"
      OBVIOUS
    <3> HIDE DEF text, name, found
    <3> QED
      BY <2>1, <3>1, <3>2 DEF FoundThere
  <2>4. matched \in {"none", "flaw", "parent"} /\ (matched = "flaw" => x.through = Flawed)
    BY <1>1 DEF Typed, Locals, Told, TellsCalls
  <2>5. EvidenceOf(text) \in {"none", "import", "name"} /\ (text \in {"unsearched", "absent"} => EvidenceOf(text) = "none")
    BY DEF EvidenceOf
  <2> HIDE DEF text, name, matched
  <2> DEFINE evidence == EvidenceOf(text)
  <2>6. evidence \in {"none", "name", "import", "engine"} /\ (text \in {"unsearched", "absent"} => evidence = "none")
    BY <2>5
  <2>7. Find(from, to, text, evidence, FALSE, matched)
    BY <1>3
  <2> HIDE DEF evidence
  <2> DEFINE api == FALSE
  <2>8. api \in BOOLEAN /\ Find(from, to, text, evidence, api, matched)
    BY <2>7
  <2>9. <<from, to>> \in Looking /\ c.bridge # "no"
    BY <1>1
  <2> HIDE DEF api
  <2> QED
    BY <2>2, <2>3, <2>4, <2>6, <2>8, <2>9, FindTells
<1> QED
  BY <1>2, <1>3 DEF Looks

\* The search of the symbol's names.
LEMMA SearchTells == ASSUME Typed, Told, Search PROVE Typed' /\ Told'
<1>1. CASE c.found = "unsearched" /\ Targets # {} /\ Looks("search", "lastresort", Targets, FALSE)
  <2>1. <<"search", "lastresort">> \in Looking
    BY DEF Looking
  <2>2. c.bridge # "no"
    BY <1>1 DEF Told, TellsBridge
  <2>3. x.through = Flawed /\ x.symbol.fn = "flaw" => "flaw" \in Targets
    BY DEF Targets, Told, TellsSymbol, Sought
  <2> QED
    BY <1>1, <2>1, <2>2, <2>3, LooksTells
<1>2. CASE Note("search", "lastresort", c)
  <2>1. <<"search", "lastresort">> \in Followed
    BY DEF Followed
  <2> QED
    BY <1>2, <2>1, NothingNew
<1> QED
  BY <1>1, <1>2 DEF Search

\* The search of the entry points the model names.
LEMMA LastResortTells == ASSUME Typed, Told, LastResort PROVE Typed' /\ Told'
<1>1. CASE c.bridge # "no" /\ Looks("lastresort", "entries", {"flaw"}, TRUE)
  <2>1. <<"lastresort", "entries">> \in Looking
    BY DEF Looking
  <2> QED
    BY <1>1, <2>1, LooksTells
<1>2. CASE Note("lastresort", "entries", c)
  <2>1. <<"lastresort", "entries">> \in Followed
    BY DEF Followed
  <2> QED
    BY <1>2, <2>1, NothingNew
<1> QED
  BY <1>1, <1>2 DEF LastResort

\* A claim that nothing calls the flaw is made only where the project does not, or not by a name
\* that the text counts.
LEMMA ClaimTells ==
  ASSUME Typed, Told, NEW from, NEW to, <<from, to>> \in Looking, Step(from, to),
         x' = [x EXCEPT !.claim = "closed"], UNCHANGED <<c, result>>,
         c.named, Flawed \in w.b.sources, c.bridge # "no",
         x.symbol.fn = "flaw" => ~Calls(w, x.through) \/ (x.through = Flawed /\ CommonName)
  PROVE  Typed' /\ Told'
<1>1. /\ pc = from /\ pc' = to /\ UNCHANGED <<w, s, result>> /\ c' = c
      /\ from \in {"investigate", "search", "lastresort", "entries"}
      /\ to \in {"search", "lastresort", "entries", "invisible"}
  BY DEF Step, Looking
<1> USE <1>1 DEF Told, Typed, Locals
<1>2. Typed'
  <2>1. x' \in Locals(w)
    OBVIOUS
  <2> QED
    BY <2>1
<1>3. TellsClaim'
  BY DEF TellsClaim, CommonName, Reopened, ReopenedBySelf
<1>4. TellsLittle' /\ TellsInput'
  BY DEF TellsLittle, Unsearched, TellsInput
<1>5. TellsVersion' /\ TellsAudit'
  BY DEF TellsVersion, TellsAudit
<1>6. TellsProject' /\ TellsSymbol' /\ TellsGraph' /\ TellsBridge'
  BY DEF TellsProject, TellsSymbol, TellsGraph, Lowered, TellsBridge
<1>7. TellsCalls' /\ TellsUse'
  BY DEF TellsCalls, Matches, Real, TellsUse, NotNamed, Nameable
<1> QED
  BY <1>2, <1>3, <1>4, <1>5, <1>6, <1>7

\* The model's own questions: a call is there, "no caller" is said where there is none.
LEMMA InvestigateTells == ASSUME Typed, Told, Investigate PROVE Typed' /\ Told'
<1>0. <<"investigate", "search">> \in Looking /\ <<"investigate", "search">> \in Followed
  BY DEF Looking, Followed
<1> DEFINE name == IF x.through = Flawed THEN "flaw" ELSE "parent"
<1>1. ASSUME Investigates, w.own[x.through] = "plain", NEW byEngine \in {s.engine, FALSE},
             Find("investigate", "search", "called", IF byEngine THEN "engine" ELSE "import", byEngine, name)
      PROVE  Typed' /\ Told'
  <2> DEFINE evidence == IF byEngine THEN "engine" ELSE "import"
  <2>1. FoundThere("search", "called")
    BY <1>1 DEF FoundThere
  <2>2. c.bridge # "no"
    BY <1>1 DEF Investigates
  <2>3. byEngine \in BOOLEAN
    BY ChainAssumption DEF Typed
  <2>4. evidence \in {"none", "name", "import", "engine"}
    OBVIOUS
  <2>5. name \in {"none", "flaw", "parent"} /\ (name = "flaw" => x.through = Flawed)
    OBVIOUS
  <2>6. Find("investigate", "search", "called", evidence, byEngine, name)
    BY <1>1
  <2> HIDE DEF evidence, name
  <2> QED
    BY <1>0, <2>1, <2>2, <2>3, <2>4, <2>5, <2>6, FindTells
<1>2. CASE Investigates /\ Flawed \in w.b.sources /\ (x.symbol.fn = "flaw" => ~Calls(w, x.through))
           /\ Step("investigate", "search") /\ x' = [x EXCEPT !.claim = "closed"] /\ UNCHANGED <<c, result>>
  <2>1. c.named /\ c.bridge # "no"
    BY <1>2 DEF Investigates, Told, TellsSymbol
  <2> QED
    BY <1>0, <1>2, <2>1, ClaimTells
<1>3. CASE Note("investigate", "search", c)
  BY <1>0, <1>3, NothingNew
<1>4. CASE Investigates /\ w.own[x.through] = "plain" /\ w.input = "flows" /\ Step("investigate", "search")
           /\ x' = [x EXCEPT !.reached = TRUE] /\ UNCHANGED <<c, result>>
  <2>1. pc = "investigate" /\ pc' = "search" /\ UNCHANGED <<w, s, result>> /\ c' = c
    BY <1>4 DEF Step
  <2> USE <1>4, <2>1 DEF Told, Typed, Locals
  <2>2. Typed'
    <3>1. x' \in Locals(w)
      OBVIOUS
    <3> QED
      BY <3>1
  <2>3. TellsLittle' /\ TellsInput'
    BY DEF TellsLittle, Unsearched, TellsInput
  <2>4. TellsVersion' /\ TellsAudit'
    BY DEF TellsVersion, TellsAudit
  <2>5. TellsProject' /\ TellsSymbol' /\ TellsGraph' /\ TellsBridge'
    BY DEF TellsProject, TellsSymbol, TellsGraph, Lowered, TellsBridge
  <2>6. TellsCalls' /\ TellsClaim' /\ TellsUse'
    BY DEF TellsCalls, Matches, Real, TellsClaim, CommonName, Reopened, ReopenedBySelf, TellsUse, NotNamed, Nameable
  <2> QED
    BY <2>2, <2>3, <2>4, <2>5, <2>6
<1> QED
  BY <1>1, <1>2, <1>3, <1>4 DEF Investigate

\* The public entries, asked at once.
LEMMA EntryCheckTells == ASSUME Typed, Told, EntryCheck PROVE Typed' /\ Told'
<1>0. <<"entries", "invisible">> \in Looking /\ <<"entries", "invisible">> \in Followed
  BY DEF Looking, Followed
<1>1. CASE Note("entries", "invisible", c)
  BY <1>0, <1>1, NothingNew
<1>2. CASE /\ c.bridge # "no" /\ x.through = Flawed /\ w.own[Flawed] = "plain"
           /\ Find("entries", "invisible", "called", "engine", TRUE, "flaw")
  <2>1. FoundThere("invisible", "called")
    BY <1>2 DEF FoundThere
  <2> QED
    BY <1>0, <1>2, <2>1, FindTells
<1>3. CASE /\ c.found = "absent" /\ c.named /\ x.symbol.distributed /\ x.through = Flawed /\ c.bridge # "no"
           /\ Entries(x.symbol) /\ ~(x.symbol.fn = "flaw" /\ w.own[Flawed] = "plain")
           /\ Step("entries", "invisible") /\ UNCHANGED <<c, result>> /\ x' = [x EXCEPT !.claim = "closed"]
  <2>1. x.symbol.fn = "flaw" => w.own[Flawed] = "no" \/ Flawed \in w.common
    BY <1>3 DEF Told, TellsCalls, Step
  <2>2. x.symbol.fn = "flaw" => ~Calls(w, x.through) \/ (x.through = Flawed /\ CommonName)
    BY <1>3, <2>1 DEF Calls, CommonName
  <2>3. Flawed \in w.b.sources
    BY <1>3 DEF Entries
  <2> QED
    BY <1>0, <1>3, <2>2, <2>3, ClaimTells
<1> QED
  BY <1>1, <1>2, <1>3 DEF EntryCheck

\* "Not called" is what the three reopenings leave of the claim.
LEMMA InvisibleTells == ASSUME Typed, Told, Invisible PROVE Typed' /\ Told'
<1> DEFINE uncalled == x.claim = "closed" /\ ~Reopened
<1>1. Note("invisible", "receiver", [c EXCEPT !.uncalled = uncalled]) /\ uncalled \in BOOLEAN
  BY DEF Invisible
<1>2. uncalled <=> x.claim = "closed" /\ ~Reopened
  OBVIOUS
<1> HIDE DEF uncalled
<1> USE <1>1, <1>2 DEF Told, Note, Step, Typed, FactRecords
<1>3. Typed'
  <2>1. [c EXCEPT !.uncalled = uncalled] \in FactRecords
    OBVIOUS
  <2> QED
    BY <2>1, NoteTyped
<1>4. TellsClaim'
  BY DEF TellsClaim, CommonName, Reopened, ReopenedBySelf
<1>5. TellsBridge' /\ TellsLittle' /\ TellsCalls'
  BY DEF TellsBridge, TellsLittle, Unsearched, TellsCalls, Matches, Real
<1>6. TellsVersion' /\ TellsAudit' /\ TellsInput'
  BY DEF TellsVersion, TellsAudit, TellsInput
<1>7. TellsProject' /\ TellsSymbol' /\ TellsGraph' /\ TellsUse'
  BY DEF TellsProject, TellsSymbol, TellsGraph, Lowered, TellsUse, NotNamed, Nameable
<1> QED
  BY <1>3, <1>4, <1>5, <1>6, <1>7

\* A receiver that is said to be another one is not the flaw's where it was looked at.
LEMMA ReceiverTells == ASSUME Typed, Told, Receiver PROVE Typed' /\ Told'
<1>1. ASSUME NEW found \in {"called", "absent"}, NEW evidence \in {"none", "import"}, NEW receiver \in BOOLEAN,
             c.found = "unconfirmed",
             Note("receiver", "flow", [c EXCEPT !.found = found, !.evidence = evidence, !.receiver = receiver]),
             found = "called" => Real /\ receiver = c.receiver,
             found = "absent" => evidence = "none" /\ (receiver = c.receiver \/ ~Matches)
      PROVE  Typed' /\ Told'
  <2>1. [c EXCEPT !.found = found, !.evidence = evidence, !.receiver = receiver] \in FactRecords
    <3> DEFINE one == [c EXCEPT !.found = found]
               two == [one EXCEPT !.evidence = evidence]
    <3>1. one \in FactRecords
      BY DEF Typed, FactRecords
    <3> HIDE DEF one
    <3>2. two \in FactRecords
      BY <3>1 DEF FactRecords
    <3> HIDE DEF two
    <3>3. [two EXCEPT !.receiver = receiver] \in FactRecords
      BY <3>2 DEF FactRecords
    <3> QED
      BY <3>3 DEF one, two
  <2>2. Typed'
    BY <1>1, <2>1, NoteTyped
  <2> USE <1>1 DEF Told, Note, Step, Typed, FactRecords
  <2>3. TellsCalls'
    BY DEF TellsCalls, Calls, Matches, Real
  <2>4. TellsLittle' /\ TellsInput' /\ TellsAudit'
    BY DEF TellsLittle, Unsearched, TellsInput, TellsAudit
  <2>5. TellsVersion' /\ TellsProject' /\ TellsSymbol' /\ TellsGraph'
    BY DEF TellsVersion, TellsProject, TellsSymbol, TellsGraph, Lowered
  <2>6. TellsBridge' /\ TellsClaim' /\ TellsUse'
    BY DEF TellsBridge, TellsClaim, CommonName, Reopened, ReopenedBySelf, TellsUse, NotNamed, Nameable
  <2> QED
    BY <2>2, <2>3, <2>4, <2>5, <2>6
<1>2. c.receiver \in BOOLEAN
  BY DEF Typed, FactRecords
<1>3. CASE Note("receiver", "flow", c)
  <2>1. <<"receiver", "flow">> \in Followed
    BY DEF Followed
  <2> QED
    BY <1>3, <2>1, NothingNew
<1>4. CASE c.found = "unconfirmed" /\ Real /\ Note("receiver", "flow", [c EXCEPT !.found = "called", !.evidence = "import"])
  <2>1. [c EXCEPT !.found = "called", !.evidence = "import"]
          = [c EXCEPT !.found = "called", !.evidence = "import", !.receiver = c.receiver]
    BY DEF Typed, FactRecords
  <2> QED
    BY <1>1, <1>2, <1>4, <2>1
<1>5. CASE c.found = "unconfirmed" /\ ~Matches
           /\ Note("receiver", "flow", [c EXCEPT !.found = "absent", !.evidence = "none", !.receiver = TRUE])
  BY <1>1, <1>5
<1>6. CASE c.found = "unconfirmed" /\ Note("receiver", "flow", [c EXCEPT !.found = "absent", !.evidence = "none"])
  <2>1. [c EXCEPT !.found = "absent", !.evidence = "none"]
          = [c EXCEPT !.found = "absent", !.evidence = "none", !.receiver = c.receiver]
    BY DEF Typed, FactRecords
  <2> QED
    BY <1>1, <1>2, <1>6, <2>1
<1> QED
  BY <1>3, <1>4, <1>5, <1>6 DEF Receiver, Disproves, Matches, Configured

\* Input that is found flows into the call; none is said where none was seen to.
LEMMA FlowTells == ASSUME Typed, Told, Flow PROVE Typed' /\ Told'
<1>1. PICK answer \in {"open", FlowAnswer} :
        /\ answer = "open" \/ c.found \in {"called", "tests"}
        /\ Note("flow", "reach", [c EXCEPT !.flow = Withdrawn(IF x.reached THEN "found" ELSE answer)])
  BY DEF Flow
<1> DEFINE flow == Withdrawn(IF x.reached THEN "found" ELSE answer)
<1>2. flow \in {"open", "found", "absent"}
  BY DEF Withdrawn, FlowAnswer
<1>3. flow = "found" => w.input = "flows" /\ (x.through = Flawed => Calls(w, Flawed))
  BY <1>1 DEF Withdrawn, FlowAnswer, Told, TellsInput, TellsCalls, Calls
<1>4. flow = "absent" => w.input # "reads" /\ (w.input # "flows" \/ w.own[x.through] = "tests")
  BY <1>1 DEF Withdrawn, FlowAnswer
<1>5. Note("flow", "reach", [c EXCEPT !.flow = flow])
  BY <1>1
<1> HIDE DEF flow
<1> USE <1>2, <1>5 DEF Told, Note, Step, Typed, FactRecords
<1>6. Typed'
  <2>1. [c EXCEPT !.flow = flow] \in FactRecords
    OBVIOUS
  <2> QED
    BY <2>1, NoteTyped
<1>7. TellsInput'
  BY <1>3, <1>4 DEF TellsInput, TellsLittle, Calls
<1>8. TellsLittle' /\ TellsCalls' /\ TellsAudit'
  BY DEF TellsLittle, Unsearched, TellsCalls, Matches, Real, TellsAudit
<1>9. TellsVersion' /\ TellsProject'
  BY DEF TellsVersion, TellsProject
<1>9a. TellsSymbol' /\ TellsGraph'
  BY DEF TellsSymbol, TellsGraph, Lowered
<1>10. TellsBridge' /\ TellsClaim' /\ TellsUse'
  BY DEF TellsBridge, TellsClaim, CommonName, Reopened, ReopenedBySelf, TellsUse, NotNamed, Nameable
<1> QED
  BY <1>6, <1>7, <1>8, <1>9, <1>9a, <1>10

\* The way from an entry point is asked for only where a call has no flow.
LEMMA ReachTells == ASSUME Typed, Told, Reach PROVE Typed' /\ Told'
<1>1. CASE Note("reach", "condition", c)
  <2>1. <<"reach", "condition">> \in Followed
    BY DEF Followed
  <2> QED
    BY <1>1, <2>1, NothingNew
<1>2. CASE c.found = "called" /\ c.driven /\ c.flow = "open" /\ Note("reach", "condition", [c EXCEPT !.reach = TRUE])
  <2> USE <1>2 DEF Told, Note, Step, Typed, FactRecords
  <2>1. Typed'
    <3>1. [c EXCEPT !.reach = TRUE] \in FactRecords
      OBVIOUS
    <3> QED
      BY <3>1, NoteTyped
  <2>2. TellsLittle' /\ TellsCalls' /\ TellsAudit' /\ TellsInput'
    BY DEF TellsLittle, Unsearched, TellsCalls, Matches, Real, TellsAudit, TellsInput
  <2>3. TellsVersion' /\ TellsProject'
    BY DEF TellsVersion, TellsProject
  <2>4. TellsSymbol' /\ TellsGraph'
    BY DEF TellsSymbol, TellsGraph, Lowered
  <2>5. TellsBridge' /\ TellsClaim' /\ TellsUse'
    BY DEF TellsBridge, TellsClaim, CommonName, Reopened, ReopenedBySelf, TellsUse, NotNamed, Nameable
  <2> QED
    BY <2>1, <2>2, <2>3, <2>4, <2>5
<1> QED
  BY <1>1, <1>2 DEF Reach

\* A condition is absent where the code or the deployment does not meet it.
LEMMA ConditionTells == ASSUME Typed, Told, Condition PROVE Typed' /\ Told'
<1>1. PICK answer \in ConditionAnswers, says \in BOOLEAN :
        Note("condition", "usage",
             [c EXCEPT !.condition = answer,
                       !.gadget = @ \/ (says /\ answer # "none" /\ w.gadget = "condition")])
  BY DEF Condition
<1> DEFINE gadget == c.gadget \/ (says /\ answer # "none" /\ w.gadget = "condition")
<1>1a. Note("condition", "usage", [c EXCEPT !.condition = answer, !.gadget = gadget]) /\ gadget \in BOOLEAN
  BY <1>1 DEF Typed, FactRecords
<1>2. /\ answer \in {"none", "holds", "text_absent", "absent", "infrastructure", "external"}
      /\ answer \in {"absent", "infrastructure"} => w.condition # "none" /\ ~w.met
  <2>1. w.condition \in {"none", "text", "detector", "external"}
    BY WorldIs DEF World
  <2>2. CASE ~x.symbol.condition
    BY <2>2 DEF ConditionAnswers
  <2>3. CASE x.symbol.condition /\ w.condition = "none"
    BY <2>3 DEF ConditionAnswers
  <2>4. CASE x.symbol.condition /\ w.condition = "text"
    BY <2>4 DEF ConditionAnswers
  <2>5. CASE x.symbol.condition /\ w.condition = "detector"
    BY <2>5 DEF ConditionAnswers
  <2>6. CASE x.symbol.condition /\ w.condition = "external"
    BY <2>6 DEF ConditionAnswers, DeploymentAnswers
  <2> QED
    BY <2>1, <2>2, <2>3, <2>4, <2>5, <2>6
<1> HIDE DEF gadget
<1>3. Typed'
  <2>1. [c EXCEPT !.condition = answer, !.gadget = gadget] \in FactRecords
    BY <1>1a, <1>2, ReadIs DEF Typed
  <2> QED
    BY <1>1a, <2>1, NoteTyped
<1> USE <1>1a, <1>2 DEF Told, Note, Step, Typed, FactRecords
<1>4. TellsInput'
  BY DEF TellsInput
<1>5. TellsLittle' /\ TellsCalls' /\ TellsAudit'
  BY DEF TellsLittle, Unsearched, TellsCalls, Matches, Real, TellsAudit
<1>6. TellsVersion' /\ TellsProject' /\ TellsSymbol' /\ TellsGraph'
  BY DEF TellsVersion, TellsProject, TellsSymbol, TellsGraph, Lowered
<1>7. TellsBridge' /\ TellsClaim' /\ TellsUse'
  BY DEF TellsBridge, TellsClaim, CommonName, Reopened, ReopenedBySelf, TellsUse, NotNamed, Nameable
<1> QED
  BY <1>3, <1>4, <1>5, <1>6, <1>7

\* What is said of a package that is not named, or not by the advisory's path.
LEMMA UsageIs ==
  ASSUME NEW p
  PROVE  /\ Opened(Usage(p)) \in {"yes", "no", "tests", "open"}
         /\ Opened(Usage(p)) \in {"no", "tests"} => ~w.framework /\ (~Nameable(p) \/ p \notin w.g.imports)
<1>1. Usage(p) \in {"yes", "no", "tests"} /\ (Usage(p) \in {"no", "tests"} => ~Nameable(p) \/ p \notin w.g.imports)
  BY DEF Usage, TextUsage
<1> DEFINE used == Usage(p)
<1> HIDE DEF used
<1> QED
  BY <1>1 DEF Opened, used

\* The advisory's path has one of four answers.
LEMMA PathIs ==
  ASSUME NEW paths
  PROVE  /\ Opened(PathUsed(paths)) \in {"unlisted", "imported", "absent", "open"}
         /\ Opened(PathUsed(paths)) = "absent" => ~w.framework /\ Flawed \notin w.g.imports
         /\ Opened(PathUsed(paths)) \in {"imported", "absent"} => PathUsed(paths) = Opened(PathUsed(paths))
BY DEF Opened, PathUsed

\* A package is not named only where no framework names it.
LEMMA UsageTells == ASSUME Typed, Told, UsageStep PROVE Typed' /\ Told'
<1> DEFINE settled == c.receiver \/ c.shipped = "build_only"
           listed  == PathUsed(x.symbol.paths)
           asked   == IF settled /\ listed # "unlisted" THEN "open" ELSE listed
           path    == Opened(asked)
           used    == IF settled \/ (c.direct /\ asked \in {"imported", "absent"}) THEN "open"
                      ELSE Opened(Usage(x.through))
<1>1. Note("usage", "audit", [c EXCEPT !.path = path, !.used = used])
  BY DEF UsageStep, UsageOf
<1>2. c.direct => x.through = Flawed
  BY DEF Told, TellsBridge
<1>3. Opened("open") = "open"
  BY DEF Opened
<1>4. /\ path \in {"unlisted", "imported", "absent", "open"}
      /\ path = "absent" => ~w.framework /\ Flawed \notin w.g.imports
      /\ path \in {"imported", "absent"} => path = asked
  BY <1>3, PathIs
<1>5. /\ used \in {"yes", "no", "tests", "open"}
      /\ used \in {"no", "tests"} => ~w.framework /\ (~Nameable(x.through) \/ x.through \notin w.g.imports)
      /\ c.direct /\ asked \in {"imported", "absent"} => used = "open"
  BY UsageIs
<1> HIDE DEF settled, listed, asked, path, used
<1>6. NotNamed(path, used)
  BY <1>2, <1>4, <1>5 DEF NotNamed
<1> USE <1>1, <1>4, <1>5 DEF Told, Note, Step, Typed, FactRecords
<1>7. Typed'
  <2>1. [c EXCEPT !.path = path, !.used = used] \in FactRecords
    <3> DEFINE half == [c EXCEPT !.path = path]
    <3>1. half \in FactRecords
      OBVIOUS
    <3> HIDE DEF half
    <3>2. [half EXCEPT !.used = used] \in FactRecords
      BY <3>1
    <3> QED
      BY <3>2 DEF half
  <2> QED
    BY <2>1, NoteTyped
<1>8. TellsUse'
  BY <1>6 DEF TellsUse, NotNamed, Nameable
<1>9. TellsLittle' /\ TellsCalls' /\ TellsAudit'
  BY DEF TellsLittle, Unsearched, TellsCalls, Matches, Real, TellsAudit
<1>10. TellsVersion' /\ TellsProject'
  BY DEF TellsVersion, TellsProject
<1>11. TellsSymbol' /\ TellsGraph'
  BY DEF TellsSymbol, TellsGraph, Lowered
<1>12. TellsBridge' /\ TellsClaim' /\ TellsInput'
  BY DEF TellsBridge, TellsClaim, CommonName, Reopened, ReopenedBySelf, TellsInput
<1> QED
  BY <1>7, <1>8, <1>9, <1>10, <1>11, <1>12

\* The check of the blind spot passes no call it cannot see, unless the profile skips it.
LEMMA AuditTells == ASSUME Typed, Told, Audit PROVE Typed' /\ Told'
<1> DEFINE kind == Rechecked(c)
<1>1. CASE Note("audit", "decide", c)
  <2>1. <<"audit", "decide">> \in Followed
    BY DEF Followed
  <2> QED
    BY <1>1, <2>1, NothingNew
<1>2. CASE kind \notin {"none", "not_reached"}
           /\ \E answer \in AuditAnswers(kind) : Note("audit", "decide", [c EXCEPT !.audit = answer])
  <2>1. PICK answer \in AuditAnswers(kind) : Note("audit", "decide", [c EXCEPT !.audit = answer])
    BY <1>2
  <2>2. /\ answer \in {"passed", "reopened", "failed"}
        /\ answer = "passed" /\ w.hidden => kind \in s.skip
    BY DEF AuditAnswers
  <2>3. Rechecked([c EXCEPT !.audit = answer]) = kind
    BY DEF Rechecked, Typed, FactRecords
  <2> HIDE DEF kind
  <2> USE <2>1, <2>2 DEF Told, Note, Step, Typed, FactRecords
  <2>4. Typed'
    <3>1. [c EXCEPT !.audit = answer] \in FactRecords
      OBVIOUS
    <3> QED
      BY <3>1, NoteTyped
  <2>5. TellsAudit'
    BY <2>3 DEF TellsAudit
  <2>6. TellsLittle' /\ TellsCalls' /\ TellsUse'
    BY DEF TellsLittle, Unsearched, TellsCalls, Matches, Real, TellsUse, NotNamed, Nameable
  <2>7. TellsVersion' /\ TellsProject'
    BY DEF TellsVersion, TellsProject
  <2>8. TellsSymbol' /\ TellsGraph'
    BY DEF TellsSymbol, TellsGraph, Lowered
  <2>9. TellsBridge' /\ TellsClaim' /\ TellsInput'
    BY DEF TellsBridge, TellsClaim, CommonName, Reopened, ReopenedBySelf, TellsInput
  <2> QED
    BY <2>4, <2>5, <2>6, <2>7, <2>8, <2>9
<1> QED
  BY <1>1, <1>2 DEF Audit

\* The conclusion changes no fact.
LEMMA ConcludeTells == ASSUME Typed, Told, Conclude PROVE Typed' /\ Told'
BY EndTells DEF Conclude

\* At the start nothing is known but the project.
LEMMA InitTells == ASSUME Init PROVE Typed /\ Told
<1> USE DEF Init, Facts0, Locals0, Told
<1>1. World(w) /\ w \in Worlds /\ s \in Setups
  BY ChainAssumption
<1>2. Typed
  <2>1. c \in FactRecords
    BY <1>1 DEF World, FactRecords
  <2>2. x \in Locals(w)
    BY <1>1, NoSymbolIs DEF World, Locals
  <2> QED
    BY <1>1, <2>1, <2>2 DEF Typed
<1>3. TellsSymbol
  BY NoSymbolIs DEF TellsSymbol, NoSymbol, Usable
<1>4. TellsLittle /\ TellsProject /\ TellsVersion /\ TellsGraph /\ TellsBridge
  BY DEF TellsLittle, TellsProject, TellsVersion, TellsGraph, TellsBridge
<1>5. TellsCalls /\ TellsClaim /\ TellsInput /\ TellsUse /\ TellsAudit
  BY DEF TellsCalls, TellsClaim, TellsInput, TellsUse, NotNamed, TellsAudit
<1> QED
  BY <1>2, <1>3, <1>4, <1>5

\* A step that changes nothing tells nothing.
LEMMA StutterTells == ASSUME Typed, Told, UNCHANGED vars PROVE Typed' /\ Told'
<1> USE DEF vars, Told
<1>1. Typed'
  BY DEF Typed
<1>2. TellsLittle' /\ TellsProject' /\ TellsVersion' /\ TellsGraph' /\ TellsSymbol' /\ TellsBridge'
  BY DEF TellsLittle, TellsProject, TellsVersion, TellsGraph, Lowered, TellsSymbol, TellsBridge
<1>3. TellsCalls' /\ TellsClaim' /\ TellsInput' /\ TellsUse' /\ TellsAudit'
  BY DEF TellsCalls, Matches, Real, TellsClaim, CommonName, Reopened, ReopenedBySelf, TellsInput, TellsUse, NotNamed,
         Nameable, TellsAudit
<1> QED
  BY <1>1, <1>2, <1>3

\* The invariant without its conclusions is inductive by itself.
LEMMA NextTells == ASSUME Typed, Told, [Next]_vars PROVE Typed' /\ Told'
BY CallGraphTells, VersionStepTells, ShipTells, ExcludeTells, ResolveTells, CallSiteTells, AskBridgeTells,
   InvestigateTells, SearchTells, LastResortTells, EntryCheckTells, InvisibleTells, ReceiverTells, FlowTells,
   ReachTells, ConditionTells, UsageTells, AuditTells, ConcludeTells, StutterTells DEF Next, Done

-----------------------------------------------------------------------------
(* How the chain ended: what result there is, and from which facts. *)

Judged == [c EXCEPT !.bound = c.named /\ x.matched # "none" /\ Bound,
                    !.resolved = ~TextRoute \/ c.evidence \in {"import", "engine"}]

Unaffected(build, gadget) ==
  Unplaced([c EXCEPT !.version = "unaffected", !.build = build, !.gadget = gadget])
ByVersion ==
  /\ \E build \in BOOLEAN, gadget \in BOOLEAN :
       /\ result = <<[outcome |-> "version_unaffected", facts |-> Unaffected(build, gadget)]>>
       /\ build => w.build # "no"
  /\ ~Affected(w.adv, w.version)
ByOwner ==
  /\ result = <<[outcome |-> "infrastructure", facts |-> Unplaced([c EXCEPT !.excluded = TRUE])]>>
  /\ w.excluded
ByScripts(seen) ==
  /\ result = <<[outcome |-> Early(seen), facts |-> [Unasked(seen) EXCEPT !.audit = "passed"]]>>
  /\ Early(seen) # "none" /\ s.final
  /\ seen \in FactRecords /\ NotNamed(seen.path, seen.used)
  /\ seen = [c EXCEPT !.shipped = seen.shipped, !.path = seen.path, !.used = seen.used]
  /\ seen.shipped = Shipped(w.g, Flawed)
  /\ c.version = "affected" => Affected(w.adv, w.version)
ByDecision ==
  /\ result = <<[outcome |-> Decide(Judged), facts |-> Judged]>>
  /\ c.version = "affected" => Affected(w.adv, w.version)

Ending == result # << >> => \/ ByVersion \/ ByOwner \/ ByDecision
                            \/ \E seen \in FactRecords : ByScripts(seen)

\* There is no result before the end,
LEMMA NotEnding == ASSUME Typed, pc # "done", result' = result PROVE Ending'
BY DEF Typed, Ending

\* and afterwards it stays.
LEMMA StutterEnds == ASSUME Ending, UNCHANGED vars PROVE Ending'
<1> USE DEF vars
<1>1. (ByVersion => ByVersion') /\ ByOwner' = ByOwner
  BY DEF ByVersion, ByOwner, Unaffected
<1>2. Judged' = Judged
  BY DEF Judged, Bound, TextRoute, Entries
<1>3. ByDecision' = ByDecision
  BY <1>2 DEF ByDecision
<1>4. ASSUME NEW seen PROVE ByScripts(seen)' = ByScripts(seen)
  BY DEF ByScripts, NotNamed, Nameable
<1> QED
  BY <1>1, <1>3, <1>4 DEF Ending

\* The chain ends by the version,
LEMMA VersionEnds == ASSUME Typed, Told, Version PROVE Ending'
<1>1. PICK answered \in SUBSET Databases :
        LET state == IF Whole(w, answered) # {} THEN VersionState(w.adv, w.version) ELSE "unclear"
            read  == [c EXCEPT !.version = state, !.build = IsBuildRisk(answered),
                               !.gadget = NeedsOther(answered)] IN
        IF state = "unaffected"
          THEN End("advisory", "version_unaffected", Unplaced(read))
          ELSE /\ Step("advisory", "ship") /\ c' = read
               /\ x' = [x EXCEPT !.a = Known(w, answered)] /\ UNCHANGED result
  BY DEF Version
<1> DEFINE state == IF Whole(w, answered) # {} THEN VersionState(w.adv, w.version) ELSE "unclear"
           build == IsBuildRisk(answered)
           gadget == NeedsOther(answered)
<1>2. state = "unaffected" => ~Affected(w.adv, w.version)
  BY WorldIs, VersionTells DEF World
<1>3. CASE state = "unaffected"
  <2>1. End("advisory", "version_unaffected", Unaffected(build, gadget))
    BY <1>1, <1>3 DEF Unaffected
  <2>2. build \in BOOLEAN /\ gadget \in BOOLEAN /\ (build => w.build # "no")
    BY DEF IsBuildRisk, NeedsOther, TextRead
  <2> HIDE DEF build, gadget
  <2>3. PICK b \in BOOLEAN, d \in BOOLEAN :
          End("advisory", "version_unaffected", Unaffected(b, d)) /\ (b => w.build # "no")
    BY <2>1, <2>2
  <2>4. /\ result' = <<[outcome |-> "version_unaffected", facts |-> Unaffected(b, d)]>>
        /\ w' = w /\ c' = c
    BY <2>3 DEF End, Step
  <2>5. Unaffected(b, d)' = Unaffected(b, d)
    BY <2>4 DEF Unaffected
  <2>6. ByVersion'
    BY <1>2, <1>3, <2>3, <2>4, <2>5 DEF ByVersion
  <2> QED
    BY <2>6 DEF Ending
<1>4. CASE state # "unaffected"
  <2>1. pc # "done" /\ result' = result
    BY <1>1, <1>4 DEF Step
  <2> QED
    BY <2>1, NotEnding
<1> QED
  BY <1>3, <1>4

\* by the scripts,
LEMMA ShipEnds == ASSUME Typed, Told, Ship PROVE Ending'
<1> DEFINE placed == [c EXCEPT !.shipped = Shipped(w.g, Flawed)]
           path   == Opened(PathUsed(x.a.paths))
           used   == IF path \in {"imported", "absent"} THEN "open" ELSE Opened(Usage(Flawed))
           seen   == [placed EXCEPT !.path = path, !.used = used]
<1>1. CASE s.final /\ Early(seen) # "none" /\ End("ship", Early(seen), [Unasked(seen) EXCEPT !.audit = "passed"])
  <2>1. /\ path \in {"unlisted", "imported", "absent", "open"}
        /\ path = "absent" => ~w.framework /\ Flawed \notin w.g.imports
    BY PathIs
  <2> HIDE DEF path
  <2>2. /\ used \in {"yes", "no", "tests", "open"}
        /\ used \in {"no", "tests"} => ~w.framework /\ (~Nameable(Flawed) \/ Flawed \notin w.g.imports)
        /\ path \in {"imported", "absent"} => used = "open"
    BY UsageIs
  <2> HIDE DEF used
  <2>3. NotNamed(path, used)
    BY <2>1, <2>2 DEF NotNamed
  <2> DEFINE value == Shipped(w.g, Flawed)
  <2>4. value \in {"unknown", "runtime", "build_only", "image_only"}
    BY ShippedIs
  <2> HIDE DEF value
  <2>5. placed \in FactRecords
    BY <2>4 DEF Typed, FactRecords, value
  <2> HIDE DEF placed
  <2>6. seen \in FactRecords /\ seen.path = path /\ seen.used = used /\ seen.shipped = placed.shipped
    <3> DEFINE half == [placed EXCEPT !.path = path]
    <3>1. half \in FactRecords /\ half.path = path /\ half.shipped = placed.shipped
      BY <2>1, <2>5 DEF FactRecords
    <3>2. seen = [half EXCEPT !.used = used]
      BY <2>5 DEF FactRecords
    <3> HIDE DEF half, seen
    <3> QED
      BY <2>2, <3>1, <3>2 DEF FactRecords
  <2>7. placed.shipped = value /\ seen = [c EXCEPT !.shipped = value, !.path = path, !.used = used]
    BY DEF placed, value, Typed, FactRecords
  <2> HIDE DEF seen
  <2>8. PICK now \in FactRecords : now = seen
    BY <2>6
  <2>9. /\ result' = <<[outcome |-> Early(now), facts |-> [Unasked(now) EXCEPT !.audit = "passed"]]>>
        /\ Early(now) # "none" /\ s' = s /\ s.final /\ c' = c /\ w' = w
    BY <1>1, <2>8 DEF End, Step
  <2>9a. c.version = "affected" => Affected(w.adv, w.version)
    BY <1>1 DEF End, Step, Told, TellsVersion
  <2>10. /\ NotNamed(now.path, now.used) /\ now.shipped = Shipped(w.g, Flawed)
         /\ now = [c EXCEPT !.shipped = now.shipped, !.path = now.path, !.used = now.used]
    BY <2>3, <2>6, <2>7, <2>8 DEF value
  <2>11. ByScripts(now)'
    BY <2>9, <2>9a, <2>10 DEF ByScripts, NotNamed, Nameable
  <2> QED
    BY <2>11 DEF Ending
<1>2. CASE Note("ship", "exclude", placed)
  BY <1>2, NotEnding DEF Note, Step
<1> QED
  BY <1>1, <1>2 DEF Ship

\* by the deployment,
LEMMA ExcludeEnds == ASSUME Typed, Told, Exclude PROVE Ending'
<1>1. CASE w.excluded /\ End("exclude", "infrastructure", Unplaced([c EXCEPT !.excluded = TRUE]))
  <2>1. ByOwner'
    BY <1>1 DEF End, Step, ByOwner
  <2> QED
    BY <2>1 DEF Ending
<1>2. CASE Note("exclude", "resolve", c)
  BY <1>2, NotEnding DEF Note, Step
<1> QED
  BY <1>1, <1>2 DEF Exclude

\* by decide,
LEMMA ConcludeEnds == ASSUME Typed, Told, Conclude PROVE Ending'
<1>1. End("decide", Decide(Judged), Judged) /\ pc = "decide"
  BY DEF Conclude, Judged
<1>2. Judged' = Judged
  BY <1>1 DEF End, Step, Judged, Bound, TextRoute, Entries
<1>3. c.version = "affected" => Affected(w.adv, w.version)
  BY <1>1 DEF Told, TellsVersion
<1>4. ByDecision'
  BY <1>1, <1>2, <1>3 DEF End, Step, ByDecision
<1> QED
  BY <1>4 DEF Ending

\* and by no other step.
LEMMA OthersEnd ==
  ASSUME Typed,
         CallGraph \/ Resolve \/ CallSite \/ AskBridge \/ Investigate \/ Search \/ LastResort \/ EntryCheck
         \/ Invisible \/ Receiver \/ Flow \/ Reach \/ Condition \/ UsageStep \/ Audit
  PROVE  Ending'
<1>1. CASE CallGraph \/ Resolve \/ CallSite \/ AskBridge \/ Invisible
  BY <1>1, NotEnding DEF CallGraph, Resolve, CallSite, AskBridge, Invisible, Note, Step
<1>2. CASE Investigate
  BY <1>2, NotEnding DEF Investigate, Find, Note, Step
<1>3. CASE Search \/ LastResort \/ EntryCheck
  BY <1>3, NotEnding DEF Search, LastResort, EntryCheck, Looks, Find, Note, Step
<1>4. CASE Receiver \/ Reach \/ Audit
  BY <1>4, NotEnding DEF Receiver, Reach, Audit, Note, Step
<1>5. CASE Flow \/ Condition \/ UsageStep
  BY <1>5, NotEnding DEF Flow, Condition, UsageStep, Note, Step
<1> QED
  BY <1>1, <1>2, <1>3, <1>4, <1>5

\* So every result has one of the four forms.
LEMMA NextEnds == ASSUME Typed, Told, Ending, [Next]_vars PROVE Ending'
BY VersionEnds, ShipEnds, ExcludeEnds, ConcludeEnds, OthersEnd, StutterEnds DEF Next, Done

-----------------------------------------------------------------------------
(* What an outcome and a label say of the facts they come from. *)

\* A closure of verdict.decide is one of what it was closed for.
LEMMA DecideSays ==
  ASSUME NEW f \in FactRecords, NEW o, o = Decide(f)
  PROVE  /\ o # "version_unaffected"
         /\ o = "not_shipped" => f.shipped = "build_only"
         /\ o = "unused" => f.direct /\ (f.path = "absent" \/ f.used \in {"no", "tests"})
         /\ o = "test_only_import" => f.direct /\ f.used = "tests"
         /\ o = "condition_absent" => \/ f.graph = "lowered" \/ (f.flow = "absent" /\ f.driven)
                                      \/ f.condition = "absent"
         /\ o = "only_in_tests" => f.found = "tests"
         /\ o = "not_applicable" => f.symbol = "undistributed"
         /\ o = "wrong_receiver" => f.receiver
         /\ o = "not_reached" => f.graph = "unreached"
         /\ o = "not_called" => f.uncalled
<1> DEFINE o2 == BySymbol(f)
<1>1. /\ o2 \notin {"version_unaffected", "not_shipped", "unused", "test_only_import", "condition_absent",
                    "wrong_receiver", "not_reached"}
      /\ o2 = "only_in_tests" => f.found = "tests"
      /\ o2 = "not_applicable" => f.symbol = "undistributed"
      /\ o2 = "not_called" => f.uncalled
  BY DEF BySymbol, Closing
<1> DEFINE o3 == ByCondition(f)
<1>2. /\ o3 \notin {"version_unaffected", "not_shipped", "unused", "test_only_import",
                    "wrong_receiver", "not_reached"}
      /\ o3 = "condition_absent" => f.condition = "absent"
      /\ o3 = "only_in_tests" => f.found = "tests"
      /\ o3 = "not_applicable" => f.symbol = "undistributed"
      /\ o3 = "not_called" => f.uncalled
  <2> HIDE DEF o2
  <2>1. o3 \in {"not_called", "present", "condition_absent", "infrastructure", o2}
    BY DEF ByCondition, o2
  <2>2. o3 # o2 => /\ o3 = "not_called" => f.uncalled
                   /\ o3 = "condition_absent" => f.condition = "absent"
    BY DEF ByCondition, o2
  <2> QED
    BY <1>1, <2>1, <2>2
<1> DEFINE o4 == ByUsage(f)
<1>3. /\ o4 \notin {"version_unaffected", "not_shipped", "wrong_receiver", "not_reached"}
      /\ o4 = "unused" => f.direct /\ (f.path = "absent" \/ f.used \in {"no", "tests"})
      /\ o4 = "test_only_import" => f.direct /\ f.used = "tests"
      /\ o4 = "condition_absent" => (f.flow = "absent" /\ f.driven) \/ f.condition = "absent"
      /\ o4 = "only_in_tests" => f.found = "tests"
      /\ o4 = "not_applicable" => f.symbol = "undistributed"
      /\ o4 = "not_called" => f.uncalled
  <2> HIDE DEF o3
  <2>1. \/ o4 = o3 \/ o4 \in {"present", "actual", "no_direct_call"}
        \/ o4 = "test_only_import" /\ f.direct /\ f.used = "tests"
        \/ o4 = "condition_absent" /\ f.flow = "absent" /\ f.driven
        \/ o4 = "unused" /\ f.direct /\ (f.path = "absent" \/ f.used \in {"no", "tests"})
    BY DEF ByUsage, Closing, o3
  <2> QED
    BY <1>2, <2>1
<1>4. \/ o = o4 \/ o \in {"present", "actual"}
      \/ o = "not_reached" /\ f.graph = "unreached"
      \/ o = "condition_absent" /\ f.graph = "lowered"
      \/ o = "wrong_receiver" /\ f.receiver
      \/ o = "not_shipped" /\ f.shipped = "build_only"
  BY DEF Decide, ByGraph, Closing, o4
<1> HIDE DEF o4
<1> QED
  BY <1>3, <1>4

\* And the closures that need their check have it, but "not called".
LEMMA DecideChecks ==
  ASSUME NEW f \in FactRecords, Decide(f) \in AuditGated \ {"not_called"}
  PROVE  f.audit = "passed"
<1> USE DEF AuditGated, Closing, Audited
<1>1. BySymbol(f) \notin AuditGated \ {"not_called"}
  BY DEF BySymbol
<1>2. ByCondition(f) \notin AuditGated \ {"not_called"}
  BY <1>1 DEF ByCondition
<1>3. ByUsage(f) \in AuditGated \ {"not_called"} => f.audit = "passed"
  BY <1>2 DEF ByUsage
<1> QED
  BY <1>3 DEF Decide, ByGraph

\* What the scripts close by themselves is closed for the same reasons.
LEMMA EarlySays ==
  ASSUME NEW f \in FactRecords, Early(f) # "none"
  PROVE  /\ Early(f) \in {"not_reached", "not_shipped", "unused", "test_only_import"}
         /\ Early(f) = "not_reached" => f.graph = "unreached"
         /\ Early(f) = "not_shipped" => f.shipped = "build_only"
         /\ Early(f) = "unused" => f.direct /\ (f.path = "absent" \/ f.used \in {"no", "tests"})
         /\ Early(f) = "test_only_import" => f.direct /\ f.used = "tests"
BY DEF Early

\* What the policy closes.
Closing1 == {"unused", "condition_absent", "only_in_tests", "test_only_import", "not_applicable",
             "wrong_receiver", "not_reached", "not_called", "version_unaffected"}

\* A label "false positive" comes of how it ships, of the bridge, of a closing outcome, or of another
\* flaw that this one needs.
LEMMA PolicyCloses ==
  ASSUME NEW f \in FactRecords, NEW outcome \in Outcomes, NEW severity,
         Policy(outcome, f, severity).label = "false_positive"
  PROVE  \/ f.shipped \in {"image_only", "build_only"} \/ outcome = "not_shipped"
         \/ f.bridge = "no" \/ outcome \in Closing1
         \/ f.gadget /\ outcome \in ByModel
<1>1. ByExposure(outcome, f, severity).label = "false_positive" =>
        \/ f.bridge = "no" \/ outcome \in Closing1 \/ outcome = "not_shipped"
  BY DEF ByExposure, Rule, Closing1, Outcomes
<1>2. outcome \in Closing1 \cup ByModel \cup {"not_shipped"}
  BY DEF Closing1, ByModel, Outcomes
<1> QED
  BY <1>1, <1>2 DEF Policy, Rule, Closing1

\* What it confirms: input into the flaw, or a flaw of the build.
LEMMA PolicyConfirms ==
  ASSUME NEW f \in FactRecords, NEW outcome, NEW severity,
         Policy(outcome, f, severity).label = "confirmed"
  PROVE  /\ f.version # "unclear"
         /\ \/ outcome = "actual" /\ Proven(f)
            \/ f.build /\ (outcome = "not_shipped" \/ f.shipped \in {"build_only", "image_only"})
<1>1. ByExposure(outcome, f, severity).label # "confirmed"
  BY DEF ByExposure, Rule
<1> QED
  BY <1>1 DEF Policy, Rule

\* It gives one of the outcomes.
LEMMA DecideIs == ASSUME NEW f \in FactRecords PROVE Decide(f) \in Outcomes
<1>1. BySymbol(f) \in Outcomes
  BY DEF BySymbol, Closing, Outcomes
<1>2. ByCondition(f) \in Outcomes
  BY <1>1 DEF ByCondition, Outcomes
<1>3. ByUsage(f) \in Outcomes
  BY <1>2 DEF ByUsage, Closing, Outcomes
<1> QED
  BY <1>3 DEF Decide, ByGraph, Closing, Outcomes

-----------------------------------------------------------------------------
(* The facts a chain ends with. *)

\* What is taken back leaves a record of facts.
LEMMA TakenBack ==
  ASSUME NEW f \in FactRecords
  PROVE  /\ [f EXCEPT !.condition = "none"] \in FactRecords
         /\ [f EXCEPT !.missing = FALSE] \in FactRecords
         /\ [f EXCEPT !.named = FALSE] \in FactRecords
         /\ [f EXCEPT !.bound = FALSE] \in FactRecords
         /\ [f EXCEPT !.flow = "open"] \in FactRecords
         /\ [f EXCEPT !.receiver = FALSE] \in FactRecords
         /\ [f EXCEPT !.evidence = "none"] \in FactRecords
         /\ [f EXCEPT !.bridge = "none"] \in FactRecords
         /\ [f EXCEPT !.resolved = TRUE] \in FactRecords
         /\ [f EXCEPT !.version = "affected"] \in FactRecords
         /\ [f EXCEPT !.shipped = "unknown"] \in FactRecords
         /\ [f EXCEPT !.graph = "none"] \in FactRecords
         /\ [f EXCEPT !.go = FALSE] \in FactRecords
         /\ [f EXCEPT !.audit = "passed"] \in FactRecords
<1>1. [f EXCEPT !.condition = "none"] \in FactRecords
  BY DEF FactRecords
<1>2. [f EXCEPT !.missing = FALSE] \in FactRecords
  BY DEF FactRecords
<1>3. [f EXCEPT !.named = FALSE] \in FactRecords
  BY DEF FactRecords
<1>4. [f EXCEPT !.bound = FALSE] \in FactRecords
  BY DEF FactRecords
<1>5. [f EXCEPT !.flow = "open"] \in FactRecords
  BY DEF FactRecords
<1>6. [f EXCEPT !.receiver = FALSE] \in FactRecords
  BY DEF FactRecords
<1>7. [f EXCEPT !.evidence = "none"] \in FactRecords
  BY DEF FactRecords
<1>8. [f EXCEPT !.bridge = "none"] \in FactRecords
  BY DEF FactRecords
<1>9. [f EXCEPT !.resolved = TRUE] \in FactRecords
  BY DEF FactRecords
<1>10. [f EXCEPT !.version = "affected"] \in FactRecords
  BY DEF FactRecords
<1>11. [f EXCEPT !.shipped = "unknown"] \in FactRecords
  BY DEF FactRecords
<1>12. [f EXCEPT !.graph = "none"] \in FactRecords
  BY DEF FactRecords
<1>13. [f EXCEPT !.go = FALSE] \in FactRecords
  BY DEF FactRecords
<1>14. [f EXCEPT !.audit = "passed"] \in FactRecords
  BY DEF FactRecords
<1> QED
  BY <1>1, <1>2, <1>3, <1>4, <1>5, <1>6, <1>7, <1>8, <1>9, <1>10, <1>11, <1>12, <1>13, <1>14

\* All that an early end takes back.
LEMMA UnaskedIs ==
  ASSUME NEW f \in FactRecords
  PROVE  Unasked(f) \in FactRecords /\ Unplaced(f) \in FactRecords
<1> DEFINE u1 == [f EXCEPT !.condition = "none"]
           u2 == [u1 EXCEPT !.missing = FALSE]
           u3 == [u2 EXCEPT !.named = FALSE]
           u4 == [u3 EXCEPT !.bound = FALSE]
           u5 == [u4 EXCEPT !.flow = "open"]
           u6 == [u5 EXCEPT !.receiver = FALSE]
           u7 == [u6 EXCEPT !.evidence = "none"]
           u8 == [u7 EXCEPT !.bridge = "none"]
           u9 == [u8 EXCEPT !.resolved = TRUE]
<1>1. u1 \in FactRecords
  BY TakenBack
<1> HIDE DEF u1
<1>2. u2 \in FactRecords
  BY <1>1, TakenBack
<1> HIDE DEF u2
<1>3. u3 \in FactRecords
  BY <1>2, TakenBack
<1> HIDE DEF u3
<1>4. u4 \in FactRecords
  BY <1>3, TakenBack
<1> HIDE DEF u4
<1>5. u5 \in FactRecords
  BY <1>4, TakenBack
<1> HIDE DEF u5
<1>6. u6 \in FactRecords
  BY <1>5, TakenBack
<1> HIDE DEF u6
<1>7. u7 \in FactRecords
  BY <1>6, TakenBack
<1> HIDE DEF u7
<1>8. u8 \in FactRecords
  BY <1>7, TakenBack
<1> HIDE DEF u8
<1>9. u9 \in FactRecords
  BY <1>8, TakenBack
<1> HIDE DEF u9
<1>10. Unasked(f) \in FactRecords
  BY <1>9 DEF Unasked, u1, u2, u3, u4, u5, u6, u7, u8, u9
<1>11. ASSUME NEW u \in FactRecords
       PROVE  [u EXCEPT !.version = "affected", !.shipped = "unknown", !.graph = "none", !.go = FALSE]
                \in FactRecords
  <2> DEFINE v1 == [u EXCEPT !.version = "affected"]
             v2 == [v1 EXCEPT !.shipped = "unknown"]
             v3 == [v2 EXCEPT !.graph = "none"]
  <2>1. v1 \in FactRecords
    BY <1>11, TakenBack
  <2> HIDE DEF v1
  <2>2. v2 \in FactRecords
    BY <2>1, TakenBack
  <2> HIDE DEF v2
  <2>3. v3 \in FactRecords
    BY <2>2, TakenBack
  <2> HIDE DEF v3
  <2>4. [v3 EXCEPT !.go = FALSE] \in FactRecords
    BY <2>3, TakenBack
  <2> QED
    BY <2>4 DEF v1, v2, v3
<1> QED
  BY <1>10, <1>11 DEF Unplaced

\* What decide is given: the facts gathered, and whether the name and the text hold.
LEMMA JudgedIs ==
  ASSUME Typed
  PROVE  /\ Judged \in FactRecords
         /\ Judged = [c EXCEPT !.bound = Judged.bound, !.resolved = Judged.resolved]
         /\ Judged.bound = (c.named /\ x.matched # "none" /\ Bound)
<1> DEFINE b == c.named /\ x.matched # "none" /\ Bound
           r == ~TextRoute \/ c.evidence \in {"import", "engine"}
<1>1. c \in FactRecords
  BY DEF Typed
<1>2. c.named \in BOOLEAN
  BY <1>1 DEF FactRecords
<1>3. b \in BOOLEAN
  BY <1>2
<1>4. r \in BOOLEAN
  OBVIOUS
<1>5. Judged = [c EXCEPT !.bound = b, !.resolved = r]
  BY DEF Judged
<1> HIDE DEF b, r
<1>6. ASSUME NEW y \in FactRecords, NEW p \in BOOLEAN, NEW q \in BOOLEAN
      PROVE  /\ [y EXCEPT !.bound = p, !.resolved = q] \in FactRecords
             /\ [y EXCEPT !.bound = p, !.resolved = q].bound = p
             /\ [y EXCEPT !.bound = p, !.resolved = q].resolved = q
  <2>1. [y EXCEPT !.bound = p, !.resolved = q] \in FactRecords
    BY <1>6 DEF FactRecords
  <2>2. [y EXCEPT !.bound = p, !.resolved = q].bound = p
    BY <1>6 DEF FactRecords
  <2>3. [y EXCEPT !.bound = p, !.resolved = q].resolved = q
    BY <1>6 DEF FactRecords
  <2> QED
    BY <2>1, <2>2, <2>3
<1>7. Judged \in FactRecords /\ Judged.bound = b /\ Judged.resolved = r
  BY <1>1, <1>3, <1>4, <1>5, <1>6
<1> QED
  BY <1>5, <1>7 DEF b, r

\* They agree with one another,
LEMMA JudgedAgree ==
  ASSUME Typed, Told PROVE Agree(Judged)
<1>1. c \in FactRecords /\ Judged = [c EXCEPT !.bound = Judged.bound, !.resolved = Judged.resolved]
        /\ (Judged.bound => c.named)
  BY JudgedIs DEF Typed
<1> DEFINE b == Judged.bound
           r == Judged.resolved
<1>2. Judged = [c EXCEPT !.bound = b, !.resolved = r] /\ (b => c.named)
  BY <1>1
<1> HIDE DEF b, r
<1>3. /\ c.direct /\ c.path \in {"imported", "absent"} => c.used = "open"
      /\ c.reach => c.found = "called" /\ c.flow = "open" /\ c.driven
      /\ c.bridge # "none" => c.named /\ ~c.direct
      /\ c.bridge = "no" => c.found = "absent" /\ ~c.uncalled
      /\ c.found \in {"unsearched", "absent"} => c.evidence = "none"
      /\ c.go => c.graph # "none"
  BY DEF Told, TellsUse, NotNamed, TellsInput, TellsBridge, TellsCalls, TellsAudit
<1>4. c.named => c.symbol # "unusable"
  BY DEF Told, TellsSymbol, Usable
<1> QED
  BY <1>1, <1>2, <1>3, <1>4 DEF Agree, FactRecords

\* A version that is not affected: the facts of a chain that stops there,
LEMMA VersionSays ==
  ASSUME ByVersion
  PROVE  /\ result # << >> /\ result[1].outcome = "version_unaffected"
         /\ \E build \in BOOLEAN, gadget \in BOOLEAN :
              Facts1 = Unaffected(build, gadget) /\ (build => w.build # "no")
<1>1. PICK build \in BOOLEAN, gadget \in BOOLEAN :
        /\ result = <<[outcome |-> "version_unaffected", facts |-> Unaffected(build, gadget)]>>
        /\ build => w.build # "no"
  BY DEF ByVersion
<1>2. Facts1 = Unaffected(build, gadget) /\ result # << >> /\ result[1].outcome = "version_unaffected"
  BY <1>1 DEF Facts1
<1> QED
  BY <1>1, <1>2

\* which knows nothing of how the package ships, nor of a bridge.
LEMMA UnaffectedIs ==
  ASSUME Typed, Told, NEW build \in BOOLEAN, NEW gadget \in BOOLEAN
  PROVE  /\ Unaffected(build, gadget) \in FactRecords /\ Agree(Unaffected(build, gadget))
         /\ Unaffected(build, gadget).shipped = "unknown" /\ Unaffected(build, gadget).bridge = "none"
         /\ Unaffected(build, gadget).build = build
<1>1. c \in FactRecords
  BY DEF Typed
<1>2. /\ c.direct /\ c.path \in {"imported", "absent"} => c.used = "open"
      /\ c.reach => c.found = "called" /\ c.flow = "open" /\ c.driven
      /\ c.go => c.graph # "none"
  BY DEF Told, TellsUse, NotNamed, TellsInput, TellsAudit
<1> DEFINE f == [c EXCEPT !.version = "unaffected", !.build = build, !.gadget = gadget]
<1>3. f \in FactRecords
  BY <1>1, ReadIs
<1>4. /\ f.direct = c.direct /\ f.path = c.path /\ f.used = c.used /\ f.reach = c.reach
      /\ f.found = c.found /\ f.flow = c.flow /\ f.driven = c.driven /\ f.go = c.go
      /\ f.graph = c.graph /\ f.build = build
  BY <1>1 DEF FactRecords
<1>5. Unaffected(build, gadget) = Unplaced(f)
  BY DEF Unaffected
<1> HIDE DEF f
<1>6. Unplaced(f) \in FactRecords
  BY <1>3, UnaskedIs
<1>7. Agree(Unplaced(f))
  BY <1>2, <1>3, <1>4 DEF Agree, Unplaced, Unasked, FactRecords
<1>8. Unplaced(f).shipped = "unknown" /\ Unplaced(f).bridge = "none" /\ Unplaced(f).build = build
  BY <1>3, <1>4 DEF Unplaced, Unasked, FactRecords
<1> QED
  BY <1>5, <1>6, <1>7, <1>8

\* and so do those of every result.
LEMMA EndFacts ==
  ASSUME Typed, Told, Ending, result # << >>
  PROVE  Facts1 \in Facts
<1>1. c \in FactRecords
  BY DEF Typed
<1>2. /\ c.direct /\ c.path \in {"imported", "absent"} => c.used = "open"
      /\ c.reach => c.found = "called" /\ c.flow = "open" /\ c.driven
      /\ c.go => c.graph # "none"
  BY DEF Told, TellsUse, NotNamed, TellsInput, TellsAudit
<1>3. CASE ByVersion
  BY <1>3, VersionSays, UnaffectedIs DEF Facts
<1>4. CASE ByOwner
  <2> DEFINE f == [c EXCEPT !.excluded = TRUE]
  <2>1. f \in FactRecords /\ Facts1 = Unplaced(f)
    BY <1>1, <1>4 DEF ByOwner, Facts1, FactRecords
  <2>2. Unplaced(f) \in FactRecords
    BY <2>1, UnaskedIs
  <2>3. Agree(Unplaced(f))
    BY <1>1, <1>2 DEF Agree, Unplaced, Unasked, FactRecords
  <2> QED
    BY <2>1, <2>2, <2>3 DEF Facts
<1>5. ASSUME NEW seen \in FactRecords, ByScripts(seen)
      PROVE  Facts1 \in Facts
  <2> DEFINE e == [Unasked(seen) EXCEPT !.audit = "passed"]
  <2>1. Facts1 = e
    BY <1>5 DEF ByScripts, Facts1
  <2>2. seen.direct = c.direct /\ seen.reach = c.reach /\ seen.found = c.found /\ seen.flow = c.flow
        /\ seen.driven = c.driven /\ seen.go = c.go /\ seen.graph = c.graph
    <3>1. PICK a, b, d : seen = [c EXCEPT !.shipped = a, !.path = b, !.used = d]
      BY <1>5 DEF ByScripts
    <3> QED
      BY <1>1, <3>1 DEF FactRecords
  <2>3. seen.direct /\ seen.path \in {"imported", "absent"} => seen.used = "open"
    BY <1>5, <2>2 DEF ByScripts, NotNamed
  <2>4. e \in FactRecords
    BY <1>5, UnaskedIs, TakenBack
  <2>5. Agree(e)
    BY <1>2, <1>5, <2>2, <2>3 DEF Agree, Unasked, FactRecords
  <2> QED
    BY <2>1, <2>4, <2>5 DEF Facts
<1>6. CASE ByDecision
  BY <1>6, JudgedIs, JudgedAgree DEF ByDecision, Facts1, Facts
<1> QED
  BY <1>3, <1>4, <1>5, <1>6 DEF Ending

-----------------------------------------------------------------------------
(* What is confirmed. *)

\* The facts that decide took the outcome from are those that were gathered.
LEMMA JudgedKeeps ==
  ASSUME Typed
  PROVE  /\ Judged.shipped = c.shipped /\ Judged.direct = c.direct /\ Judged.path = c.path
         /\ Judged.used = c.used /\ Judged.graph = c.graph /\ Judged.flow = c.flow
         /\ Judged.driven = c.driven /\ Judged.condition = c.condition /\ Judged.found = c.found
         /\ Judged.symbol = c.symbol /\ Judged.receiver = c.receiver /\ Judged.uncalled = c.uncalled
         /\ Judged.bridge = c.bridge /\ Judged.audit = c.audit /\ Judged.go = c.go
         /\ Judged.version = c.version /\ Judged.build = c.build
<1>1. PICK b, r : Judged = [c EXCEPT !.bound = b, !.resolved = r]
  BY JudgedIs
<1> QED
  BY <1>1 DEF Typed, FactRecords

\* What the scripts closed by themselves keeps the facts that it rests on.
LEMMA ScriptsSay ==
  ASSUME Typed, Told, NEW seen \in FactRecords, ByScripts(seen)
  PROVE  /\ result # << >> /\ result[1].outcome = Early(seen) /\ s.final
         /\ Facts1.shipped = seen.shipped /\ Facts1.graph = seen.graph /\ Facts1.go = seen.go
         /\ Facts1.bridge = "none" /\ seen.shipped = Shipped(w.g, Flawed)
         /\ seen.graph = c.graph /\ seen.go = c.go /\ seen.direct = c.direct
         /\ Facts1.version = c.version /\ Facts1.build = c.build
         /\ c.version = "affected" => Affected(w.adv, w.version)
<1>1. seen = [c EXCEPT !.shipped = seen.shipped, !.path = seen.path, !.used = seen.used]
  BY DEF ByScripts
<1>2. /\ seen.graph = c.graph /\ seen.go = c.go /\ seen.direct = c.direct
      /\ seen.version = c.version /\ seen.build = c.build
  <2>1. ASSUME NEW y \in FactRecords, NEW z, NEW a, NEW b, NEW d,
               z = [y EXCEPT !.shipped = a, !.path = b, !.used = d]
        PROVE  /\ z.graph = y.graph /\ z.go = y.go /\ z.direct = y.direct
               /\ z.version = y.version /\ z.build = y.build
    BY <2>1 DEF FactRecords
  <2> DEFINE a == seen.shipped
             b == seen.path
             d == seen.used
  <2>2. seen = [c EXCEPT !.shipped = a, !.path = b, !.used = d] /\ c \in FactRecords
    BY <1>1 DEF Typed
  <2> HIDE DEF a, b, d
  <2> QED
    BY <2>1, <2>2
<1>3. Facts1 = [Unasked(seen) EXCEPT !.audit = "passed"]
  BY DEF ByScripts, Facts1
<1>4. /\ Facts1.shipped = seen.shipped /\ Facts1.graph = seen.graph /\ Facts1.go = seen.go
      /\ Facts1.bridge = "none" /\ Facts1.version = seen.version /\ Facts1.build = seen.build
  BY <1>3 DEF Unasked, FactRecords
<1> QED
  BY <1>2, <1>4 DEF ByScripts

\* And what decide was given.
LEMMA DecisionSays ==
  ASSUME Typed, ByDecision
  PROVE  result # << >> /\ Facts1 = Judged /\ result[1].outcome = Decide(Judged)
BY DEF ByDecision, Facts1

\* What every result of a chain is: an outcome, with facts that call a flaw one of the build only
\* where it is.
LEMMA EndIs ==
  ASSUME Typed, Told, Ending, result # << >>
  PROVE  /\ Facts1 \in FactRecords /\ (Facts1.build => w.build # "no")
         /\ result[1].outcome \in Outcomes
<1>1. c \in FactRecords /\ (c.build => w.build # "no")
  BY DEF Typed, Told, TellsProject
<1>2. Facts1 \in FactRecords
  BY EndFacts DEF Facts
<1>3. CASE ByVersion
  <2>1. result[1].outcome = "version_unaffected" /\ (Facts1.build => w.build # "no")
    BY <1>3, VersionSays, UnaffectedIs
  <2> QED
    BY <1>2, <2>1 DEF Outcomes
<1>4. CASE ByOwner
  <2>1. Facts1.build = c.build
    BY <1>1, <1>4 DEF ByOwner, Facts1, Unplaced, Unasked, FactRecords
  <2> QED
    BY <1>1, <1>2, <1>4, <2>1 DEF ByOwner, Outcomes
<1>5. ASSUME NEW seen \in FactRecords, ByScripts(seen)
      PROVE  (Facts1.build => w.build # "no") /\ result[1].outcome \in Outcomes
  <2>1. Early(seen) \in Outcomes
    BY <1>5, EarlySays DEF ByScripts, Outcomes
  <2> QED
    BY <1>1, <1>5, <2>1, ScriptsSay
<1>6. CASE ByDecision
  <2>2. Judged.build = c.build
    BY JudgedKeeps
  <2>3. Facts1 = Judged /\ result[1].outcome = Decide(Judged)
    BY <1>6 DEF ByDecision, Facts1
  <2> QED
    BY <1>1, <1>2, <2>2, <2>3, JudgedIs, DecideIs
<1> QED
  BY <1>2, <1>3, <1>4, <1>5, <1>6 DEF Ending

\* A chain that ends before the package is placed knows nothing of how it ships, nor of a bridge.
LEMMA UnplacedSays ==
  ASSUME Typed, Told, ByVersion \/ ByOwner
  PROVE  /\ Facts1.shipped = "unknown" /\ Facts1.bridge = "none"
         /\ result[1].outcome \in {"version_unaffected", "infrastructure"}
<1>1. c \in FactRecords
  BY DEF Typed
<1>2. CASE ByVersion
  BY <1>2, VersionSays, UnaffectedIs
<1>3. CASE ByOwner
  BY <1>1, <1>3 DEF ByOwner, Facts1, Unplaced, Unasked, FactRecords
<1> QED
  BY <1>2, <1>3

\* How a package is said to ship is what its place in the project says.
LEMMA ShippedSays ==
  ASSUME Typed, Told, Ending, result # << >>, Facts1.shipped # "unknown"
  PROVE  Facts1.shipped = Shipped(w.g, Flawed)
<1>1. c.shipped \in {"unknown", Shipped(w.g, Flawed)}
  BY DEF Told, TellsProject
<1>2. ~(ByVersion \/ ByOwner)
  BY UnplacedSays
<1>3. ASSUME NEW seen \in FactRecords, ByScripts(seen) PROVE Facts1.shipped = Shipped(w.g, Flawed)
  BY <1>3, ScriptsSay
<1>4. CASE ByDecision
  BY <1>1, <1>4, DecisionSays, JudgedKeeps
<1> QED
  BY <1>2, <1>3, <1>4 DEF Ending

\* A call of the flaw in the project's own code runs.
LEMMA CalledIsReached ==
  ASSUME NEW v, World(v), Calls(v, Flawed) PROVE Reached(v)
<1>1. Flawed \in PackageSet
  BY PackagesAssumption
<1>2. Flawed \in v.g.imports /\ Project(v.g)
  BY <1>1 DEF World, Calls
<1>3. Loaded(v.g, Flawed)
  BY <1>1, <1>2, EnteredIsLoaded DEF Entered
<1> QED
  BY <1>1, <1>3, FlawLeads DEF Reached, Called

\* Confirmed as a flaw of the build: it is one, and so the package is said to ship.
LEMMA BuildHolds ==
  ASSUME Typed, Told, Ending, result # << >>, Facts1.version # "unclear", Facts1.build,
         result[1].outcome = "not_shipped" \/ Facts1.shipped \in {"build_only", "image_only"}
  PROVE  Affected(w.adv, w.version) /\ w.build # "no" /\ Shipped(w.g, Flawed) \in {"build_only", "image_only"}
<1>1. w.build # "no"
  BY EndIs
<1>2. ~(ByVersion \/ ByOwner)
  BY UnplacedSays
<1>3. c.version \in {"affected", "unclear"} /\ c \in FactRecords
  BY DEF Typed, Told, TellsVersion
<1>4. ASSUME NEW seen \in FactRecords, ByScripts(seen)
      PROVE  Affected(w.adv, w.version) /\ Facts1.shipped \in {"build_only", "image_only"}
  <2>1. Affected(w.adv, w.version)
    BY <1>3, <1>4, ScriptsSay
  <2>2. result[1].outcome = "not_shipped" => Facts1.shipped = "build_only"
    BY <1>4, ScriptsSay, EarlySays DEF ByScripts
  <2> QED
    BY <2>1, <2>2
<1>5. ASSUME ByDecision
      PROVE  Affected(w.adv, w.version) /\ Facts1.shipped \in {"build_only", "image_only"}
  <2>1. Facts1 = Judged /\ result[1].outcome = Decide(Judged)
    BY <1>5, DecisionSays
  <2>2. result[1].outcome = "not_shipped" => Facts1.shipped = "build_only"
    BY <2>1, JudgedIs, DecideSays
  <2>3. Affected(w.adv, w.version)
    BY <1>3, <1>5, <2>1, JudgedKeeps DEF ByDecision
  <2> QED
    BY <2>2, <2>3
<1>6. Affected(w.adv, w.version) /\ Facts1.shipped \in {"build_only", "image_only"}
  BY <1>2, <1>4, <1>5 DEF Ending
<1>7. Facts1.shipped = Shipped(w.g, Flawed)
  BY <1>6, ShippedSays
<1> QED
  BY <1>1, <1>6, <1>7

\* Confirmed otherwise: the name that matched is the flaw's own, so input flows into the flaw.
LEMMA ProvenHolds ==
  ASSUME Typed, Told, Ending, result # << >>, Facts1.version # "unclear",
         result[1].outcome = "actual", Proven(Facts1)
  PROVE  Affected(w.adv, w.version) /\ Reached(w) /\ InputReaches(w)
<1>1. result[1].outcome = "actual" /\ Proven(Facts1) /\ Facts1.version # "unclear"
  OBVIOUS
<1>2. ByDecision
  <2>1. ~(ByVersion \/ ByOwner)
    BY <1>1, UnplacedSays
  <2>2. ASSUME NEW seen \in FactRecords PROVE ~ByScripts(seen)
    BY <1>1, EarlySays DEF ByScripts
  <2> QED
    BY <2>1, <2>2 DEF Ending
<1>3. Facts1 = Judged
  BY <1>2 DEF ByDecision, Facts1
<1>4. PICK b, r : Judged = [c EXCEPT !.bound = b, !.resolved = r]
  BY JudgedIs
<1>5. c \in FactRecords
  BY DEF Typed
<1>6. Judged.flow = c.flow /\ Judged.version = c.version
  BY <1>4, <1>5 DEF FactRecords
<1>7. c.flow = "found" /\ c.version # "unclear" /\ Judged.bound
  BY <1>1, <1>3, <1>6 DEF Proven
<1>8. Affected(w.adv, w.version)
  BY <1>2, <1>7 DEF ByDecision, Told, TellsVersion
<1>9. x.matched = "flaw"
  <2>1. x.matched # "none" /\ Bound
    BY <1>7, JudgedIs
  <2>2. x.matched \in {"none", "flaw", "parent"} /\ x.symbol.fn \in FnNames
    BY DEF Typed, Locals, Symbols
  <2> QED
    BY <2>1, <2>2 DEF Bound, FnNames, FunctionNames
<1>10. x.through = Flawed
  BY <1>9 DEF Told, TellsCalls
<1>11. w.input = "flows" /\ Calls(w, Flawed)
  BY <1>7, <1>10 DEF Told, TellsInput
<1>12. Reached(w)
  BY <1>11, WorldIs, CalledIsReached
<1> QED
  BY <1>8, <1>11, <1>12 DEF InputReaches

\* There is no other confirmation.
LEMMA ConfirmedHolds ==
  ASSUME Typed, Told, Ending PROVE ConfirmedIsReal
<1> SUFFICES ASSUME result # << >>, NEW severity \in Severities, Label(severity) = "confirmed"
             PROVE  /\ Affected(w.adv, w.version)
                    /\ \/ Reached(w) /\ InputReaches(w)
                       \/ w.build # "no" /\ Shipped(w.g, Flawed) \in {"build_only", "image_only"}
  BY DEF ConfirmedIsReal
<1>1. Facts1 \in FactRecords /\ Policy(result[1].outcome, Facts1, severity).label = "confirmed"
  BY EndIs DEF Label
<1>2. /\ Facts1.version # "unclear"
      /\ \/ result[1].outcome = "actual" /\ Proven(Facts1)
         \/ /\ Facts1.build
            /\ result[1].outcome = "not_shipped" \/ Facts1.shipped \in {"build_only", "image_only"}
  BY <1>1, PolicyConfirms
<1> QED
  BY <1>2, ProvenHolds, BuildHolds

-----------------------------------------------------------------------------
(* What is not called. *)

\* "Not called" comes from decide alone, and stands on the claim that held.
LEMMA NotCalledSays ==
  ASSUME Typed, Told, Ending, Ended1({"not_called"})
  PROVE  c.uncalled /\ x.claim = "closed" /\ ~Reopened
<1>1. result # << >> /\ result[1].outcome = "not_called"
  BY DEF Ended1
<1>2. ByDecision
  <2>1. ~(ByVersion \/ ByOwner)
    BY <1>1, UnplacedSays
  <2>2. ASSUME NEW seen \in FactRecords PROVE ~ByScripts(seen)
    BY <1>1, EarlySays DEF ByScripts
  <2> QED
    BY <1>1, <2>1, <2>2 DEF Ending
<1>3. Decide(Judged) = "not_called"
  BY <1>1, <1>2 DEF ByDecision
<1>4. Judged.uncalled
  BY <1>3, JudgedIs, DecideSays
<1>5. c.uncalled
  BY <1>4, JudgedKeeps
<1> QED
  BY <1>5 DEF Told, TellsClaim

\* Not called: whoever calls it would be a dependent, or the project itself.
LEMMA NotCalledHolds ==
  ASSUME Typed, Told, Ending PROVE NotCalledIsWhole
<1> SUFFICES ASSUME Ended1({"not_called"}), ~Misnamed, AsDeclared(w.g)
             PROVE  /\ ~w.framework /\ ~(w.registered /\ Flawed \in w.b.sources)
                    /\ \A p \in PackageSet :
                         Loaded(w.g, p) /\ Calls(w, p) /\ LeadsTo(w.b, p) => p = Flawed /\ CommonName
  BY DEF NotCalledIsWhole
<1>1. c.uncalled /\ x.claim = "closed" /\ ~Reopened
  BY NotCalledSays
<1>2. c.named /\ Flawed \in w.b.sources /\ c.bridge # "no" /\ x.symbol.fn = "flaw"
  BY <1>1 DEF Told, TellsClaim, TellsSymbol, Misnamed
<1>3. ~Calls(w, x.through) \/ (x.through = Flawed /\ CommonName)
  BY <1>1, <1>2 DEF Told, TellsClaim
<1>4. ~w.framework /\ ~w.registered /\ Dependents(w.g, Flawed) = {}
  BY <1>1, <1>2 DEF Reopened, ReopenedBySelf
<1>5. World(w) /\ Project(w.g) /\ CodeOf(w.g, w.b)
  BY WorldIs DEF World
<1>6. ASSUME NEW p \in PackageSet, Loaded(w.g, p), Calls(w, p), LeadsTo(w.b, p)
      PROVE  p = Flawed /\ CommonName
  <2>1. CASE p # Flawed
    <3>1. PICK r \in PackageSet : Loaded(w.g, r) /\ Flawed \in Loads(w.g)[r]
      BY <1>5, <1>6, <2>1, SomeoneLeads
    <3>2. Flawed \in Requires(w.g, r)
      BY <3>1 DEF AsDeclared, PeersRead, Loads, Requires
    <3>3. r \in Dependents(w.g, Flawed)
      BY <3>1, <3>2 DEF Dependents, Parents, AsDeclared
    <3> QED
      BY <1>4, <3>3
  <2>2. CASE p = Flawed /\ ~CommonName
    <3>1. x.through # Flawed
      BY <1>3, <1>6, <2>2
    <3>2. ~c.direct
      BY <3>1 DEF Told, TellsBridge
    <3>3. Flawed \notin Starts(w.g)
      BY <3>2 DEF Told, TellsProject
    <3>4. Flawed \in w.g.imports
      BY <1>5, <1>6, <2>2 DEF World, Calls
    <3> QED
      BY <3>3, <3>4 DEF AsDeclared, Entered
  <2> QED
    BY <2>1, <2>2
<1> QED
  BY <1>4, <1>6

-----------------------------------------------------------------------------
(* What is closed. *)

\* What the chain was not asked to see it did not see.
LEMMA HiddenIsUnasked ==
  ASSUME Typed, Told, Ending, result # << >>, w.hidden PROVE Unasked1
<1>1. CASE ByVersion \/ ByOwner
  BY <1>1, UnplacedSays DEF Unasked1, Ended1, AuditGated
<1>2. ASSUME NEW seen \in FactRecords, ByScripts(seen) PROVE Unasked1
  BY <1>2 DEF ByScripts, Unasked1
<1>3. CASE ByDecision
  <2>1. Facts1 = Judged /\ result[1].outcome = Decide(Judged)
    BY <1>3, DecisionSays
  <2>2. Rechecked(Judged) = Rechecked(c)
    BY JudgedKeeps DEF Rechecked
  <2>3. SUFFICES ASSUME Decide(Judged) \in AuditGated \ {"not_called"}
                 PROVE  Rechecked(c) \in s.skip \cup {"none"}
    BY <2>1, <2>2 DEF Unasked1, Ended1
  <2>4. c.audit = "passed"
    BY <2>3, JudgedIs, DecideChecks, JudgedKeeps
  <2> QED
    BY <2>4 DEF Told, TellsAudit, Rechecked
<1> QED
  BY <1>1, <1>2, <1>3 DEF Ending

\* What is reached is loaded.
LEMMA ReachedIsLoaded ==
  ASSUME NEW v, World(v), Reached(v) PROVE Loaded(v.g, Flawed)
BY LeadingLoads DEF World, Reached, Called

\* If the searched package's functions are not called, another one's are, or it runs by itself.
ElseCalls == \E p \in PackageSet \ {x.through} : Loaded(w.g, p) /\ Calls(w, p) /\ LeadsTo(w.b, p)

\* Then it is another package's code, the framework's or the flawed package's own.
LEMMA SomeoneElse ==
  ASSUME Reached(w), ~Calls(w, x.through)
  PROVE  ElseCalls \/ w.framework \/ w.registered
BY DEF Reached, Called, ElseCalls

\* And a closure that rests on the project's own calls of it is blind to that.
LEMMA OwnIsBlind ==
  ASSUME Reached(w), ~Calls(w, x.through), Ended1({"condition_absent", "wrong_receiver", "only_in_tests"})
  PROVE  Blind
<1>1. Ended1(OwnCalls)
  BY DEF Ended1, OwnCalls
<1> QED
  BY <1>1, SomeoneElse DEF ElseCalls, Blind, ByAnother, BySelf

\* A package that ships as not loaded, and is reached.
LEMMA ShippedIsBlind ==
  ASSUME Typed, Told, Ending, result # << >>, Reached(w), Facts1.shipped \in {"build_only", "image_only"}
  PROVE  ByAnotherRoot
<1>2. Facts1.shipped = Shipped(w.g, Flawed)
  BY ShippedSays
<1>3. World(w) /\ Loaded(w.g, Flawed) /\ Project(w.g)
  BY WorldIs, ReachedIsLoaded DEF World
<1>4. \/ ~w.g.js \/ ~AllRead \/ ~(Entered(w.g) \subseteq Starts(w.g))
      \/ \E r \in RootsOf(w.g, Flawed) : Loaded(w.g, r) /\ r \notin Entered(w.g)
  BY <1>2, <1>3, ShippedIsUnloaded DEF AllRead, Project
<1> QED
  BY <1>3, <1>4 DEF ByAnotherRoot

\* A bridge that is closed, and is reached.
LEMMA BridgeIsBlind ==
  ASSUME Typed, Told, Ending, result # << >>, Reached(w), Facts1.bridge = "no"
  PROVE  Blind
<1>1. ByDecision
  <2>1. ~(ByVersion \/ ByOwner)
    BY UnplacedSays
  <2>2. ASSUME NEW seen \in FactRecords, ByScripts(seen) PROVE FALSE
    BY <2>2, ScriptsSay
  <2> QED
    BY <2>1, <2>2 DEF Ending
<1>2. c.bridge = "no"
  BY <1>1, DecisionSays, JudgedKeeps
<1>3. /\ c.named
      /\ x.symbol.fn = "flaw" =>
           \A i \in DOMAIN Introductions(w.g, Flawed) : Broken(w.b, Introductions(w.g, Flawed)[i])
  BY <1>2 DEF Told, TellsBridge
<1>4. x.symbol.fn # "none"
  BY <1>3 DEF Told, TellsSymbol
<1>5. CASE x.symbol.fn # "flaw"
  BY <1>4, <1>5 DEF Blind, Misnamed
<1>6. CASE x.symbol.fn = "flaw" /\ Called(w)
  BY <1>3, <1>6 DEF Blind, ByAnotherWay
<1>7. CASE w.framework \/ w.registered
  BY <1>7 DEF Blind, BySelf
<1> QED
  BY <1>5, <1>6, <1>7 DEF Reached

\* "Not called", where more runs than was declared.
LEMMA NotCalledIsBlind ==
  ASSUME Typed, Told, Ending, Reached(w), ~w.hidden, Ended1({"not_called"})
  PROVE  Blind
<1>1. c.uncalled /\ x.claim = "closed" /\ ~Reopened
  BY NotCalledSays
<1>2. /\ c.named /\ Flawed \in w.b.sources
      /\ x.symbol.fn = "flaw" => ~Calls(w, x.through) \/ CommonName
  BY <1>1 DEF Told, TellsClaim
<1>3. CASE Misnamed
  BY <1>3 DEF Blind
<1>4. CASE CommonName
  BY <1>4 DEF Blind, CommonCall
<1>5. CASE ~Misnamed /\ ~CommonName
  <2>1. x.symbol.fn = "flaw"
    BY <1>2, <1>5 DEF Misnamed, Told, TellsSymbol
  <2>2. ~w.framework /\ ~w.registered
    BY <1>1, <1>2, <2>1 DEF Reopened, ReopenedBySelf
  <2>3. ElseCalls
    BY <1>2, <1>5, <2>1, <2>2, SomeoneElse
  <2>4. ~AsDeclared(w.g)
    BY <1>5, <2>3, NotCalledHolds DEF NotCalledIsWhole, ElseCalls
  <2> QED
    BY <2>3, <2>4 DEF ElseCalls, Blind, ByAnother
<1> QED
  BY <1>3, <1>4, <1>5

\* A call graph without it.
LEMMA NotReachedIsBlind ==
  ASSUME Typed, Told, Reached(w), c.graph = "unreached", Facts1.graph = c.graph, Facts1.go = c.go
  PROVE  Blind
BY DEF Told, TellsGraph, Blind, OtherModule

\* No input, no condition.
LEMMA AbsentIsBlind ==
  ASSUME Typed, Told, ByDecision, Exploitable(w), Reached(w), Decide(Judged) = "condition_absent"
  PROVE  Blind
<1>1. Facts1 = Judged /\ result # << >> /\ result[1].outcome = "condition_absent"
  BY DecisionSays
<1>2. c.graph = "lowered" \/ (c.flow = "absent" /\ c.driven) \/ c.condition = "absent"
  BY JudgedIs, DecideSays, JudgedKeeps
<1>3. InputReaches(w) /\ (w.condition # "none" => w.met)
  BY DEF Exploitable
<1>4. c.graph # "lowered"
  BY <1>3 DEF Told, TellsGraph, Lowered, InputReaches
<1>5. c.condition # "absent"
  BY <1>3 DEF Told, TellsInput
<1>6. /\ c.flow = "absent" /\ c.driven /\ w.driven /\ w.input # "reads"
      /\ w.input # "flows" \/ w.own[x.through] = "tests"
  BY <1>2, <1>4, <1>5 DEF Told, TellsInput, TellsProject
<1>7. CASE w.own[x.through] = "tests"
  <2>1. ~Calls(w, x.through)
    BY <1>7 DEF Calls
  <2> QED
    BY <1>1, <2>1, OwnIsBlind DEF Ended1
<1>8. CASE w.input # "flows"
  <2>1. w.input \in {"none", "flows", "elsewhere", "reads"}
    BY WorldIs DEF World
  <2>2. w.input = "elsewhere"
    BY <1>3, <1>6, <1>8, <2>1 DEF InputReaches
  <2>3. Facts1.flow = "absent"
    BY <1>1, <1>6, JudgedKeeps
  <2> QED
    BY <2>2, <2>3 DEF Blind, OtherCall
<1> QED
  BY <1>6, <1>7, <1>8

\* No name of the package.
LEMMA UnnamedIsBlind ==
  ASSUME Typed, Told, Reached(w), Ended1({"unused", "test_only_import"}), c.direct,
         NEW path, NEW used, NotNamed(path, used), path = "absent" \/ used \in {"no", "tests"}
  PROVE  Blind
<1>1. ~w.framework /\ (~Nameable(Flawed) \/ Flawed \notin w.g.imports)
  BY DEF NotNamed
<1>2. CASE ~Nameable(Flawed)
  BY <1>2 DEF Blind, Unnamed1
<1>3. CASE Flawed \notin w.g.imports
  <2>1. x.through = Flawed
    BY DEF Told, TellsBridge
  <2>2. ~Calls(w, x.through)
    BY <1>3, <2>1, WorldIs, PackagesAssumption DEF World, Calls
  <2>3. ElseCalls \/ w.registered
    BY <1>1, <2>2, SomeoneElse
  <2>4. Ended1(OwnCalls)
    BY DEF Ended1, OwnCalls
  <2> QED
    BY <2>3, <2>4 DEF ElseCalls, Blind, ByAnother, BySelf
<1> QED
  BY <1>1, <1>2, <1>3

\* Another receiver, or calls in tests alone.
LEMMA ReceiverIsBlind ==
  ASSUME Typed, Told, ByDecision, Reached(w), Decide(Judged) = "wrong_receiver"
  PROVE  Blind
<1>1. Facts1 = Judged /\ result # << >> /\ result[1].outcome = "wrong_receiver"
  BY DecisionSays
<1>2. c.receiver /\ Facts1.receiver
  BY <1>1, JudgedIs, DecideSays, JudgedKeeps
<1>3. ~Matches
  BY <1>2 DEF Told, TellsCalls
<1>4. CASE x.through # Flawed \/ w.receiver = "late"
  BY <1>2, <1>4 DEF Blind, OtherReceiver
<1>5. CASE x.through = Flawed /\ w.receiver # "late"
  <2>1. w.own[x.through] # "plain" /\ w.receiver = "other"
    BY <1>3, <1>5, WorldIs DEF Matches, Real, World
  <2>2. ~Calls(w, x.through)
    BY <2>1 DEF Calls
  <2> QED
    BY <1>1, <2>2, OwnIsBlind DEF Ended1
<1> QED
  BY <1>4, <1>5

\* Calls in tests alone.
LEMMA TestsIsBlind ==
  ASSUME Typed, Told, ByDecision, Reached(w), Decide(Judged) = "only_in_tests"
  PROVE  Blind
<1>1. result # << >> /\ result[1].outcome = "only_in_tests"
  BY DecisionSays
<1>2. c.found = "tests"
  BY JudgedIs, DecideSays, JudgedKeeps
<1>3. ~Calls(w, x.through)
  BY <1>2 DEF Told, TellsCalls, Calls
<1> QED
  BY <1>1, <1>3, OwnIsBlind DEF Ended1

\* Each way to close is one of the blind spots, when what it closes is exploitable.
LEMMA ExploitableHolds ==
  ASSUME Typed, Told, Ending PROVE NothingExploitableCloses
<1> SUFFICES ASSUME result # << >>, NEW severity \in Severities, Label(severity) = "false_positive",
                    Exploitable(w)
             PROVE  Blind
  BY DEF NothingExploitableCloses
<1>1. CASE w.hidden
  BY <1>1, HiddenIsUnasked DEF Blind
<1>2. CASE ~w.hidden
  <2>1. Reached(w) /\ Affected(w.adv, w.version) /\ ~w.excluded
    BY <1>2 DEF Exploitable
  <2>2. \/ Facts1.shipped \in {"image_only", "build_only"} \/ result[1].outcome = "not_shipped"
        \/ Facts1.bridge = "no" \/ result[1].outcome \in Closing1
        \/ Facts1.gadget /\ result[1].outcome \in ByModel
    BY EndIs, PolicyCloses DEF Label
  <2>3. CASE Facts1.shipped \in {"image_only", "build_only"}
    BY <2>1, <2>3, ShippedIsBlind DEF Blind
  <2>4. CASE Facts1.bridge = "no"
    BY <2>1, <2>4, BridgeIsBlind
  <2>8. CASE Facts1.gadget /\ result[1].outcome \in ByModel
    BY <2>8 DEF Blind, Gadget, Ended1
  <2>5. ~ByVersion /\ ~ByOwner
    BY <2>1 DEF ByVersion, ByOwner
  <2>6. ASSUME result[1].outcome \in Closing1 \cup {"not_shipped"},
               NEW seen \in FactRecords, ByScripts(seen)
        PROVE  Blind
    <3>1. /\ result[1].outcome = Early(seen)
          /\ Facts1.shipped = seen.shipped /\ Facts1.graph = seen.graph /\ Facts1.go = seen.go
          /\ seen.graph = c.graph /\ seen.go = c.go /\ seen.direct = c.direct
      BY <2>6, ScriptsSay
    <3>2. Early(seen) # "none" /\ NotNamed(seen.path, seen.used)
      BY <2>6 DEF ByScripts
    <3>3. CASE Early(seen) = "not_reached"
      BY <2>1, <3>1, <3>2, <3>3, EarlySays, NotReachedIsBlind
    <3>4. CASE Early(seen) = "not_shipped"
      <4>1. Facts1.shipped = "build_only"
        BY <3>1, <3>2, <3>4, EarlySays
      <4> QED
        BY <2>1, <4>1, ShippedIsBlind DEF Blind
    <3>5. CASE Early(seen) \in {"unused", "test_only_import"}
      <4>1. c.direct /\ (seen.path = "absent" \/ seen.used \in {"no", "tests"})
        BY <3>1, <3>2, <3>5, EarlySays
      <4>2. Ended1({"unused", "test_only_import"})
        BY <3>1, <3>5 DEF Ended1
      <4> QED
        BY <2>1, <3>2, <4>1, <4>2, UnnamedIsBlind
    <3> QED
      BY <3>2, <3>3, <3>4, <3>5, EarlySays
  <2>7. ASSUME result[1].outcome \in Closing1 \cup {"not_shipped"}, ByDecision
        PROVE  Blind
    <3> DEFINE o == Decide(Judged)
    <3>1. Facts1 = Judged /\ result[1].outcome = o /\ Judged \in FactRecords
      BY <2>7, DecisionSays, JudgedIs
    <3>2. CASE o = "not_shipped"
      <4>1. Facts1.shipped = "build_only"
        BY <3>1, <3>2, DecideSays
      <4> QED
        BY <2>1, <4>1, ShippedIsBlind DEF Blind
    <3>3. CASE o \in {"unused", "test_only_import"}
      <4>1. Judged.direct /\ (Judged.path = "absent" \/ Judged.used \in {"no", "tests"})
        BY <3>1, <3>3, DecideSays
      <4>2. c.direct /\ (c.path = "absent" \/ c.used \in {"no", "tests"})
        BY <4>1, JudgedKeeps
      <4>3. Ended1({"unused", "test_only_import"})
        BY <3>1, <3>3 DEF Ended1
      <4>4. NotNamed(c.path, c.used)
        BY DEF Told, TellsUse
      <4> QED
        BY <2>1, <4>2, <4>3, <4>4, UnnamedIsBlind
    <3>4. CASE o = "condition_absent"
      BY <2>1, <2>7, <3>4, AbsentIsBlind
    <3>5. CASE o = "only_in_tests"
      BY <2>1, <2>7, <3>5, TestsIsBlind
    <3>6. CASE o = "not_applicable"
      <4>1. c.symbol = "undistributed"
        BY <3>1, <3>6, DecideSays, JudgedKeeps
      <4> QED
        BY <4>1 DEF Told, TellsSymbol, Blind, Misnamed
    <3>7. CASE o = "wrong_receiver"
      BY <2>1, <2>7, <3>7, ReceiverIsBlind
    <3>8. CASE o = "not_reached"
      <4>1. c.graph = "unreached" /\ Facts1.graph = c.graph /\ Facts1.go = c.go
        BY <3>1, <3>8, DecideSays, JudgedKeeps
      <4> QED
        BY <2>1, <4>1, NotReachedIsBlind
    <3>9. CASE o = "not_called"
      BY <1>2, <2>1, <3>1, <3>9, NotCalledIsBlind DEF Ended1
    <3>10. o # "version_unaffected"
      BY <3>1, DecideSays
    <3> HIDE DEF o
    <3> QED
      BY <2>7, <3>1, <3>2, <3>3, <3>4, <3>5, <3>6, <3>7, <3>8, <3>9, <3>10 DEF Closing1
  <2> QED
    BY <2>2, <2>3, <2>4, <2>5, <2>6, <2>7, <2>8 DEF Ending
<1> QED
  BY <1>1, <1>2

-----------------------------------------------------------------------------
(* The theorems. *)

IInv == Typed /\ Told /\ Ending

\* What was gathered is true of the world in every state, and every result comes of it.
LEMMA Invariant == Spec => []IInv
<1>1. Init => IInv
  <2> SUFFICES ASSUME Init PROVE IInv
    OBVIOUS
  <2>1. result = << >>
    BY DEF Init
  <2> QED
    BY <2>1, InitTells DEF IInv, Ending
<1>2. IInv /\ [Next]_vars => IInv'
  BY NextTells, NextEnds DEF IInv
<1> QED
  BY <1>1, <1>2, PTL DEF Spec

\* Whatever the project, the advisory, the tools and the model are like, what decide and the policy
\* are given by the chain is what they expect: no check takes back what another one rests on.
THEOREM FactsAlwaysFacts == Spec => []FactsAreFacts
<1>1. IInv => FactsAreFacts
  BY EndFacts DEF IInv, FactsAreFacts
<1> QED
  BY <1>1, Invariant, PTL

\* Whatever is installed and whatever calls it, what the policy confirms without a person is so: input
\* reaches a call of the flaw in the installed version, or the flaw is one of the build and the package
\* is there for the build or the image.
THEOREM ConfirmedAlwaysReal == Spec => []ConfirmedIsReal
<1>1. IInv => ConfirmedIsReal
  BY ConfirmedHolds DEF IInv
<1> QED
  BY <1>1, Invariant, PTL

\* Where what runs was declared, "not called" leaves out no caller but the project's own under a common
\* name: the three reopenings are enough for every other one.
THEOREM NotCalledAlwaysWhole == Spec => []NotCalledIsWhole
<1>1. IInv => NotCalledIsWhole
  BY NotCalledHolds DEF IInv
<1> QED
  BY <1>1, Invariant, PTL

\* The blind spots named in Chain are all the chain that is modelled has: nothing else that is
\* exploitable is closed, in any such project, with any tool missing and any answer of the model that
\* quotes what it was shown.
THEOREM NothingExploitableEverCloses == Spec => []NothingExploitableCloses
<1>1. IInv => NothingExploitableCloses
  BY ExploitableHolds DEF IInv
<1> QED
  BY <1>1, Invariant, PTL
=============================================================================
