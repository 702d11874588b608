------------------------------- MODULE Packages -------------------------------
(***************************************************************************)
(* How a vulnerable package sits in a project: what the dependency graph   *)
(* says of it (sca/graph.py), whether the running application loads it     *)
(* (sca/shipping.py), whether its parents lead to the flaw                 *)
(* (sca/bridge.py and _bridge of sca/chain/support.py) and whether the     *)
(* installed version is affected (sca/versions.py).  Each is a function of *)
(* what was read from the disk; next to it stands what is really so, which *)
(* the code has to find out.                                               *)
(***************************************************************************)
EXTENDS Naturals, SequencesExt

CONSTANTS Names,   \* the packages installed, in the order of their names
          Flawed   \* the one the advisory is about

PackageSet == {Names[i] : i \in DOMAIN Names}

ASSUME PackagesAssumption == Names \in Seq(STRING) /\ Flawed \in PackageSet

\* A stage of a Dockerfile: it installs packages, and leaves out those for development.
Stages == [installs : BOOLEAN, prunes : BOOLEAN]

\* A project g: what its manifests ask for, what its packages require and want as peers, which lock
\* file it has, the packages its code imports outside and inside tests or only in files too large
\* to be read, those its start command runs and of them those that only a script of a script names,
\* its Dockerfile, and whether it is one of the ecosystems whose imports shipping reads.
Project(g) ==
  /\ g.prod \subseteq PackageSet /\ g.dev \subseteq PackageSet \ g.prod
  /\ {g.requires, g.peers} \subseteq [PackageSet -> SUBSET PackageSet]
  /\ g.lock \in {"npm", "yarn"}
  /\ {g.imports, g.tests, g.large, g.started} \subseteq SUBSET PackageSet /\ g.buried \subseteq g.started
  /\ g.image \in [read : BOOLEAN, last : Stages, copies : {"none", "stage", "tree"}, from : Stages,
                 context : BOOLEAN]
  /\ g.js \in BOOLEAN

-----------------------------------------------------------------------------
(* The graph. *)

Starts(g) == g.prod \cup g.dev

\* lockfile_nodes: the edges of a package, all its versions together.  Only npm's lock file lists
\* the peers.
Requires(g, p) == g.requires[p] \cup (IF g.lock = "npm" THEN g.peers[p] ELSE {})
Parents(g, p)  == {q \in PackageSet : p \in Requires(g, q)}

\* The least set with all of `from` that `next` does not leave.
Closure(from, next) ==
  {p \in PackageSet : \A T \in SUBSET PackageSet :
     (from \subseteq T /\ \A q \in T : next[q] \subseteq T) => p \in T}

\* _reach
Below(g, from) == Closure(from, [q \in PackageSet |-> Requires(g, q)])

Scope(g, p) ==
  IF p \in Below(g, g.prod) THEN "runtime" ELSE IF p \in Below(g, g.dev) THEN "dev" ELSE "unknown"

\* roots_of: up to the first requirement of the project's own, and no further.
RootsOf(g, p) ==
  IF p \in Starts(g) THEN {p}
  ELSE Starts(g) \cap Closure({p}, [q \in PackageSet |-> IF q \in Starts(g) THEN {} ELSE Parents(g, q)])

\* dependents: who else installed may call it.
Dependents(g, p) == {q \in Parents(g, p) : Scope(g, q) # "dev"}

MaxPaths == 4 \* placement's max_paths

\* One look at a parent, in the search for ways up: whoever was seen is not seen again.
Look(g, trail, s, parent) ==
  IF parent \in s.seen \/ parent \notin Parents(g, Head(trail)) \/ Len(s.found) >= MaxPaths THEN s
  ELSE LET path == <<parent>> \o trail IN
       IF parent \in Starts(g)
         THEN [s EXCEPT !.found = Append(@, path), !.seen = @ \cup {parent}]
         ELSE [s EXCEPT !.next = Append(@, path), !.seen = @ \cup {parent}]

Climb(g, s) ==
  LET up(t, trail) == FoldLeft(LAMBDA a, parent : Look(g, trail, a, parent), t, Names) IN
  FoldLeft(up, [s EXCEPT !.next = << >>], s.next)

\* placement: one path for each requirement of the project that leads to p.
Introductions(g, p) ==
  LET rounds[n \in 0..Len(Names)] ==
        IF n = 0 THEN [found |-> << >>, next |-> << <<p>> >>, seen |-> {p}]
        ELSE Climb(g, rounds[n - 1])
  IN rounds[Len(Names)].found

-----------------------------------------------------------------------------
(* Does the application load it? *)

\* image_facts: what of the installed packages the last stage of the image carries.
Installed(stage) == IF stage.prunes THEN "production" ELSE "full"
Tree(image) ==
  IF ~image.read THEN "unknown"
  ELSE IF image.last.installs THEN Installed(image.last)
  ELSE IF image.copies # "none"
         THEN IF image.copies = "stage" /\ image.from.installs THEN Installed(image.from) ELSE "full"
  ELSE IF image.context THEN "unknown" ELSE "none"

\* _scan: the imports of the production files that are read; a file over the size limit is not.
Scanned(g) == g.imports

\* _start_bins: the requirements that the start command, or the script it names, mentions.  The
\* command is the one in the last stage of the Dockerfile: without a Dockerfile there is none.
Started(g) == IF g.image.read THEN (g.started \ g.buried) \cap Starts(g) ELSE {}

\* by_scope, for the ecosystems whose imports are not read.
ShippedByScope(g, p) ==
  IF Scope(g, p) = "runtime" \/ p \in g.prod THEN "runtime"
  ELSE IF Scope(g, p) = "dev" \/ p \in g.dev
         THEN IF Tree(g.image) = "full" THEN "image_only" ELSE "build_only"
  ELSE "unknown"

\* Nothing that is imported or started leads to it: then the image decides.
NotLoaded(g, p) ==
  IF Tree(g.image) = "full" \/ (Tree(g.image) = "production" /\ Scope(g, p) = "runtime")
    THEN "image_only"
  ELSE IF Tree(g.image) \in {"production", "none"} \/ Scope(g, p) = "dev" THEN "build_only"
  ELSE "unknown"

\* ProjectShipping._compute
Shipped(g, p) ==
  IF ~g.js THEN ShippedByScope(g, p)
  ELSE IF p \in Scanned(g) \/ RootsOf(g, p) \cap (Scanned(g) \cup Started(g)) # {} THEN "runtime"
  ELSE IF RootsOf(g, p) # {} \/ Scope(g, p) # "unknown" THEN NotLoaded(g, p)
  ELSE "unknown"

\* What is really so: what is imported or started loads all it requires, its peers too.  Where
\* imports are not read, a requirement of production counts as imported.
Entered(g)   == g.imports \cup g.large \cup g.started
Loads(g)     == [q \in PackageSet |-> g.requires[q] \cup g.peers[q]]
Loaded(g, p) == p \in Closure(IF g.js THEN Entered(g) ELSE Entered(g) \cup g.prod, Loads(g))

-----------------------------------------------------------------------------
(* Do the packages between the project and the flaw lead to it? *)

MaxDepth == 4 \* walk_bridge's max_depth

\* Code of packages: b.sources, those whose source is at hand; b.calls, pairs <<p, q>> where a
\* public function of p calls by name one of q's that leads to the flaw; b.hidden, where p hands it
\* on without such a call (a reference, a registered class, a method the language calls); b.entry,
\* whether the flaw has a public function above it in its own package.

\* p's code hands the flaw on, when q does.
Leads(b, p, q) == <<p, q>> \in b.calls \cup b.hidden

\* The i-th package above the flaw on one way of installation.
Up(path, i) == path[Len(path) - i]

\* A package's code calls what it requires.
CodeOf(g, b) ==
  /\ b.sources \subseteq PackageSet /\ b.entry \in BOOLEAN
  /\ b.calls \cup b.hidden \subseteq {e \in PackageSet \X PackageSet : e[2] \in Loads(g)[e[1]]}

\* One package outwards: _callers of the names found so far.
Hop(b, path, i) ==
  IF i > MaxDepth \/ Up(path, i) \notin b.sources THEN "unknown"
  ELSE IF <<Up(path, i), Up(path, i - 1)>> \in b.calls THEN "open"
  ELSE IF Leads(b, Up(path, i), Up(path, i - 1)) THEN "unknown"
  ELSE "closed"

\* walk_bridge along one way of installation.
WalkBridge(b, path) ==
  LET walk[i \in 0..(MaxDepth + 1)] ==
        IF i = 0 THEN IF Flawed \in b.sources /\ b.entry THEN "open" ELSE "unknown"
        ELSE IF walk[i - 1] # "open" \/ i >= Len(path) THEN walk[i - 1]
        ELSE Hop(b, path, i)
  IN IF walk[MaxDepth + 1] = "open" THEN "calls" ELSE walk[MaxDepth + 1]

\* _bridge: the shortest way that leads to the flaw, else whether every way was read.
\* through: the package whose functions the project is searched for; Flawed itself when not known.
BridgeFirst(g, b) == \* fault: the first way decides for all
  LET ways == Introductions(g, Flawed) IN
  IF Flawed \in Starts(g) \/ ways = << >> THEN [says |-> "none", through |-> Flawed]
  ELSE LET end == WalkBridge(b, Head(ways)) IN
       IF end = "calls" THEN [says |-> "calls", through |-> Head(Head(ways))]
       ELSE [says |-> IF end = "closed" THEN "no" ELSE "unchecked", through |-> Flawed]
Bridge(g, b) ==
  LET ways   == Introductions(g, Flawed)
      ends   == [i \in DOMAIN ways |-> WalkBridge(b, ways[i])]
      Has(e) == \E i \in DOMAIN ways : ends[i] = e
  IN IF Flawed \in Starts(g) \/ ways = << >> THEN [says |-> "none", through |-> Flawed]
     ELSE IF Has("calls")
            THEN LET i == CHOOSE j \in DOMAIN ways :
                            ends[j] = "calls" /\ \A k \in 1..(j - 1) : ends[k] # "calls"
                 IN [says |-> "calls", through |-> Head(ways[i])]
     ELSE IF Has("unknown") \/ Len(ways) >= MaxPaths
            THEN [says |-> "unchecked", through |-> Flawed]
     ELSE [says |-> "no", through |-> Flawed]

\* What is really so: p's code leads to the flaw.
Callers(b)    == [q \in PackageSet |-> {p \in PackageSet : Leads(b, p, q)}]
LeadsTo(b, p) == p \in Closure({Flawed}, Callers(b))

\* And a way where some package does not hand on what the next one has.
Broken(b, path) ==
  \E i \in 1..MaxDepth : i < Len(path) /\ ~Leads(b, Up(path, i), Up(path, i - 1))

-----------------------------------------------------------------------------
(* Is the installed version affected? *)

Unread == 99 \* a bound that is no version
NoStart == 100

\* key: a version that cannot be ordered safely has none.
Ordered(v) == v # Unread

InsideLong(v, start, e) == start <= v /\ v <= e.at \* fault: the fixed version counts as affected
Inside(v, start, e) == start <= v /\ (v < e.at \/ (e.kind = "last_affected" /\ v = e.at))

\* One event of a range, in the order of the advisory.
Event(v, s, e) ==
  IF s.state # "out" THEN s
  ELSE IF e.kind = "introduced"
         THEN IF ~Ordered(e.at) THEN [s EXCEPT !.state = "unclear"] ELSE [s EXCEPT !.start = e.at]
  ELSE IF s.start = NoStart THEN s
  ELSE IF ~Ordered(e.at) THEN [s EXCEPT !.state = "unclear"]
  ELSE IF Inside(v, s.start, e) THEN [s EXCEPT !.state = "affected"]
  ELSE [s EXCEPT !.start = NoStart]

Within(v, range) ==
  LET seen[i \in 0..Len(range)] ==
        IF i = 0 THEN [state |-> "out", start |-> NoStart] ELSE Event(v, seen[i - 1], range[i])
      s == seen[Len(range)]
  IN IF s.state = "out" /\ s.start <= v THEN "affected" ELSE s.state

\* check: adv has the ranges that can be ordered and whether it lists the version by name.
\* The first range that is not "out" answers.
VersionState(adv, v) ==
  LET seen[i \in 0..Len(adv.ranges)] ==
        IF i = 0 THEN "out"
        ELSE IF seen[i - 1] # "out" THEN seen[i - 1] ELSE Within(v, adv.ranges[i])
      state == seen[Len(adv.ranges)]
  IN IF adv.listed THEN "affected"
     ELSE IF ~Ordered(v) \/ adv.ranges = << >> THEN "unclear"
     ELSE IF state = "out" THEN "unaffected" ELSE state

\* An advisory, as databases publish it: the events of a range in the order of their versions, by
\* turns one that introduces and one that ends; a version may be both the first and the last.
Events == [kind : {"introduced", "fixed", "last_affected"}, at : 0..Unread]
InOrder(r) ==
  /\ \A i, j \in DOMAIN r : i < j /\ Ordered(r[i].at) /\ Ordered(r[j].at) =>
       r[i].at < r[j].at \/ (r[i].at = r[j].at /\ r[j].kind = "last_affected")
  /\ \A i \in DOMAIN r : i > 1 => (r[i].kind = "introduced" <=> r[i - 1].kind # "introduced")
Versions(adv) ==
  /\ adv.listed \in BOOLEAN /\ adv.ranges \in Seq(Seq(Events))
  /\ \A i \in DOMAIN adv.ranges : InOrder(adv.ranges[i])

\* What is really so: some introduction is not above v, and nothing after it ends it.
Ended(v, e) == e.at < v \/ (e.at = v /\ e.kind # "last_affected")
AffectedBy(r, v) ==
  \E j \in DOMAIN r :
    /\ r[j].kind = "introduced" /\ r[j].at <= v
    /\ \A k \in DOMAIN r : k > j /\ r[k].kind # "introduced" => ~Ended(v, r[k])
Affected(adv, v) == adv.listed \/ \E i \in DOMAIN adv.ranges : AffectedBy(adv.ranges[i], v)
=============================================================================
