------------------------------- MODULE MCChain --------------------------------
(***************************************************************************)
(* Every project that differs from a plain one in at most two respects,   *)
(* and those that differ so from a few others where differences meet.      *)
(***************************************************************************)
EXTENDS Chain

MCNames == <<"app-kit", "core", "flawed", "glue", "hub", "inner">>

None == [p \in PackageSet |-> {}]
Uses1(p, use) == [q \in PackageSet |-> IF q = p THEN use ELSE "no"]
Bare   == [installs |-> FALSE, prunes |-> FALSE]
Pruned == [installs |-> TRUE, prunes |-> TRUE]
Whole1 == [installs |-> TRUE, prunes |-> FALSE]
\* An image whose last stage is `last`, or that copies from one.
Image(copies, stage) ==
  [read |-> TRUE, last |-> IF copies = "none" THEN stage ELSE Bare, copies |-> copies, from |-> stage,
   context |-> FALSE]
Images == {Image("stage", Whole1), Image("tree", Bare), Image("stage", Pruned), Image("none", Bare),
           [Image("none", Bare) EXCEPT !.context = TRUE], [Image("none", Bare) EXCEPT !.read = FALSE]}
Graph(prod, dev, requires, imports) ==
  [prod |-> prod, dev |-> dev, requires |-> requires, peers |-> None, lock |-> "npm",
   imports |-> imports, tests |-> {}, large |-> {}, started |-> {}, buried |-> {},
   image |-> Image("none", Pruned), js |-> TRUE]
Code(calls, hidden) == [sources |-> PackageSet, calls |-> calls, hidden |-> hidden, entry |-> TRUE]
F == {"flawed"}
Core == [None EXCEPT !["core"] = F]

Direct == [g |-> Graph(F, {}, None, F), b |-> Code({}, {}), own |-> Uses1("flawed", "plain")]
Through == [g |-> Graph({"core"}, {}, Core, {"core"}), b |-> Code({<<"core", "flawed">>}, {}),
            own |-> Uses1("core", "plain")]
Silent(shape) == [shape EXCEPT !.own = Uses1("flawed", "no")]

Shapes ==
  {[Direct EXCEPT !.own["flawed"] = use, !.g.imports = IF use \in {"plain", "unbound", "mention"} THEN F ELSE {},
                  !.g.tests = IF use = "tests" THEN F ELSE {}] : use \in Uses}
  \cup {[Through EXCEPT !.own["core"] = use] : use \in {"plain", "unbound", "no"}}
  \cup {[Through EXCEPT !.b = Code({}, hidden)] : hidden \in {{}, {<<"core", "flawed">>}}}
  \cup {[Through EXCEPT !.b.sources = {"core"}], [Through EXCEPT !.b.entry = FALSE]}
  \cup \* imported for development, or declared so; not used, but started; read by scope alone
  {[Direct EXCEPT !.g = Graph({}, F, None, imports)] : imports \in {{}, F}}
  \cup {[Direct EXCEPT !.g.imports = {}, !.g.tests = F, !.own["flawed"] = "tests"],
        [Direct EXCEPT !.g.imports = {}, !.g.started = F, !.own["flawed"] = "no"],
        [Direct EXCEPT !.g.js = FALSE], [Direct EXCEPT !.g.imports = {}, !.own["flawed"] = "no"]}
  \cup \* required by the project and by another package of its, for development or not
  {[Through EXCEPT !.g.prod = @ \cup F], [Through EXCEPT !.g.dev = F],
        [Through EXCEPT !.g.prod = @ \cup F, !.g.imports = @ \cup F]}
  \cup {[Through EXCEPT !.g = [Graph({}, {"core"}, Core, {"core"}) EXCEPT !.prod = F]]}
  \cup \* the same by scope alone; imported without being required, and declared for development
  {[Through EXCEPT !.g.prod = @ \cup F, !.g.js = FALSE], [Through EXCEPT !.g.imports = @ \cup F],
        [Direct EXCEPT !.g = Graph({"core"}, {}, Core, F)],
        [Through EXCEPT !.g = Graph({}, {"core"}, Core, {"core"}), !.b = Code({}, {<<"core", "flawed">>}),
                        !.own["flawed"] = "mention"]}
  \cup \* two ways, of which the second leads to it
  {[g |-> Graph({"core", "glue"}, {}, [Core EXCEPT !["glue"] = F], {"core", "glue"}),
    b |-> Code({<<"glue", "flawed">>}, {}), own |-> Uses1("glue", "plain")]}
  \cup \* two ways through one package, and a way too long to read
  {[g |-> Graph({"core", "glue"}, {}, [None EXCEPT !["core"] = {"hub"}, !["glue"] = {"hub", "inner"},
                                             !["inner"] = F, !["hub"] = F], {"core", "glue"}),
    b |-> Code({<<"glue", "inner">>, <<"inner", "flawed">>}, {}), own |-> Uses1("glue", "plain")]}
  \cup {[g |-> Graph({"app-kit"}, {}, [None EXCEPT !["app-kit"] = {"core"}, !["core"] = {"glue"},
                     !["glue"] = {"hub"}, !["hub"] = {"inner"}, !["inner"] = F], {"app-kit"}),
         b |-> Code({<<"app-kit", "core">>, <<"core", "glue">>, <<"glue", "hub">>,
                     <<"hub", "inner">>, <<"inner", "flawed">>}, {}),
         own |-> Uses1("app-kit", "plain")]}

\* What only shipping and the use of the package tell apart: the images; a peer of what is loaded,
\* under either lock file; an import in a file too large to read; a script of a script; a start
\* command without a Dockerfile.
Shippings ==
  {[Direct EXCEPT !.g = [Graph({}, F, None, {}) EXCEPT !.image = image], !.own["flawed"] = "no"] :
          image \in Images}
  \cup {[Through EXCEPT !.g = [Graph({"core"}, {"glue"}, [None EXCEPT !["glue"] = F], {"core"}) EXCEPT
                            !.peers = Core, !.lock = lock]] : lock \in {"npm", "yarn"}}
  \cup {[Through EXCEPT !.g.imports = {}, !.g.large = {"core"}, !.own["core"] = "no"],
        [Direct EXCEPT !.g.imports = {}, !.g.large = F, !.own["flawed"] = "no"],
        [Direct EXCEPT !.g.imports = {}, !.g.started = F, !.g.buried = F, !.own["flawed"] = "no"],
        [Direct EXCEPT !.g = [Graph({}, F, None, {}) EXCEPT !.started = F, !.image.read = FALSE],
                       !.own["flawed"] = "no"]}
Distant(use) ==
  [Direct EXCEPT !.g.js = FALSE, !.b.sources = {}, !.own["flawed"] = use,
                 !.g.tests = IF use = "tests" THEN F ELSE {}, !.g.imports = IF use = "tests" THEN {} ELSE F]

Event1(kind, at) == [kind |-> kind, at |-> at]
Ranges == <<Event1("introduced", 1), Event1("last_affected", 3)>>
Text(symbols) == [symbols |-> symbols, paths |-> FALSE, fixes |-> TRUE, text |-> TRUE,
                  named |-> << >>, changed |-> <<"flaw">>, php |-> FALSE]

Alternatives ==
  [shape      |-> Shapes,
   adv        |-> {[listed |-> FALSE, ranges |-> r] :
                     r \in {<<Ranges>>, << >>, <<<<Event1("introduced", 1), Event1("fixed", 2),
                                                   Event1("introduced", 3)>>>>,
                            <<<<Event1("introduced", 1), Event1("fixed", Unread)>>>>}},
   version    |-> {2, 3, 4, Unread},
   a          |-> {Text("ours"), Text("none"), Text("foreign"),
                   [Text("none") EXCEPT !.fixes = FALSE, !.paths = TRUE],
                   [Text("none") EXCEPT !.fixes = FALSE, !.text = FALSE],
                   [Text("none") EXCEPT !.fixes = FALSE],
                   [Text("ours") EXCEPT !.paths = TRUE],
                   [Text("none") EXCEPT !.fixes = FALSE, !.named = <<"bypassed", "flaw">>],
                   [Text("none") EXCEPT !.php = TRUE]},
   input      |-> {"flows", "none", "elsewhere", "reads"},
   receiver   |-> {"flawed", "other", "late"},
   condition  |-> {"none", "text", "detector", "external"},
   graph      |-> {"none", "scanner"},
   modules    |-> {<<"called", "imported">>, <<"imported", "absent">>},
   driven     |-> BOOLEAN, met |-> BOOLEAN, words |-> BOOLEAN, excluded |-> BOOLEAN,
   framework  |-> BOOLEAN, registered |-> BOOLEAN, hidden |-> BOOLEAN, stem |-> BOOLEAN,
   klass      |-> BOOLEAN, internal |-> BOOLEAN, renamed |-> BOOLEAN,
   common     |-> {{}, PackageSet}, build |-> {"no", "package", "execution"},
   gadget     |-> {"no", "text", "condition"}]

Plain ==
  [shape |-> Direct, adv |-> [listed |-> FALSE, ranges |-> <<Ranges>>], version |-> 2,
   a |-> Text("ours"), input |-> "flows", receiver |-> "flawed", condition |-> "none",
   graph |-> "none", modules |-> <<"called", "imported">>, driven |-> TRUE, met |-> TRUE,
   words |-> TRUE, excluded |-> FALSE, framework |-> FALSE, registered |-> FALSE,
   hidden |-> FALSE, stem |-> FALSE, klass |-> TRUE, internal |-> FALSE,
   renamed |-> FALSE, common |-> {}, build |-> "no", gadget |-> "no"]

Near(v, fields, others) ==
  UNION {UNION {{[v EXCEPT ![f] = y, ![h] = z] : y \in Alternatives[f], z \in Alternatives[h]} :
                f \in fields} : h \in others}
WorldOf(v) ==
  [f \in (DOMAIN v \ {"shape"}) \cup {"g", "b", "own"} |->
     IF f \in {"g", "b", "own"} THEN v.shape[f] ELSE v[f]]
Go(modules, shape) ==
  [Plain EXCEPT !.graph = "go", !.modules = modules, !.shape = [shape EXCEPT !.g.js = FALSE]]
Behind == [Plain EXCEPT !.shape = Through, !.a = Text("none")]
MCWorlds ==
  {u \in {WorldOf(v) : v \in
     {[Plain EXCEPT !.shape = shape, !.registered = r, !.hidden = h, !.build = build] :
        shape \in Shippings, r \in BOOLEAN, h \in BOOLEAN, build \in {"no", "package"}} \cup
     {[Plain EXCEPT !.shape = Distant(use), !.renamed = r, !.framework = f] :
        use \in {"plain", "unbound", "tests"}, r \in BOOLEAN, f \in BOOLEAN} \cup
     Near(Plain, DOMAIN Plain, DOMAIN Plain)
       \cup Near(Behind, {"shape", "input", "framework", "registered", "hidden"}, {"shape"})
       \cup Near(Behind, {"receiver"}, {"stem", "klass"})
       \cup Near(Go(<<"called", "imported">>, Direct), {"driven"}, DOMAIN Plain)
       \cup Near(Go(<<"imported", "absent">>, Silent(Direct)), {"driven"}, DOMAIN Plain)} : World(u)}

Symbol(fn, changed, kind, file) == [fn |-> fn, changed |-> changed, kind |-> kind, file |-> file]
Right == Symbol("flaw", TRUE, "callable", "none")
Model(first, second, context, guess) ==
  [first |-> first, second |-> second, context |-> context, guess |-> guess]
MCAnswers ==
  {Model(first, second, Failed, "none") :
     first \in {Right, Failed, Symbol("bypassed", FALSE, "callable", "none")}, second \in {Right, Failed}}
  \cup {Model(Symbol("flaw", TRUE, "type", "shipped"), Right, Failed, "flaw"),
        Model(Symbol("none", TRUE, "callable", "unshipped"), Failed, Failed, "none"),
        Model(Symbol("added", TRUE, "callable", "none"), Failed,
              [fn |-> "alien", file |-> "none", scope |-> TRUE], "none"),
        Model(Failed, Failed, [fn |-> "none", file |-> "none", scope |-> FALSE], "bypassed"),
        Model(Failed, Failed, [fn |-> "flaw", file |-> "none", scope |-> TRUE], "none")}

Base == [final |-> FALSE, untrusted |-> FALSE, engine |-> TRUE, model |-> TRUE, lsp |-> TRUE, skip |-> {},
         answers |-> {Model(Right, Right, Failed, "none"), Model(Failed, Failed, Failed, "none")}]
MCSetups == {Base, [Base EXCEPT !.engine = FALSE, !.answers = MCAnswers],
             [Base EXCEPT !.engine = FALSE, !.lsp = FALSE, !.model = FALSE],
             [Base EXCEPT !.final = TRUE, !.untrusted = TRUE,
                             !.skip = {"not_reached", "unused", "not_shipped", "test_only"}]}
=============================================================================
