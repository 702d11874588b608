------------------------------- MODULE Engine -------------------------------
(***************************************************************************)
(* The questions the dependency chain asks of CodeQL.  Before the pool the *)
(* preparation asks for all imports and all resolved functions at once;    *)
(* then the workers ask for calls and for flows, each question computed    *)
(* once per run (ChainSupport._once).  A question is a sequence of         *)
(* commands (sca/codeql_api.py, sca/codeql_reach.py); a command goes to    *)
(* one long-lived cli-server, or to a process of its own when that one     *)
(* cannot be trusted with it (sca/codeql_runner.py).                       *)
(*                                                                         *)
(* One database and one package; what CodeQL would find is `code`.         *)
(***************************************************************************)
EXTENDS Naturals, Sequences, FiniteSets

CONSTANTS
  Workers,
  Main,       \* the thread that prepares
  Functions,  \* of the package, which findings ask about
  Resolved,   \* those the preparation resolves and asks in one query
  Projects,   \* what the project may be: does it import the package, what does it call, and
              \* where does input arrive
  MaxAsked,   \* bound: questions of all workers
  MaxFaults   \* bound: deaths of a server and commands that fail

Nobody == "nobody"
ASSUME EngineAssumption ==
  /\ Main \notin Workers /\ Nobody \notin Workers \cup {Main} /\ Resolved \subseteq Functions
  /\ \A p \in Projects : /\ p.imported \in BOOLEAN /\ p.called \subseteq Functions
                       /\ p.reached \subseteq p.called
  /\ MaxAsked \in Nat /\ MaxFaults \in Nat

Actors  == Workers \cup {Main}
Imports == [kind |-> "imports", of |-> ""]
Batch   == [kind |-> "batch", of |-> ""]
Asked   == [kind : {"calls", "flow"}, of : Functions]
Keys    == Asked \cup {Imports}
NoQuestion == [kind |-> "none", of |-> ""]

\* run_imports_many, codeql_api.run and codeql_reach.run.
Commands(kind) ==
  CASE kind = "imports" -> <<"query", "decode">>
    [] kind = "flow"    -> <<"query", "second", "decode", "positions">>
    [] OTHER            -> <<"query", "decode", "path", "interpret">>

OpensDatabase(command) == command \in {"query", "second", "path"}
OnStdout(command)      == command \in {"decode", "positions"}

NoValue == [says |-> "nothing", excused |-> FALSE]
Says    == {"none", "some", "reached", "unevaluated", "problem", "raised"}
Values  == [says : Says, excused : BOOLEAN]
NoCommand == [by |-> Nobody, on |-> NoQuestion, step |-> 0]

VARIABLES
  code,    \* the project
  at,      \* where each actor is
  on,      \* its question
  step,    \* the command of it
  empty,   \* the decodes that gave it no rows, though there may be some
  excused, \* history: one of those failed on the server
  got,     \* what it was given
  left,    \* questions still to be asked
  cache, pending,
  batched, \* the shared answer for the resolved functions
  dbLock, serverLock,
  server,  \* the process: "none", "up" or "dead"
  broken,
  queue,   \* its output queue
  command, \* what it is working on
  readers, \* of dead processes, that have not yet come to the end of their stream
  faults   \* those that happened

question == <<at, on, step, empty, excused, got, left>>
shared   == <<cache, pending, batched>>
cli      == <<dbLock, serverLock, server, broken, queue, command, readers, faults>>
vars     == <<code, question, shared, cli>>

Init ==
  /\ code \in Projects
  /\ at = [a \in Actors |-> IF a = Main THEN "idle" ELSE "early"]
  /\ on = [a \in Actors |-> NoQuestion]
  /\ step = [a \in Actors |-> 0]
  /\ empty = [a \in Actors |-> {}] /\ excused = [a \in Actors |-> FALSE]
  /\ got = [a \in Actors |-> NoValue]
  /\ left = MaxAsked
  /\ cache = [k \in Keys |-> NoValue] /\ pending = [k \in Keys |-> Nobody]
  /\ batched = NoValue
  /\ dbLock = Nobody /\ serverLock = Nobody
  /\ server = "none" /\ broken = FALSE /\ queue = <<>> /\ command = NoCommand
  /\ readers = 0 /\ faults = 0

Go(a, place) == at' = [at EXCEPT ![a] = place]
Name(a) == Commands(on[a].kind)[step[a]]

-----------------------------------------------------------------------------
(* What a question comes to. *)

True(q) ==
  IF q.kind = "imports" THEN IF code.imported THEN "some" ELSE "none"
  ELSE IF q.of \in code.reached THEN "reached"
  ELSE IF q.of \in code.called THEN "some" ELSE "none"

\* The rows as they were read: without them there is no import, no call, no path.
Answer(q, unread) ==
  IF q.kind = "flow"
    THEN IF True(q) = "reached" /\ "decode" \notin unread THEN "reached"
         ELSE IF "positions" \in unread THEN "unevaluated" ELSE "some"
  ELSE IF "decode" \in unread THEN "none"
  ELSE True(q)

Problem == [says |-> "problem", excused |-> FALSE]
Raised  == [says |-> "raised", excused |-> FALSE]

\* codeql_api.run does not look for a path when there is no call.
AnyCall(q, unread) ==
  /\ "decode" \notin unread
  /\ IF q.kind = "batch" THEN code.called \cap Resolved # {} ELSE q.of \in code.called

FreeDatabase(a) == dbLock' = IF dbLock = a THEN Nobody ELSE dbLock

\* The command succeeded: the next one, or the answer by what was read.
Advance(a, unread, excuse) ==
  /\ FreeDatabase(a)
  /\ empty' = [empty EXCEPT ![a] = unread] /\ excused' = [excused EXCEPT ![a] = excuse]
  /\ IF \/ step[a] = Len(Commands(on[a].kind))
        \/ Name(a) = "decode" /\ on[a].kind \in {"calls", "batch"} /\ ~AnyCall(on[a], unread)
       THEN /\ Go(a, "publish") /\ UNCHANGED step
            /\ got' = [got EXCEPT ![a] = [says |-> Answer(on[a], unread), excused |-> excuse]]
       ELSE Go(a, "begin") /\ step' = [step EXCEPT ![a] = @ + 1] /\ UNCHANGED got

\* It failed, which ends the question.
Fail(a) ==
  /\ FreeDatabase(a)
  /\ Go(a, "publish") /\ got' = [got EXCEPT ![a] = Problem]
  /\ UNCHANGED <<step, empty, excused>>

\* It did not end in time, or did not start.  The second decode of a flow is not guarded.
Expire(a) ==
  IF Name(a) = "positions"
    THEN /\ FreeDatabase(a) /\ Go(a, "release")
         /\ got' = [got EXCEPT ![a] = Raised] /\ UNCHANGED <<step, empty, excused>>
    ELSE Fail(a)

-----------------------------------------------------------------------------
(* The preparation: ChainOrchestration.prepare, before any worker. *)

Ask(a, q, place) ==
  /\ Go(a, place)
  /\ on' = [on EXCEPT ![a] = q] /\ step' = [step EXCEPT ![a] = 1]
  /\ empty' = [empty EXCEPT ![a] = {}] /\ excused' = [excused EXCEPT ![a] = FALSE]
  /\ got' = [got EXCEPT ![a] = NoValue]

PrefillImports ==
  /\ at[Main] = "idle" /\ on[Main] = NoQuestion
  /\ Ask(Main, Imports, "begin")
  /\ UNCHANGED <<code, left, shared, cli>>

Leave(a) ==
  /\ on' = [on EXCEPT ![a] = NoQuestion] /\ step' = [step EXCEPT ![a] = 0]
  /\ empty' = [empty EXCEPT ![a] = {}] /\ excused' = [excused EXCEPT ![a] = FALSE]
  /\ got' = [got EXCEPT ![a] = NoValue]

StartWorkers ==
  /\ at' = [a \in Actors |-> IF a = Main THEN "finished" ELSE "idle"]
  /\ Leave(Main)

\* setdefault, and unless the package is not imported, the query for what was resolved.
KeepImports ==
  /\ at[Main] = "publish" /\ on[Main] = Imports
  /\ cache' = [cache EXCEPT ![Imports] = IF @ = NoValue THEN got[Main] ELSE @]
  /\ IF got[Main].says # "none" /\ Resolved # {}
       THEN Ask(Main, Batch, "begin")
       ELSE StartWorkers
  /\ UNCHANGED <<code, left, pending, batched, cli>>

\* An answer with a problem is dropped: each question is then asked by itself.
KeepBatch ==
  /\ at[Main] = "publish" /\ on[Main] = Batch
  /\ batched' = IF got[Main] = Problem THEN NoValue
                ELSE [says |-> IF "decode" \in empty[Main] THEN "none" ELSE "some",
                      excused |-> excused[Main]]
  /\ StartWorkers
  /\ UNCHANGED <<code, left, cache, pending, cli>>

-----------------------------------------------------------------------------
(* A worker's question: _codeql_api_for, _dataflow_for and _once. *)

NotImported == cache[Imports].says = "none"

\* The answer of the shared query for one function.
Shared(f) == [batched EXCEPT !.says = IF @ = "none" THEN "none" ELSE True([kind |-> "calls", of |-> f])]

\* Nothing to ask CodeQL: no import, so no call; or the shared query had the function.
Told(w, q) ==
  /\ q.kind = "calls"
  /\ NotImported \/ (batched # NoValue /\ q.of \in Resolved)

Question(w, q) ==
  /\ at[w] = "idle" /\ left > 0 /\ (q.kind = "flow" => q.of \in code.called)
  /\ left' = left - 1
  /\ IF Told(w, q)
       THEN /\ Go(w, "told") /\ on' = [on EXCEPT ![w] = q]
            /\ got' = [got EXCEPT ![w] = IF NotImported
                         THEN [says |-> "none", excused |-> cache[Imports].excused] ELSE Shared(q.of)]
            /\ UNCHANGED <<step, empty, excused>>
       ELSE Ask(w, q, "asking")
  /\ UNCHANGED <<code, shared, cli>>

JoinAnyway(w) ==  \* fault: nobody looks whether it is being computed
  /\ at[w] = "asking"
  /\ IF cache[on[w]] # NoValue
       THEN Go(w, "answered") /\ got' = [got EXCEPT ![w] = cache[on[w]]] /\ UNCHANGED pending
       ELSE Go(w, "begin") /\ pending' = [pending EXCEPT ![on[w]] = w] /\ UNCHANGED got
  /\ UNCHANGED <<code, on, step, empty, excused, left, cache, batched, cli>>

\* _once, under its lock: kept, being computed by another, or one's own to compute.
Join(w) ==
  /\ at[w] = "asking"
  /\ IF cache[on[w]] # NoValue
       THEN Go(w, "answered") /\ got' = [got EXCEPT ![w] = cache[on[w]]] /\ UNCHANGED pending
     ELSE IF pending[on[w]] # Nobody
       THEN Go(w, "waiting") /\ UNCHANGED <<pending, got>>
     ELSE Go(w, "begin") /\ pending' = [pending EXCEPT ![on[w]] = w] /\ UNCHANGED got
  /\ UNCHANGED <<code, on, step, empty, excused, left, cache, batched, cli>>

Publish(w) ==
  /\ w # Main /\ at[w] = "publish"
  /\ cache' = [cache EXCEPT ![on[w]] = got[w]]
  /\ Go(w, "release")
  /\ UNCHANGED <<code, on, step, empty, excused, got, left, pending, batched, cli>>

ReleaseKept(w) ==  \* fault: the event is set by the computation that ends well
  /\ w # Main /\ at[w] = "release"
  /\ pending' = IF got[w] = Raised THEN pending ELSE [pending EXCEPT ![on[w]] = Nobody]
  /\ at' = [a \in Actors |-> IF a = w THEN "answered"
                              ELSE IF at[a] = "waiting" /\ on[a] = on[w] /\ got[w] # Raised
                                THEN "asking" ELSE at[a]]
  /\ UNCHANGED <<code, on, step, empty, excused, got, left, cache, batched, cli>>

\* The finally of _once: whoever waits looks again, and computes when there is nothing.
Release(w) ==
  /\ w # Main /\ at[w] = "release"
  /\ pending' = [pending EXCEPT ![on[w]] = Nobody]
  /\ at' = [a \in Actors |-> IF a = w THEN "answered"
                              ELSE IF at[a] = "waiting" /\ on[a] = on[w] THEN "asking" ELSE at[a]]
  /\ UNCHANGED <<code, on, step, empty, excused, got, left, cache, batched, cli>>

Done(w) ==
  /\ at[w] \in {"told", "answered"}
  /\ Go(w, "idle") /\ Leave(w)
  /\ UNCHANGED <<code, left, shared, cli>>

-----------------------------------------------------------------------------
(* A command: run_codeql, via_server and _CliServer.run. *)

Fault == faults < MaxFaults /\ faults' = faults + 1

\* One evaluation of a database at a time.
Lock(a) ==
  /\ at[a] = "begin"
  /\ IF OpensDatabase(Name(a)) THEN dbLock = Nobody /\ dbLock' = a ELSE UNCHANGED dbLock
  /\ Go(a, "locked")
  /\ UNCHANGED <<code, on, step, empty, excused, got, left, shared,
                 serverLock, server, broken, queue, command, readers, faults>>

\* The old output file is gone before the command is sent.  A server that is not there, or
\* is dead by now, is started first, with a queue of its own.
Send(a) ==
  /\ at[a] = "locked" /\ serverLock = Nobody /\ ~broken
  /\ server' = "up" /\ queue' = IF server = "up" THEN queue ELSE <<>>
  /\ command' = [by |-> a, on |-> on[a], step |-> step[a]]
  /\ serverLock' = a /\ Go(a, "server")
  /\ UNCHANGED <<code, on, step, empty, excused, got, left, shared, dbLock, broken, readers, faults>>

\* The server is off, or does not start.
Bypass(a) ==
  /\ at[a] = "locked" /\ serverLock = Nobody
  /\ IF broken THEN UNCHANGED <<broken, faults>>
     ELSE server # "up" /\ Fault /\ broken' = TRUE
  /\ Go(a, "process")
  /\ UNCHANGED <<code, on, step, empty, excused, got, left, shared,
                 dbLock, serverLock, server, queue, command, readers>>

DisableAlive ==  \* fault: the process is left to itself
  broken' = TRUE /\ UNCHANGED <<server, command>>
\* _disable: off for the rest of the run, the process ended.
Disable ==
  broken' = TRUE /\ server' = "none" /\ command' = NoCommand

\* Its output and a NUL.  The protocol has no exit status: `did` is not in it.
Reply ==
  /\ server = "up" /\ command # NoCommand
  /\ \E did \in BOOLEAN :
       /\ queue' = Append(queue, [of |-> command, did |-> did])
       /\ IF did THEN UNCHANGED faults ELSE Fault
  /\ command' = NoCommand
  /\ UNCHANGED <<code, question, shared, dbLock, serverLock, server, broken, readers>>

Die ==
  /\ server = "up" /\ Fault
  /\ server' = "dead" /\ command' = NoCommand
  /\ readers' = readers + 1
  /\ UNCHANGED <<code, question, shared, dbLock, serverLock, broken, queue>>

\* A reader puts its end of stream into the queue there is by now.
EndOfStream ==
  /\ readers > 0 /\ readers' = readers - 1
  /\ queue' = Append(queue, [of |-> NoCommand, did |-> FALSE])
  /\ UNCHANGED <<code, question, shared, dbLock, serverLock, server, broken, command, faults>>

Mine(a) == [by |-> a, on |-> on[a], step |-> step[a]]

\* What the command is judged by: the file it had to write, or its output as it is.
Receive(a) ==
  LET reply == Head(queue)
      own   == reply.of = Mine(a) IN
  /\ at[a] = "server" /\ queue # <<>>
  /\ queue' = Tail(queue) /\ serverLock' = Nobody
  /\ IF reply.of = NoCommand
       THEN /\ Disable /\ Go(a, "process")
            /\ UNCHANGED <<step, empty, excused, got, dbLock>>
     ELSE IF OnStdout(Name(a))
       THEN /\ Advance(a, IF own /\ reply.did THEN empty[a] ELSE empty[a] \cup {Name(a)},
                       excused[a] \/ (own /\ ~reply.did))
            /\ UNCHANGED <<server, broken, command>>
     ELSE IF own /\ reply.did
       THEN Advance(a, empty[a], excused[a]) /\ UNCHANGED <<server, broken, command>>
     ELSE Go(a, "process") /\ UNCHANGED <<step, empty, excused, got, dbLock, server, broken, command>>
  /\ UNCHANGED <<code, on, left, shared, readers, faults>>

TimeoutKept(a) ==  \* fault: a slow server is asked again
  /\ at[a] = "server" /\ queue = <<>>
  /\ Expire(a) /\ serverLock' = Nobody
  /\ UNCHANGED <<code, on, left, shared, server, broken, command, queue, readers, faults>>

\* No answer in time: a late one finds nobody, since the server is ended.
Timeout(a) ==
  /\ at[a] = "server" /\ queue = <<>>
  /\ Disable /\ Expire(a) /\ serverLock' = Nobody
  /\ UNCHANGED <<code, on, left, shared, queue, readers, faults>>

\* A process of its own has an exit code.
Process(a) ==
  /\ at[a] = "process"
  /\ \/ Advance(a, empty[a], excused[a]) /\ UNCHANGED faults
     \/ (Fail(a) \/ Expire(a)) /\ Fault
  /\ UNCHANGED <<code, on, left, shared, serverLock, server, broken, queue, command, readers>>

Command(a) == Lock(a) \/ Send(a) \/ Bypass(a) \/ Receive(a) \/ Timeout(a) \/ Process(a)
Worker(w) ==
  Join(w) \/ Publish(w) \/ Release(w) \/ Done(w) \/ \E q \in Asked : Question(w, q)
Server == Reply \/ Die \/ EndOfStream
Prepare == PrefillImports \/ KeepImports \/ KeepBatch

Next ==
  \/ Prepare \/ Server
  \/ \E a \in Actors : Command(a)
  \/ \E w \in Workers : Worker(w)

\* Locks are given to whoever waits for them; a command has its time limit.
Fairness ==
  /\ WF_vars(Prepare)
  /\ \A w \in Workers : WF_vars(Join(w) \/ Publish(w) \/ Release(w) \/ Done(w))
  /\ \A a \in Actors : SF_vars(Command(a))

Spec == Init /\ [][Next]_vars /\ Fairness

-----------------------------------------------------------------------------
(* Properties. *)

TypeOK ==
  /\ at \in [Actors -> {"early", "idle", "asking", "waiting", "begin", "locked", "server", "process",
                        "publish", "release", "told", "answered", "finished"}]
  /\ on \in [Actors -> Keys \cup {Batch, NoQuestion}]
  /\ step \in [Actors -> 0..4] /\ empty \in [Actors -> SUBSET {"decode", "positions"}]
  /\ excused \in [Actors -> BOOLEAN] /\ got \in [Actors -> Values \cup {NoValue}]
  /\ cache \in [Keys -> Values \cup {NoValue}] /\ pending \in [Keys -> Workers \cup {Nobody}]
  /\ dbLock \in Actors \cup {Nobody} /\ serverLock \in Actors \cup {Nobody}
  /\ server \in {"none", "up", "dead"} /\ broken \in BOOLEAN
  /\ readers \in 0..MaxFaults /\ faults \in 0..MaxFaults

\* What is kept of a question is what CodeQL found, or says that it is not known: whatever
\* dies, hangs or restarts, no other command's answer is taken for its own, and a command that
\* wrote nothing is not a search that found nothing -- but for a decode that failed on the
\* server, whose whole answer is its output.
AnswersTrue ==
  \A q \in Keys :
    cache[q] # NoValue /\ ~cache[q].excused
      => cache[q].says \in {True(q), "problem"} \cup (IF q.kind = "flow" THEN {"unevaluated"} ELSE {})

\* Two evaluations never share the database: not those of two workers, and not the process
\* that repeats a command with a server that still works on it.
Evaluating == command # NoCommand /\ OpensDatabase(Commands(command.on.kind)[command.step])
OneEvaluation ==
  \A a, b \in Actors :
    at[a] = "process" /\ OpensDatabase(Name(a))
      => ~Evaluating /\ (at[b] = "process" /\ OpensDatabase(Name(b)) => a = b)

\* _once keeps its promise.
Leading == {"begin", "locked", "server", "process", "publish"}
Working == [k \in Keys |-> {a \in Actors : on[a] = k /\ at[a] \in Leading}]
Given   == [a \in Actors |-> IF at[a] = "answered" /\ got[a] # Raised THEN got[a] ELSE NoValue]
Flight  == INSTANCE SingleFlight WITH
  Askers <- Actors, value <- cache, working <- Working, given <- Given
FlightKept == Flight!Spec

\* Every question ends, also when the one who computes it for the others fails.
EveryQuestionEnds ==
  \A w \in Workers : at[w] = "asking" ~> at[w] = "idle"
=============================================================================
