------------------------------- MODULE LspClient -------------------------------
(***************************************************************************)
(* One language server driven by the workers that triage findings          *)
(* (lsp/client.py).  A question about a file first tells the server of it  *)
(* (open_document, whose failure the caller ignores), then asks            *)
(* (_request).  One message at a time: the client's lock is held from the  *)
(* write to the answer, and every wait has a deadline.                     *)
(*                                                                         *)
(* A server that does not read or does not answer is paused, in the end    *)
(* switched off; one that dies or takes half a message is dropped, and the *)
(* next question starts another in its place, in a thread of its own.      *)
(* Most checks of these marks are made without the lock; that _broken is   *)
(* set is not looked at again when the lock of the restarts is taken, so a *)
(* thread that comes late restarts a server that is well (`late`).         *)
(***************************************************************************)
EXTENDS Naturals, FiniteSets

CONSTANTS
  Callers,      \* the workers
  Doc,          \* Doc[c]: the file c asks about
  MaxRow,       \* max_consecutive_timeouts
  MaxPauses,    \* max_pauses
  MaxRestarts,  \* max_restarts
  MaxAsks,      \* bound: questions asked in all
  MaxDeaths     \* bound: servers that die by themselves

ASSUME LspAssumption ==
  /\ IsFiniteSet(Callers) /\ "restart" \notin Callers /\ "nobody" \notin Callers
  /\ DOMAIN Doc = Callers
  /\ MaxRow \in Nat \ {0} /\ MaxPauses \in Nat /\ MaxRestarts \in Nat
  /\ MaxAsks \in Nat /\ MaxDeaths \in Nat

VARIABLES
  gen,       \* servers started so far; the last one is the client's
  up,        \* _proc is not None
  alive,     \* the servers whose process runs
  ready,     \* the last server got its initialize
  told,      \* files the last server was told about
  broken,    \* _broken
  started,   \* started
  off,       \* disabled and _paused_until: "no", "paused", "over" (a pause), "off"
  row,       \* _timeouts_in_row
  pauses, restarts,
  opened,    \* _opened
  lock,      \* _lock: who holds it
  relock,    \* _restart_lock is held
  pc, asks,  \* the workers, and the questions asked
  rpc,       \* the thread of _restart
  reason,    \* what it took from _broken: there was something to restart for
  late,      \* history: restarts begun with nothing broken
  deaths

server == <<gen, alive, ready, told>>
link   == <<up, broken, started>>
marks  == <<off, row, pauses>>
tries  == <<restarts, reason, late>>
lspvars == <<server, link, marks, tries, opened, lock, relock, pc, asks, rpc, deaths>>

Docs    == {Doc[c] : c \in Callers}
Nobody  == "nobody"
Restart == "restart"

\* The service publishes a client when its server is up.
LspInit ==
  /\ gen = 1 /\ up = TRUE /\ alive = {1} /\ ready = TRUE /\ told = {}
  /\ broken = FALSE /\ started = TRUE
  /\ off = "no" /\ row = 0 /\ pauses = 0 /\ restarts = 0
  /\ opened = {} /\ lock = Nobody /\ relock = FALSE
  /\ pc = [c \in Callers |-> "idle"] /\ asks = 0
  /\ rpc = "none" /\ reason = TRUE /\ late = 0 /\ deaths = 0

Goto(c, label) == pc' = [pc EXCEPT ![c] = label]

-----------------------------------------------------------------------------
(* What a write or a silence does to the marks. *)

\* _pause: for a while, for the run once the pauses ran out.
Pause ==
  /\ IF off # "no"
       THEN UNCHANGED marks
       ELSE /\ row' = 0
            /\ IF pauses < MaxPauses
                 THEN off' = "paused" /\ pauses' = pauses + 1
                 ELSE off' = "off" /\ UNCHANGED pauses

\* Fault: the process is forgotten, and runs on.
DropAlive ==
  /\ broken' = TRUE /\ started' = FALSE /\ up' = FALSE
  /\ UNCHANGED <<gen, alive, ready, told>>

\* _drop: the process is killed.
Drop ==
  /\ broken' = TRUE /\ started' = FALSE /\ up' = FALSE
  /\ alive' = alive \ {gen}
  /\ UNCHANGED <<gen, ready, told>>

\* _write takes the whole message.
Sendable == up /\ ~broken
Heard    == Sendable /\ gen \in alive

\* _write raises: no server; nothing of the message went out, or not all of it.
Unsent ==
  \/ ~Sendable /\ UNCHANGED <<server, link, marks>>
  \/ Sendable /\ gen \in alive /\ Pause /\ UNCHANGED <<server, link>>
  \/ Sendable /\ Drop /\ UNCHANGED marks

\* _give_up cancels the request, and whatever becomes of that is only logged.
Cancelled == Unsent \/ (Heard /\ UNCHANGED <<server, link, marks>>)

-----------------------------------------------------------------------------
(* open_document and _notify. *)

Open(c) ==
  /\ pc[c] = "idle" /\ asks < MaxAsks
  /\ asks' = asks + 1
  /\ Goto(c, IF Doc[c] \in opened \/ broken \/ ~started \/ off # "no" THEN "ask" ELSE "notify")
  /\ UNCHANGED <<server, link, marks, tries, opened, lock, relock, rpc, deaths>>

NotifyLock(c) ==
  /\ pc[c] = "notify" /\ lock = Nobody
  /\ lock' = c
  /\ Goto(c, "tell")
  /\ UNCHANGED <<server, link, marks, tries, opened, relock, asks, rpc, deaths>>

NotifyLate(c) ==
  /\ pc[c] = "notify" /\ lock # Nobody
  /\ Goto(c, "ask")
  /\ UNCHANGED <<server, link, marks, tries, opened, lock, relock, asks, rpc, deaths>>

Tell(c) ==
  /\ pc[c] = "tell" /\ Heard
  /\ told' = told \cup {Doc[c]}
  /\ lock' = Nobody
  /\ Goto(c, "opened")
  /\ UNCHANGED <<gen, alive, ready, link, marks, tries, opened, relock, asks, rpc, deaths>>

TellFails(c) ==
  /\ pc[c] = "tell" /\ Unsent
  /\ lock' = Nobody
  /\ Goto(c, "ask")
  /\ UNCHANGED <<tries, opened, relock, asks, rpc, deaths>>

\* The lock is free again when the file is noted.
Opened(c) ==
  /\ pc[c] = "opened"
  /\ opened' = opened \cup {Doc[c]}
  /\ Goto(c, "ask")
  /\ UNCHANGED <<server, link, marks, tries, lock, relock, asks, rpc, deaths>>

-----------------------------------------------------------------------------
(* _request. *)

\* _reconnect: the connection is found broken.
FindBroken(c) ==
  /\ pc[c] = "ask" /\ broken
  /\ Goto(c, "restart")
  /\ UNCHANGED <<server, link, marks, tries, opened, lock, relock, asks, rpc, deaths>>

\* Then the lock is tried, whatever became of the connection meanwhile: one restart at a time,
\* none when all are used up, which is marked with what is broken, if anything still is.
Reconnect(c) ==
  /\ pc[c] = "restart"
  /\ \/ relock /\ UNCHANGED <<off, restarts, relock, rpc>>
     \/ /\ ~relock /\ restarts >= MaxRestarts
        /\ off' = IF off = "no" /\ broken THEN "off" ELSE off
        /\ UNCHANGED <<restarts, relock, rpc>>
     \/ /\ ~relock /\ restarts < MaxRestarts
        /\ restarts' = restarts + 1 /\ relock' = TRUE /\ rpc' = "restart"
        /\ UNCHANGED off
  /\ Goto(c, "idle")
  /\ UNCHANGED <<server, link, row, pauses, reason, late, opened, lock, asks, deaths>>

\* Not started, paused or off: no answer.  A pause that is over ends in _usable.
AskServer(c) ==
  /\ pc[c] = "ask" /\ ~broken
  /\ Goto(c, CASE ~started \/ off \in {"paused", "off"} -> "idle"
               [] started /\ off = "over"               -> "resume"
               [] started /\ off = "no"                 -> "wait")
  /\ UNCHANGED <<server, link, marks, tries, opened, lock, relock, asks, rpc, deaths>>

Resume(c) ==
  /\ pc[c] = "resume"
  /\ off' = "no"
  /\ Goto(c, "wait")
  /\ UNCHANGED <<server, link, row, pauses, tries, opened, lock, relock, asks, rpc, deaths>>

AskLock(c) ==
  /\ pc[c] = "wait" /\ lock = Nobody
  /\ lock' = c
  /\ Goto(c, "send")
  /\ UNCHANGED <<server, link, marks, tries, opened, relock, asks, rpc, deaths>>

AskLate(c) ==
  /\ pc[c] = "wait" /\ lock # Nobody
  /\ Goto(c, "idle")
  /\ UNCHANGED <<server, link, marks, tries, opened, lock, relock, asks, rpc, deaths>>

\* The marks once more, under the lock.
SendNot(c) ==
  /\ pc[c] = "send" /\ (broken \/ off # "no")
  /\ lock' = Nobody
  /\ Goto(c, "idle")
  /\ UNCHANGED <<server, link, marks, tries, opened, relock, asks, rpc, deaths>>

Send(c) ==
  /\ pc[c] = "send" /\ ~broken /\ off = "no" /\ Heard
  /\ Goto(c, "read")
  /\ UNCHANGED <<server, link, marks, tries, opened, lock, relock, asks, rpc, deaths>>

SendFails(c) ==
  /\ pc[c] = "send" /\ ~broken /\ off = "no" /\ Unsent
  /\ lock' = Nobody
  /\ Goto(c, "idle")
  /\ UNCHANGED <<tries, opened, relock, asks, rpc, deaths>>

\* _note_latency of an answer, from the server that was asked: one replaced meanwhile may run on.
Answered(c) ==
  /\ pc[c] = "read" /\ alive # {}
  /\ row' = 0
  /\ lock' = Nobody
  /\ Goto(c, "idle")
  /\ UNCHANGED <<server, link, off, pauses, tries, opened, relock, asks, rpc, deaths>>

\* Fault: without a deadline only the end of the stream ends the wait.
GiveUpAtEnd(c) ==
  /\ pc[c] = "read" /\ alive = {}
  /\ Cancelled
  /\ Goto(c, "given_up")
  /\ UNCHANGED <<tries, opened, lock, relock, asks, rpc, deaths>>

\* The deadline, or the end of the stream: the request is given up, and the silence
\* counted unless the server was dropped meanwhile.
GiveUp(c) ==
  /\ pc[c] = "read"
  /\ IF broken
       THEN /\ lock' = Nobody
            /\ Goto(c, "idle")
            /\ UNCHANGED <<server, link, marks>>
       ELSE /\ Cancelled
            /\ Goto(c, "given_up")
            /\ UNCHANGED lock
  /\ UNCHANGED <<tries, opened, relock, asks, rpc, deaths>>

\* A late answer to a request given up before, met while this one waits.
LateAnswer(c) ==
  /\ pc[c] = "read" /\ alive # {} /\ row > 0
  /\ row' = 0
  /\ UNCHANGED <<server, link, off, pauses, tries, opened, lock, relock, pc, asks, rpc, deaths>>

\* _note_latency of a silence; a search may take its time and is not counted, and a
\* server that was heard of meanwhile is not paused.
Silence(c) ==
  /\ pc[c] = "given_up"
  /\ \/ UNCHANGED marks
     \/ row' = (IF row < MaxRow THEN row + 1 ELSE row) /\ UNCHANGED <<off, pauses>>
     \/ row + 1 >= MaxRow /\ off = "no" /\ Pause
  /\ lock' = Nobody
  /\ Goto(c, "idle")
  /\ UNCHANGED <<server, link, tries, opened, relock, asks, rpc, deaths>>

-----------------------------------------------------------------------------
(* _restart and start. *)

Reason ==
  /\ rpc = "restart"
  /\ reason' = broken
  /\ late' = IF broken THEN late ELSE late + 1
  /\ opened' = {}
  /\ rpc' = "clear"
  /\ UNCHANGED <<server, link, marks, restarts, lock, relock, pc, asks, deaths>>

Clear ==
  /\ rpc = "clear"
  /\ broken' = FALSE /\ off' = "no" /\ row' = 0
  /\ rpc' = "popen"
  /\ UNCHANGED <<server, up, started, pauses, tries, opened, lock, relock, pc, asks, deaths>>

\* The new process takes the place of whatever is in _proc, and nobody stops that.
Popen ==
  /\ rpc = "popen"
  /\ gen' = gen + 1 /\ up' = TRUE
  /\ alive' = alive \cup {gen + 1} /\ ready' = FALSE /\ told' = {}
  /\ rpc' = "init"
  /\ UNCHANGED <<broken, started, marks, tries, opened, lock, relock, pc, asks, deaths>>

PopenFails ==
  /\ rpc = "popen"
  /\ rpc' = "fail"
  /\ UNCHANGED <<server, link, marks, tries, opened, lock, relock, pc, asks, deaths>>

\* initialize, initialized, the probe of the index and the goodbye (one message stands for
\* shutdown and exit) are messages like any other.
RestartLock ==
  /\ rpc \in {"init", "inform", "index", "stop"} /\ lock = Nobody
  /\ lock' = Restart
  /\ rpc' = CASE rpc = "init"  -> "initialize" [] rpc = "inform" -> "initialized"
              [] rpc = "index" -> "probe"      [] rpc = "stop"   -> "shutdown"
  /\ UNCHANGED <<server, link, marks, tries, opened, relock, pc, asks, deaths>>

RestartLate ==
  /\ rpc \in {"init", "inform", "index", "stop"} /\ lock # Nobody
  /\ rpc' = CASE rpc = "init"  -> "stop" [] rpc = "inform" -> "started"
              [] rpc = "index" -> "end"  [] rpc = "stop"   -> "kill"
  /\ UNCHANGED <<server, link, marks, tries, opened, lock, relock, pc, asks, deaths>>

Initialize ==
  /\ rpc = "initialize"
  /\ \/ /\ Heard
        /\ ready' = TRUE /\ rpc' = "inform"
        /\ UNCHANGED <<gen, alive, told, link, marks>>
     \/ /\ Unsent
        /\ rpc' = "stop"
     \/ /\ Heard /\ Cancelled
        /\ rpc' = "stop"
  /\ lock' = Nobody
  /\ UNCHANGED <<tries, opened, relock, pc, asks, deaths>>

Initialized ==
  /\ rpc = "initialized"
  /\ Cancelled
  /\ lock' = Nobody /\ rpc' = "started"
  /\ UNCHANGED <<tries, opened, relock, pc, asks, deaths>>

Started ==
  /\ rpc = "started"
  /\ started' = TRUE
  /\ rpc' = "index"
  /\ UNCHANGED <<server, up, broken, marks, tries, opened, lock, relock, pc, asks, deaths>>

\* _await_index; its requests are not tracked.
Probe ==
  /\ rpc = "probe"
  /\ Cancelled
  /\ lock' = Nobody /\ rpc' = "end"
  /\ UNCHANGED <<tries, opened, relock, pc, asks, deaths>>

Shutdown ==
  /\ rpc = "shutdown"
  /\ Cancelled
  /\ lock' = Nobody /\ rpc' = "kill"
  /\ UNCHANGED <<tries, opened, relock, pc, asks, deaths>>

\* stop, which holds no lock when it kills; nothing to kill, nothing to stop.
StopServer ==
  /\ rpc = "kill"
  /\ up' = FALSE
  /\ started' = IF up THEN FALSE ELSE started
  /\ alive' = IF up THEN alive \ {gen} ELSE alive
  /\ rpc' = "fail"
  /\ UNCHANGED <<gen, ready, told, broken, marks, tries, opened, lock, relock, pc, asks, deaths>>

\* Fault: a start that failed leaves the client neither up nor broken.
FailSilently ==
  /\ rpc = "fail"
  /\ rpc' = "end"
  /\ UNCHANGED <<server, link, marks, tries, opened, lock, relock, pc, asks, deaths>>

\* The reason is put back, which is none when nothing was broken.
Fail ==
  /\ rpc = "fail"
  /\ broken' = reason
  /\ rpc' = "end"
  /\ UNCHANGED <<server, up, started, marks, tries, opened, lock, relock, pc, asks, deaths>>

\* Fault: the restart lock is released by a restart that succeeded only.
EndWell ==
  /\ rpc = "end"
  /\ relock' = broken /\ rpc' = "none"
  /\ UNCHANGED <<server, link, marks, tries, opened, lock, pc, asks, deaths>>

End ==
  /\ rpc = "end"
  /\ relock' = FALSE /\ rpc' = "none"
  /\ UNCHANGED <<server, link, marks, tries, opened, lock, pc, asks, deaths>>

-----------------------------------------------------------------------------
(* What the client does not control. *)

Die ==
  /\ deaths < MaxDeaths
  /\ \E g \in alive : alive' = alive \ {g}
  /\ deaths' = deaths + 1
  /\ UNCHANGED <<gen, ready, told, link, marks, tries, opened, lock, relock, pc, asks, rpc>>

\* _paused_until has come.
PauseOver ==
  /\ off = "paused"
  /\ off' = "over"
  /\ UNCHANGED <<server, link, row, pauses, tries, opened, lock, relock, pc, asks, rpc, deaths>>

CallerStep(c) ==
  \/ Open(c) \/ NotifyLock(c) \/ NotifyLate(c) \/ Tell(c) \/ TellFails(c) \/ Opened(c)
  \/ FindBroken(c) \/ Reconnect(c) \/ AskServer(c) \/ Resume(c) \/ AskLock(c) \/ AskLate(c)
  \/ SendNot(c) \/ Send(c) \/ SendFails(c)
  \/ GiveUp(c) \/ Silence(c)

Answer(c) == Answered(c) \/ LateAnswer(c)

RestartStep ==
  \/ Reason \/ Clear \/ Popen \/ PopenFails
  \/ RestartLock \/ RestartLate \/ Initialize \/ Initialized \/ Started \/ Probe
  \/ Shutdown \/ StopServer \/ Fail \/ End

LspNext ==
  \/ \E c \in Callers : CallerStep(c) \/ Answer(c)
  \/ RestartStep
  \/ Die \/ PauseOver

\* Every wait has a deadline, so a thread goes on whether the server answers or not.
LspSpec == LspInit /\ [][LspNext]_lspvars /\ WF_lspvars(RestartStep) /\ \A c \in Callers : WF_lspvars(CallerStep(c))

-----------------------------------------------------------------------------
(* Correctness. *)

\* The shape of the state.
LspTypeOK ==
  /\ gen \in 1..(1 + MaxRestarts) /\ alive \subseteq 1..gen /\ ready \in BOOLEAN
  /\ told \subseteq Docs /\ opened \subseteq Docs
  /\ up \in BOOLEAN /\ broken \in BOOLEAN /\ started \in BOOLEAN /\ relock \in BOOLEAN
  /\ off \in {"no", "paused", "over", "off"} /\ row \in 0..MaxRow
  /\ pauses \in 0..MaxPauses /\ restarts \in 0..MaxRestarts
  /\ lock \in Callers \cup {Nobody, Restart}
  /\ reason \in BOOLEAN /\ late \in 0..restarts
  /\ pc \in [Callers -> {"idle", "notify", "tell", "opened", "ask", "restart", "resume", "wait",
                         "send", "read", "given_up"}]
  /\ asks \in 0..MaxAsks /\ deaths \in 0..MaxDeaths
  /\ rpc \in {"none", "restart", "clear", "popen", "init", "initialize", "inform", "initialized", "started",
             "index", "probe", "stop", "shutdown", "kill", "fail", "end"}

\* The processes the client has no hold of any more.
LeftBehind == alive \ (IF up THEN {gen} ELSE {})

\* No server is left running by a drop, by a start that failed or by the goodbye to one,
\* whatever the callers did to it meanwhile (_drop, stop).  What is left behind is what a late
\* restart found well and replaced: one server for each such restart, and no more.
NoOrphan == Cardinality(LeftBehind) <= late

\* _reconnect: "Start a new server in place of a dropped one".  No start replaces a server the
\* client still holds.
InPlaceOfDropped == [][gen' # gen => ~up]_lspvars

\* A client that is not being restarted is either usable or marked for a restart; one that
\* is neither would answer nothing for the rest of the run (_restart, _reconnect, start).
\* Only a restart with no reason, when its start fails, leaves the client like that: what it
\* puts back into _broken is nothing.
NeverWedged == ~relock /\ reason => broken \/ (started /\ up)

\* Every restart comes to an end, so that the next one can begin (_restart).
RestartEnds == relock ~> ~relock

\* Every question ends, answered or not, however silent the server is (_request).
QuestionsEnd == \A c \in Callers : pc[c] # "idle" ~> pc[c] = "idle"

\* "A notification ... not sent while the server is paused or restarting" (_notify).
NotSentWhilePaused ==
  [][\A c \in Callers : pc[c] = "tell" /\ pc'[c] = "opened" => off = "no" /\ ~relock]_lspvars
=============================================================================
