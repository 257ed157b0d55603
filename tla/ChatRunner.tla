----------------------------- MODULE ChatRunner -----------------------------
(***************************************************************************)
(* The runner of one chat (apps/daemon/src/chats/runner.ts): the runs of   *)
(* its agent process, and the messages, cancels, picks, answers, stops and *)
(* ends that clients ask for while a run starts, works and ends.           *)
(*                                                                         *)
(* The daemon is one JavaScript thread, so an action is what one handler   *)
(* does from one `await` to the next.  What another actor does in between  *)
(* is an action of its own: the end of a write of the log, an answer of    *)
(* the agent, the exit of its process, the idle timer, a call of a client. *)
(* The agent and the file system are modelled only by what they can do to  *)
(* the runner.                                                             *)
(***************************************************************************)
EXTENDS ChatFold, FiniteSets, SequencesExt

CONSTANTS
  MaxRuns,        \* bound: the runs of the chat in this daemon
  MaxPicks,       \* bound: the picks of config options
  MaxWrites,      \* bound: the writes that wait while the agent sends more on its own
  Budgets         \* sets of bounds, one of which holds: the cancels, the ends, the daemon stop,
                  \* the faults of the log, the exits, the texts, the picks; and whether the
                  \* adapter of the agent reports background commands

Bounded == {"cancel", "end", "stop", "fault", "exit", "text", "pick", "background"}

ASSUME RunnerAssumption ==
  /\ MaxRuns \in Nat \ {0}
  /\ MaxPicks \in Nat
  /\ MaxWrites \in Nat
  /\ Budgets \subseteq [Bounded -> Nat]

Runs == 1..MaxRuns
NoRun == 0

VARIABLES
  run,        \* every run of the chat, current or not
  used,       \* the runs registered so far
  cur,        \* runs.get(live)
  last,       \* lastRuns.get(live)
  ends,       \* the run whose process ends.get(live) waits for
  writes,     \* the writes of the chat in call order: LiveChat queues them
  fold,       \* live.fold
  answers,    \* live.answered and live.unanswered
  stored,     \* live.chat.session is set
  msg,        \* the call of each message
  pick,       \* the chain of picks
  end,        \* the call of `end` in progress
  stopping,   \* stopping.signal.aborted
  closed,     \* `close` was called
  left,       \* what is left of the one of Budgets that holds
  faulted,    \* a write of the log failed
  got,        \* history: how often the session of the agent got each text
  cancelled,  \* history: the texts that a cancel took back from this session
  unsure,     \* history: the texts whose steer got no answer
  missed      \* history: the texts that a prompt took to a closed connection

chat == <<fold, answers, stored, faulted>>
table == <<used, last>>
daemon == <<stopping, closed>>
history == <<got, cancelled, unsure, missed>>
vars == <<chat, table, daemon, history, run, cur, ends, writes, msg, pick, end, left>>

-----------------------------------------------------------------------------
(* The records. *)

(***************************************************************************)
(* Where the coroutine of a run waits.  "reopen": for the last process.    *)
(* "interrupt": for the interrupt of the last turn.  "hold": for the first *)
(* message.  "launch": for the folder, the shell and the idle limit.       *)
(* "init", "open", "create", "pick", "prompt": for the agent.  "store":    *)
(* for the write of the session id.  "options": between two options.       *)
(* "resumed": for the write of `resumed`.  "halted": for the process, after*)
(* that write failed.  "held": for the messages that joined the start.     *)
(* "check": for the check after a prompt.  "idle": no turn runs.  "over":  *)
(* the coroutine returned for good.                                        *)
(***************************************************************************)
AtAgent == {"init", "open", "create", "pick", "prompt"}
Places == AtAgent \union {"reopen", "interrupt", "hold", "launch", "store", "options",
                          "resumed", "halted", "held", "check", "idle", "over"}

\* "cut": the connection closed, but the process has not exited yet.
Processes == {"none", "alive", "ending", "cut", "exited", "ended"}

Checks == {"off", "on", "stale"}

RunRecord ==
  [pc: Places, proc: Processes, handled: BOOLEAN, awaits: 0..MaxRuns, prev: 0..MaxRuns,
   clean: BOOLEAN, byPick: BOOLEAN, pickRelaunch: BOOLEAN,
   reopened: {"none", "wait", "ok", "failed"}, held: Seq(Texts), earlierPicks: 0..MaxPicks, earlyCancels: Nat,
   session: BOOLEAN, created: BOOLEAN, unsent: Seq(Texts), steering: SUBSET Texts, injected: SUBSET Texts,
   cancelAsked: BOOLEAN, cancelledEarly: BOOLEAN, reaches: BOOLEAN, endCheck: BOOLEAN,
   turnCancelled: BOOLEAN, quiet: BOOLEAN, turning: BOOLEAN, open: SUBSET Requests,
   job: BOOLEAN, own: BOOLEAN, ownStopped: BOOLEAN, marker: Checks, stopper: Checks,
   idle: {"off", "on", "check", "stale"}]

NewRun ==
  [pc |-> "reopen", proc |-> "none", handled |-> FALSE, awaits |-> NoRun, prev |-> NoRun,
   clean |-> FALSE, byPick |-> FALSE, pickRelaunch |-> FALSE,
   reopened |-> "none", held |-> <<>>, earlierPicks |-> 0, earlyCancels |-> 0,
   session |-> FALSE, created |-> FALSE, unsent |-> <<>>, steering |-> {}, injected |-> {},
   cancelAsked |-> FALSE, cancelledEarly |-> FALSE, reaches |-> FALSE, endCheck |-> FALSE,
   turnCancelled |-> FALSE, quiet |-> FALSE, turning |-> TRUE, open |-> {},
   job |-> FALSE, own |-> FALSE, ownStopped |-> FALSE, marker |-> "off", stopper |-> "off",
   idle |-> "off"]

(***************************************************************************)
(* A write waits in the queue of the chat with what goes on after it: the  *)
(* "call" of a message, the "hold" of a message that joins a start, the    *)
(* steps of a start ("reopen", "session", "resumed"), the "kill" of a      *)
(* failed run, and the "end" and "close" calls.                            *)
(***************************************************************************)
Conts == {"none", "call", "hold", "reopen", "session", "resumed", "kill", "end", "close"}

Write == {w \in [ev: Event, by: 0..MaxRuns, cont: Conts] : w.cont = "hold" => w.ev.text # <<>>}

W(e, r) == [ev |-> e, by |-> r, cont |-> "none"]
WThen(e, r, cont) == [ev |-> e, by |-> r, cont |-> cont]

\* "new": not sent yet.  "wait", "write": in `hold`.  "call": its write is queued.
\* "halt": its write failed, and its run ends.  "again": it starts over.  "restarts" keeps that,
\* and "late" that its write ended after the next start took the texts of its run.
Message == [st: {"new", "wait", "write", "again", "call", "halt", "done", "refused"},
            run: 0..MaxRuns, cancels: Nat, restarts: BOOLEAN, late: BOOLEAN]

Pick == [issued: 0..MaxPicks, settled: 0..MaxPicks,
         st: {"none", "waiting", "setting", "applied", "direct"}, run: 0..MaxRuns]

End == [st: {"none", "turn", "ends", "fails"}, run: 0..MaxRuns]

-----------------------------------------------------------------------------
(* What the steps of a run do to its record, and the writes they call. *)

Connected(x) == x.proc \in {"alive", "ending"}

Touch(x) == IF x.idle = "check" THEN [x EXCEPT !.idle = "stale"] ELSE x

EndProcess(x) == [x EXCEPT !.proc = IF @ = "alive" THEN "ending" ELSE @]

\* `silence`, with the part of `forget` that is about the run.
Silence(x) == [x EXCEPT !.quiet = TRUE, !.open = {}, !.idle = "off"]

QuitQuietly(x) == Silence(x)
Quit(x) == EndProcess(Silence(x))

ForgetRunOnly(r) == cur' = (IF cur = r THEN NoRun ELSE cur) /\ pick' = pick

\* The part of `forget` that is about the chat: it also refuses the waiting pick.
Forget(r) ==
  /\ cur' = IF cur = r THEN NoRun ELSE cur
  /\ pick' = IF pick.st = "waiting" /\ pick.run = r
             THEN [pick EXCEPT !.st = "none", !.settled = @ + 1] ELSE pick

Fail(x) == IF x.quiet THEN x ELSE Silence(x)
FailWrites(x, r) == IF x.quiet THEN <<>> ELSE <<WThen(Plain("failed"), r, "kill")>>

CancelOpenUnwritten(x, r, cont) == <<>>

\* `settle` of each open request: out of `open`, then the write, then the answer to the agent.
CancelOpen(x) == IF x.open = {} THEN x ELSE Touch([x EXCEPT !.open = {}])
CancelOpenWrites(x, r, cont) ==
  IF x.open = {} THEN <<>> ELSE <<WThen(ResolvedEvent(x.open), r, cont)>>

SetBackground(x, job, own) == IF x.quiet THEN x ELSE [x EXCEPT !.job = job, !.own = own]
SetBackgroundWritesAlways(x, r, job, own) ==
  IF x.quiet THEN <<>> ELSE <<W(BackgroundEvent(job, own), r)>>
SetBackgroundWrites(x, r, job, own) ==
  IF x.quiet \/ (x.job = job /\ x.own = own) THEN <<>>
  ELSE <<W(BackgroundEvent(job, own), r)>>

\* `turnEnded` needs no step here: the wait of `end` reads `turning`.
EndTurn(x) ==
  IF x.quiet THEN [x EXCEPT !.turning = FALSE, !.pc = "over"]
  ELSE Touch([x EXCEPT !.turning = FALSE, !.pc = "idle", !.open = {}])
EndTurnWrites(x, r) ==
  IF x.quiet THEN <<>>
  ELSE CancelOpenWrites(x, r, "none")
         \o <<W(Plain(IF x.turnCancelled THEN "turn-cancelled" ELSE "turn-end"), r)>>

RunTurnKeepsTexts(x) ==
  LET y == [x EXCEPT !.cancelAsked = FALSE, !.turnCancelled = FALSE]
  IN IF Connected(x) THEN [y EXCEPT !.pc = "prompt"] ELSE EndProcess([y EXCEPT !.pc = "over"])

\* The first part of `runTurn`.  A prompt on a closed connection fails at once.
RunTurn(x) ==
  LET y == [x EXCEPT !.unsent = <<>>, !.cancelAsked = FALSE, !.turnCancelled = FALSE]
  IN IF Connected(x) THEN [y EXCEPT !.pc = "prompt"] ELSE EndProcess([y EXCEPT !.pc = "over"])

GotBy(batch) == [t \in Texts |-> got[t] + Cardinality({i \in DOMAIN batch : batch[i] = t})]

\* The agent gets the texts of a prompt, which on a closed connection nobody gets: `runTurn`
\* took them out of `unsent` before.
PromptGot(x, batch) == IF Connected(x) THEN GotBy(batch) ELSE got
PromptMissed(x, batch) == IF Connected(x) THEN missed ELSE missed \union ToSet(batch)

\* A message makes the result of a check of the background old, output that of a marker.
StaleAll(x) == [x EXCEPT !.marker = IF @ = "on" THEN "stale" ELSE @,
                         !.stopper = IF @ = "on" THEN "stale" ELSE @]
StaleMarker(x) == [x EXCEPT !.marker = IF @ = "on" THEN "stale" ELSE @]

EndsAtExit(r) == r # NoRun => run[r].proc \in {"exited", "ended"} /\ run[r].handled
EndsResolved(r) == r # NoRun => run[r].proc = "ended" /\ run[r].handled

HasBackground == left["background"] > 0

Spend(what) == left[what] > 0 /\ left' = [left EXCEPT ![what] = @ - 1]

-----------------------------------------------------------------------------
(* How a chat comes to the runner. *)

NoPick == [issued |-> 0, settled |-> 0, st |-> "none", run |-> NoRun]
NoEnd == [st |-> "none", run |-> NoRun]

InitCommon ==
  /\ writes = <<>>
  /\ pick = NoPick
  /\ end = NoEnd
  /\ stopping = FALSE
  /\ closed = FALSE
  /\ left \in Budgets
  /\ faulted = FALSE
  /\ got = [t \in Texts |-> 0]
  /\ cancelled = {}
  /\ unsure = {}
  /\ missed = {}

\* `start`: the chat has its first `user` event, and its agent was just spawned.
InitStarted(t) ==
  /\ fold = FoldChat(ChatStart, UserEvent(t))
  /\ answers = TrackAnswers(NoAnswers, UserEvent(t))
  /\ stored = FALSE
  /\ run = [r \in Runs |->
               IF r = 1 THEN [NewRun EXCEPT !.pc = "init", !.proc = "alive", !.idle = "on"]
               ELSE NewRun]
  /\ used = 1 /\ cur = 1 /\ last = 1 /\ ends = 1
  /\ msg = [u \in Texts |->
              [st |-> IF u = t THEN "done" ELSE "new", run |-> NoRun, cancels |-> 0,
               restarts |-> FALSE, late |-> FALSE]]

\* A chat that the registry loaded from disk, with no turn and no agent in this daemon.
InitLoaded(session, answered, stopped) ==
  /\ fold = NothingRuns(ChatStart, stopped)
  /\ answers = [answered |-> answered, unanswered |-> <<>>]
  /\ stored = session
  /\ run = [r \in Runs |-> NewRun]
  /\ used = 0 /\ cur = NoRun /\ last = NoRun /\ ends = NoRun
  /\ msg = [u \in Texts |->
              [st |-> "new", run |-> NoRun, cancels |-> 0, restarts |-> FALSE, late |-> FALSE]]

Init ==
  /\ InitCommon
  /\ \/ \E t \in Texts : InitStarted(t)
     \/ InitLoaded(TRUE, TRUE, "none")
     \/ InitLoaded(TRUE, FALSE, "failed")

-----------------------------------------------------------------------------
(* A message of a client. *)

\* `register`, and the call of `reopen` up to its first wait.
Registered(x) == [x EXCEPT !.awaits = ends, !.prev = last, !.reopened = "wait"]

Register(x) ==
  /\ used < MaxRuns
  /\ used' = used + 1
  /\ cur' = used + 1
  /\ last' = used + 1
  /\ run' = [run EXCEPT ![used + 1] = Registered(x)]

\* `hold`, up to its first wait.
Hold(x, t) == [x EXCEPT !.cancelledEarly = FALSE, !.held = Append(@, t)]
HoldCall(t, r, cancels) == [msg EXCEPT ![t] = [@ EXCEPT !.st = "wait", !.run = r, !.cancels = cancels]]

Sent(t) == msg[t].st \in {"new", "again"}

RefuseMessage(t) ==
  /\ Sent(t)
  /\ end.st # "none" \/ stopping
  /\ msg' = [msg EXCEPT ![t].st = "refused"]
  /\ UNCHANGED <<chat, table, daemon, history, run, cur, ends, writes, pick, end, left>>

Accepts == end.st = "none" /\ ~stopping

\* `restart`
Restart(t) ==
  /\ Sent(t) /\ Accepts
  /\ cur = NoRun
  /\ Register(Hold(NewRun, t))
  /\ msg' = HoldCall(t, used + 1, 0)
  /\ UNCHANGED <<chat, daemon, history, ends, writes, pick, end, left>>

\* A message that joins a start: of a pick, or before the first prompt.
JoinStart(t) ==
  /\ Sent(t) /\ Accepts
  /\ cur # NoRun
  /\ LET x == run[cur] IN
     /\ x.pickRelaunch \/ (x.turning /\ ~x.reaches)
     /\ run' = [run EXCEPT ![cur] =
                  Hold(IF x.pickRelaunch
                       THEN [x EXCEPT !.pickRelaunch = FALSE, !.reaches = FALSE,
                                      !.earlierPicks = pick.issued]
                       ELSE x, t)]
     /\ msg' = HoldCall(t, cur, x.earlyCancels)
  /\ UNCHANGED <<chat, table, daemon, history, cur, ends, writes, pick, end, left>>

\* A message to a turn whose prompt was sent.  A steer on a closed connection does nothing.
JoinTurn(t) ==
  /\ Sent(t) /\ Accepts
  /\ cur # NoRun
  /\ LET x == run[cur] IN
     /\ ~x.pickRelaunch /\ x.turning /\ x.reaches
     /\ run' = [run EXCEPT ![cur] =
                  Touch([x EXCEPT !.unsent = Append(@, t), !.job = FALSE, !.own = FALSE,
                                  !.steering = IF ~x.cancelAsked /\ Connected(x)
                                               THEN @ \union {t} ELSE @])]
     /\ writes' = Append(writes, WThen(UserEvent(t), cur, "call"))
  /\ msg' = [msg EXCEPT ![t].st = "call"]
  /\ UNCHANGED <<chat, table, daemon, history, cur, ends, pick, end, left>>

StartTurn(t) ==
  /\ Sent(t) /\ Accepts
  /\ cur # NoRun
  /\ LET x == run[cur]
         taken == Append(x.unsent, t)
     IN /\ ~x.pickRelaunch /\ ~x.turning
        /\ run' = [run EXCEPT ![cur] =
                     RunTurn(Touch(StaleAll([x EXCEPT !.turning = TRUE, !.job = FALSE,
                                                      !.own = FALSE, !.ownStopped = FALSE])))]
        /\ got' = PromptGot(x, taken)
        /\ missed' = PromptMissed(x, taken)
        /\ writes' = Append(writes, WThen(UserEvent(t), cur, "call"))
  /\ msg' = [msg EXCEPT ![t].st = "call"]
  /\ UNCHANGED <<chat, table, daemon, cur, ends, pick, end, left, cancelled, unsure>>

-----------------------------------------------------------------------------
(* The part of `hold` after its waits, one message of a start after the other. *)

SettledOnceWritten(t) == msg[t].st = "done"
Settled(t) == msg[t].st \in {"done", "refused"}
HeldSettled(r) == \A i \in DOMAIN run[r].held : Settled(run[r].held[i])

\* The messages before `t` in this start are over, so it is its turn.
HoldsNow(r, t) ==
  /\ msg[t].run = r
  /\ \E i \in DOMAIN run[r].held :
       /\ run[r].held[i] = t
       /\ \A j \in 1..(i - 1) : Settled(run[r].held[j])

\* The message of a restart ends its coroutine when it is not written.
HoldFailed(x) == [x EXCEPT !.pc = IF @ = "hold" THEN "over" ELSE @]

HoldRefused(r, t) ==
  /\ HoldsNow(r, t) /\ msg[t].st = "wait"
  /\ run[r].reopened = "failed"
  /\ msg' = [msg EXCEPT ![t].st = "refused"]
  /\ run' = [run EXCEPT ![r] = HoldFailed(@)]
  /\ UNCHANGED <<chat, table, daemon, history, cur, ends, writes, pick, end, left>>

\* `refuseJoinIfStopping`: a run with a turn in the log stays, for `close`.
HoldStopping(r, t) ==
  /\ HoldsNow(r, t) /\ msg[t].st = "wait"
  /\ run[r].reopened \in {"none", "ok"} /\ stopping
  /\ msg' = [msg EXCEPT ![t].st = "refused"]
  /\ IF ChatBusy(fold)
     THEN /\ run' = [run EXCEPT ![r] = HoldFailed(@)]
          /\ cur' = cur
          /\ pick' = IF pick.st = "waiting" /\ pick.run = r
                     THEN [pick EXCEPT !.st = "none", !.settled = @ + 1] ELSE pick
     ELSE /\ run' = [run EXCEPT ![r] = HoldFailed(Silence(@))]
          /\ Forget(r)
  /\ UNCHANGED <<chat, table, daemon, history, ends, writes, end, left>>

\* The run ended during the wait, so the message starts over.
HoldAgain(r, t) ==
  /\ HoldsNow(r, t) /\ msg[t].st = "wait"
  /\ run[r].reopened \in {"none", "ok"} /\ ~stopping
  /\ run[r].quiet
  /\ msg' = [msg EXCEPT ![t].st = "again", ![t].restarts = TRUE]
  /\ run' = [run EXCEPT ![r] = HoldFailed(@)]
  /\ UNCHANGED <<chat, table, daemon, history, cur, ends, writes, pick, end, left>>

HoldWrite(r, t) ==
  /\ HoldsNow(r, t) /\ msg[t].st = "wait"
  /\ run[r].reopened \in {"none", "ok"} /\ ~stopping
  /\ ~run[r].quiet
  /\ msg' = [msg EXCEPT ![t].st = "write"]
  /\ writes' = Append(writes, WThen(UserEvent(t), r, "hold"))
  /\ UNCHANGED <<chat, table, daemon, history, run, cur, ends, pick, end, left>>

-----------------------------------------------------------------------------
(* The start of a run, up to the spawn. *)

\* A run that the daemon stop or an `end` overtakes before its first write ends here.
Overtaken(x) == [Silence(x) EXCEPT !.reopened = "failed", !.pc = "over"]

\* The texts that the agent has still to get: the last run knows them better than the log.
TextsOfLogOnly(x) == IF x.prev = NoRun THEN answers.unanswered ELSE <<>>
TextsBefore(x) == IF x.prev = NoRun THEN answers.unanswered ELSE run[x.prev].unsent

\* `reopen`, from the end of the last process to the call of the interrupt.  The starts that
\* wait for one process go on in the order of their waits.
Reopen(r) ==
  /\ run[r].pc = "reopen" /\ run[r].reopened = "wait"
  /\ EndsResolved(run[r].awaits)
  /\ \A s \in 1..(r - 1) : run[s].pc # "reopen"
  /\ LET x == run[r]
         before == TextsBefore(x)
         drops == x.earlyCancels > 0 /\ answers.answered
         y == [x EXCEPT !.unsent = IF drops THEN <<>> ELSE before]
     IN /\ cancelled' = IF drops THEN cancelled \union ToSet(before) ELSE cancelled
        /\ IF stopping \/ x.quiet
           THEN /\ run' = [run EXCEPT ![r] = Overtaken(y)]
                /\ Forget(r)
                /\ UNCHANGED writes
           ELSE /\ run' = [run EXCEPT ![r] = [y EXCEPT !.pc = "interrupt"]]
                /\ writes' = Append(writes, WThen(Plain("interrupted"), r, "reopen"))
                /\ UNCHANGED <<cur, pick>>
  /\ UNCHANGED <<chat, table, daemon, ends, msg, end, left, got, unsure, missed>>

\* The folder or the adapter is gone: `relaunch` fails before it looks at anything else.
LaunchFails(r) ==
  /\ run[r].pc = "launch"
  /\ run' = [run EXCEPT ![r] = [Fail(@) EXCEPT !.pc = "over"]]
  /\ writes' = writes \o FailWrites(run[r], r)
  /\ IF run[r].quiet THEN UNCHANGED <<cur, pick>> ELSE Forget(r)
  /\ UNCHANGED <<chat, table, daemon, history, ends, msg, end, left>>

\* `stopStarts` or an `end` came during the launch.
LaunchOver(r) ==
  /\ run[r].pc = "launch"
  /\ stopping \/ run[r].quiet
  /\ run' = [run EXCEPT ![r].pc = "over"]
  /\ pick' = IF stopping /\ pick.st = "waiting" /\ pick.run = r
             THEN [pick EXCEPT !.st = "none", !.settled = @ + 1] ELSE pick
  /\ UNCHANGED <<chat, table, daemon, history, cur, ends, writes, msg, end, left>>

SpawnWhileStopping(r) ==
  /\ run[r].pc = "launch"
  /\ ~run[r].quiet
  /\ run' = [run EXCEPT ![r].pc = "init", ![r].proc = "alive", ![r].idle = "on"]
  /\ ends' = r
  /\ UNCHANGED <<chat, table, daemon, history, cur, writes, msg, pick, end, left>>

\* `spawnRun`, and the call of `initialize`.
Spawn(r) ==
  /\ run[r].pc = "launch"
  /\ ~stopping /\ ~run[r].quiet
  /\ run' = [run EXCEPT ![r].pc = "init", ![r].proc = "alive", ![r].idle = "on"]
  /\ ends' = r
  /\ UNCHANGED <<chat, table, daemon, history, cur, writes, msg, pick, end, left>>

-----------------------------------------------------------------------------
(* The start of a run, from the spawn to its first turn. *)

\* The first steps of `openSession`.  A new session gets every text of the chat.
OpenSession(x) ==
  IF stored THEN [x EXCEPT !.pc = "open"]
  ELSE [x EXCEPT !.pc = "create", !.unsent = answers.unanswered]

Initialized(r) ==
  /\ run[r].pc = "init" /\ Connected(run[r])
  /\ run' = [run EXCEPT ![r] = IF @.quiet THEN [@ EXCEPT !.pc = "over"] ELSE OpenSession(@)]
  /\ UNCHANGED <<chat, table, daemon, history, cur, ends, writes, msg, pick, end, left>>

SessionResumed(r) ==
  /\ run[r].pc = "open" /\ Connected(run[r])
  /\ run' = [run EXCEPT ![r].pc = "options"]
  /\ UNCHANGED <<chat, table, daemon, history, cur, ends, writes, msg, pick, end, left>>

\* The agent lost the session: that fails the run, unless it never answered in it.  An agent
\* that never answered may have saved nothing of the session, so the history begins anew here,
\* also if the agent finds that session again later.
SessionLost(r) ==
  /\ run[r].pc = "open" /\ Connected(run[r])
  /\ IF answers.answered
     THEN /\ run' = [run EXCEPT ![r] = [Fail(@) EXCEPT !.pc = "over"]]
          /\ writes' = writes \o FailWrites(run[r], r)
          /\ IF run[r].quiet THEN UNCHANGED <<cur, pick>> ELSE Forget(r)
          /\ UNCHANGED <<got, cancelled, missed>>
     ELSE /\ run' = [run EXCEPT ![r].pc = "create", ![r].unsent = answers.unanswered]
          /\ got' = [t \in Texts |-> 0]
          /\ cancelled' = {}
          /\ missed' = {}
          /\ UNCHANGED <<cur, pick, writes>>
  /\ UNCHANGED <<chat, table, daemon, ends, msg, end, left, unsure>>

\* The history of what the agent got begins anew with its session.
SessionCreated(r) ==
  /\ run[r].pc = "create" /\ Connected(run[r])
  /\ run' = [run EXCEPT ![r].pc = "store", ![r].created = TRUE]
  /\ writes' = Append(writes, WThen(Plain("other"), r, "session"))
  /\ got' = [t \in Texts |-> 0]
  /\ cancelled' = {}
  /\ missed' = {}
  /\ UNCHANGED <<chat, table, daemon, cur, ends, msg, pick, end, left, unsure>>

\* The agent refuses a request of the start, or a prompt.
AgentFails(r) ==
  /\ run[r].pc \in AtAgent \ {"pick"} /\ Connected(run[r])
  /\ run' = [run EXCEPT ![r] = [Fail(@) EXCEPT !.pc = "over"]]
  /\ writes' = writes \o FailWrites(run[r], r)
  /\ IF run[r].quiet THEN UNCHANGED <<cur, pick>> ELSE Forget(r)
  /\ UNCHANGED <<chat, table, daemon, history, ends, msg, end, left>>

AnswerPickTwice(r) == pick' = IF pick.run = r /\ pick.issued > 0
                              THEN [pick EXCEPT !.st = "none", !.settled = @ + 1] ELSE pick
WaitsFor(r) == pick.st = "waiting" /\ pick.run = r
AnswerPick(r) == pick' = IF pick.st = "applied" /\ pick.run = r
                         THEN [pick EXCEPT !.st = "none", !.settled = @ + 1] ELSE pick

\* `applyOptions` reaches a waiting pick and sends it.
OptionSent(r) ==
  /\ run[r].pc = "options" /\ ~run[r].quiet
  /\ WaitsFor(r)
  /\ IF Connected(run[r])
     THEN /\ run' = [run EXCEPT ![r].pc = "pick"]
          /\ pick' = [pick EXCEPT !.st = "setting"]
     ELSE /\ run' = [run EXCEPT ![r].pc = "over"]
          /\ pick' = [pick EXCEPT !.st = "none", !.settled = @ + 1]
  /\ UNCHANGED <<chat, table, daemon, history, cur, ends, writes, msg, end, left>>

\* The agent takes or refuses the value.  Its caller gets that only with `answerAll`.
OptionAnswered(r) ==
  /\ run[r].pc = "pick" /\ Connected(run[r])
  /\ pick.st = "setting" /\ pick.run = r
  /\ run' = [run EXCEPT ![r].pc = "options"]
  /\ pick' = [pick EXCEPT !.st = "applied"]
  /\ UNCHANGED <<chat, table, daemon, history, cur, ends, writes, msg, end, left>>

OptionsQuiet(r) ==
  /\ run[r].pc = "options" /\ run[r].quiet
  /\ run' = [run EXCEPT ![r].pc = "over"]
  /\ AnswerPick(r)
  /\ UNCHANGED <<chat, table, daemon, history, cur, ends, writes, msg, end, left>>

\* The last step of `begin` before the first prompt, or instead of it.
FirstTurn(x) ==
  LET y == [x EXCEPT !.reaches = TRUE]
  IN IF ~x.cancelledEarly THEN RunTurn(y)
     ELSE EndTurn([y EXCEPT !.unsent = IF answers.answered THEN <<>> ELSE @,
                            !.turnCancelled = TRUE])
FirstTurnWrites(x, r) ==
  IF x.cancelledEarly THEN EndTurnWrites([x EXCEPT !.turnCancelled = TRUE], r) ELSE <<>>
FirstTurnGot(x) == IF x.cancelledEarly THEN got ELSE PromptGot(x, x.unsent)
FirstTurnMissed(x) == IF x.cancelledEarly THEN missed ELSE PromptMissed(x, x.unsent)
FirstTurnCancelled(x) == IF x.cancelledEarly /\ answers.answered
                         THEN cancelled \union ToSet(x.unsent) ELSE cancelled

\* What `begin` does once no option is left, for a run that no pick started.
OptionsDone(r) ==
  /\ run[r].pc = "options" /\ ~run[r].quiet
  /\ ~WaitsFor(r) /\ ~run[r].pickRelaunch
  /\ AnswerPick(r)
  /\ LET x == [run[r] EXCEPT !.session = TRUE] IN
     IF x.held # <<>>
     THEN /\ run' = [run EXCEPT ![r] = [x EXCEPT !.pc = "held"]]
          /\ UNCHANGED <<writes, got, cancelled, missed>>
     ELSE /\ run' = [run EXCEPT ![r] = FirstTurn(x)]
          /\ writes' = writes \o FirstTurnWrites(x, r)
          /\ got' = FirstTurnGot(x)
          /\ missed' = FirstTurnMissed(x)
          /\ cancelled' = FirstTurnCancelled(x)
  /\ UNCHANGED <<chat, table, daemon, cur, ends, msg, end, left, unsure>>

PickRelaunchOver(x) ==
  Touch([x EXCEPT !.pickRelaunch = FALSE, !.turning = FALSE, !.pc = "idle"])

\* As `OptionsDone`, for a run that a pick started.  It takes a failed chat out of its stop.
PickOptionsDone(r) ==
  /\ run[r].pc = "options" /\ ~run[r].quiet
  /\ ~WaitsFor(r) /\ run[r].pickRelaunch
  /\ LET x == [run[r] EXCEPT !.session = TRUE, !.reaches = TRUE] IN
     IF fold.stopped # "none"
     THEN /\ run' = [run EXCEPT ![r] = [x EXCEPT !.pc = "resumed"]]
          /\ writes' = Append(writes, WThen(Plain("resumed"), r, "resumed"))
          /\ UNCHANGED pick
     ELSE /\ run' = [run EXCEPT ![r] = PickRelaunchOver(x)]
          /\ AnswerPick(r)
          /\ UNCHANGED writes
  /\ UNCHANGED <<chat, table, daemon, history, cur, ends, msg, end, left>>

\* Each message that joined the start is written, and each earlier pick is over.
HeldOver(r) ==
  /\ run[r].pc = "held"
  /\ pick.settled >= run[r].earlierPicks
  /\ HeldSettled(r)
  /\ IF run[r].quiet \/ stopping
     THEN /\ run' = [run EXCEPT ![r].pc = "over"]
          /\ UNCHANGED <<writes, got, cancelled, missed>>
     ELSE LET x == [run[r] EXCEPT !.unsent = IF run[r].created THEN answers.unanswered ELSE @]
          IN /\ run' = [run EXCEPT ![r] = FirstTurn(x)]
             /\ writes' = writes \o FirstTurnWrites(x, r)
             /\ got' = FirstTurnGot(x)
             /\ missed' = FirstTurnMissed(x)
             /\ cancelled' = FirstTurnCancelled(x)
  /\ UNCHANGED <<chat, table, daemon, cur, ends, msg, pick, end, left, unsure>>

-----------------------------------------------------------------------------
(* A turn. *)

\* The agent ends its prompt, with `cancelled` only after a cancel.
PromptReturned(r, reason) ==
  /\ run[r].pc = "prompt" /\ Connected(run[r])
  /\ reason => run[r].cancelAsked
  /\ run' = [run EXCEPT ![r].pc = "check", ![r].endCheck = TRUE, ![r].turnCancelled = reason]
  /\ UNCHANGED <<chat, table, daemon, history, cur, ends, writes, msg, pick, end, left>>

\* The agent takes the text of a steer.  The runner knows it once the answer comes.
AgentInjects(r, t) ==
  /\ t \in run[r].steering \ run[r].injected /\ Connected(run[r])
  /\ run' = [run EXCEPT ![r].injected = @ \union {t}]
  /\ got' = GotBy(<<t>>)
  /\ UNCHANGED <<chat, table, daemon, cur, ends, writes, msg, pick, end, left, cancelled, unsure,
                 missed>>

Without(texts, t) ==
  IF t \in ToSet(texts) THEN RemoveAt(texts, CHOOSE i \in DOMAIN texts : texts[i] = t) ELSE texts

\* The answer to a steer: the agent took the text, or left it for the next prompt.
SteerAnswered(r, t) ==
  /\ t \in run[r].steering /\ Connected(run[r])
  /\ run' = [run EXCEPT ![r].steering = @ \ {t}, ![r].injected = @ \ {t},
                        ![r].unsent = IF t \in run[r].injected THEN Without(@, t) ELSE @]
  /\ UNCHANGED <<chat, table, daemon, history, cur, ends, writes, msg, pick, end, left>>

\* The rest of `runTurn` while a text still waits: it is the next prompt of the same turn.
NextPrompt(r) ==
  /\ run[r].pc = "check" /\ run[r].steering = {}
  /\ run[r].unsent # <<>> /\ ~run[r].quiet
  /\ IF stopping
     THEN /\ run' = [run EXCEPT ![r].pc = "over", ![r].endCheck = FALSE]
          /\ UNCHANGED <<got, missed>>
     ELSE /\ run' = [run EXCEPT ![r] = RunTurn([@ EXCEPT !.endCheck = FALSE])]
          /\ got' = PromptGot(run[r], run[r].unsent)
          /\ missed' = PromptMissed(run[r], run[r].unsent)
  /\ UNCHANGED <<chat, table, daemon, cur, ends, writes, msg, pick, end, left, cancelled, unsure>>

\* The end of a turn.  A job that still runs is in the log before `turn-end`.
TurnOver(r, jobs) ==
  /\ run[r].pc = "check" /\ run[r].steering = {}
  /\ run[r].unsent = <<>> \/ run[r].quiet
  /\ jobs => HasBackground
  /\ LET x == [run[r] EXCEPT !.endCheck = FALSE]
         y == IF jobs THEN SetBackground(x, TRUE, FALSE) ELSE x
     IN /\ run' = [run EXCEPT ![r] = EndTurn(y)]
        /\ writes' = writes \o (IF jobs THEN SetBackgroundWrites(x, r, TRUE, FALSE) ELSE <<>>)
                            \o EndTurnWrites(y, r)
  /\ UNCHANGED <<chat, table, daemon, history, cur, ends, msg, pick, end, left>>

-----------------------------------------------------------------------------
(* What the agent sends on its own. *)

\* A run hears its agent once its session is set and until it is quiet.
Hears(r) == Connected(run[r]) /\ run[r].session /\ ~run[r].quiet

\* An agent says nothing in a new session before it got a text.
Speaks(r) == Hears(r) /\ (run[r].created => \E t \in Texts : got[t] > 0)

Room == Len(writes) < MaxWrites

\* Until the first answer of the chat, the work that an update shows is that answer.
WorkWrites(r) == IF answers.answered THEN <<>> ELSE <<W(Plain("work"), r)>>

AgentWorks(r) ==
  /\ Speaks(r) /\ Room
  /\ run[r].turning \/ ~HasBackground
  /\ ~answers.answered
  /\ run' = [run EXCEPT ![r] = Touch(@)]
  /\ writes' = writes \o WorkWrites(r)
  /\ UNCHANGED <<chat, table, daemon, history, cur, ends, msg, pick, end, left>>

\* Output with no turn of a message is an own turn, or late output of one that was stopped.
OwnOutput(r) ==
  /\ Speaks(r) /\ Room
  /\ ~run[r].turning /\ HasBackground
  /\ LET x == StaleMarker(Touch(run[r])) IN
     /\ run' = [run EXCEPT ![r] = IF x.ownStopped THEN x ELSE SetBackground(x, x.job, TRUE)]
     /\ writes' = writes \o (IF x.ownStopped THEN <<>> ELSE SetBackgroundWrites(x, r, x.job, TRUE))
                         \o WorkWrites(r)
  /\ UNCHANGED <<chat, table, daemon, history, cur, ends, msg, pick, end, left>>

\* The marker that ends an own turn starts a check of the background; one at a time here.
OwnTurnMarker(r) ==
  /\ Speaks(r)
  /\ ~run[r].turning /\ HasBackground
  /\ run[r].marker = "off"
  /\ run' = [run EXCEPT ![r] = Touch([@ EXCEPT !.ownStopped = FALSE,
                                              !.marker = IF run[r].own THEN "on" ELSE run[r].marker])]
  /\ UNCHANGED <<chat, table, daemon, history, cur, ends, writes, msg, pick, end, left>>

\* `settleBackground` after a marker: new output or the check of a stop makes it old.
MarkerChecked(r, jobs) ==
  /\ run[r].marker # "off"
  /\ LET x == [run[r] EXCEPT !.marker = "off"]
         holds == run[r].marker = "on" /\ cur = r /\ run[r].stopper = "off"
     IN /\ run' = [run EXCEPT ![r] = IF holds THEN SetBackground(x, jobs, FALSE) ELSE x]
        /\ writes' = writes \o (IF holds THEN SetBackgroundWrites(x, r, jobs, FALSE) ELSE <<>>)
  /\ UNCHANGED <<chat, table, daemon, history, cur, ends, msg, pick, end, left>>

\* `settleBackground` after a stop of an own turn: only a message makes it old.
StopChecked(r, jobs) ==
  /\ run[r].stopper # "off"
  /\ LET x == [run[r] EXCEPT !.stopper = "off"]
         holds == run[r].stopper = "on" /\ cur = r
     IN /\ run' = [run EXCEPT ![r] = IF holds THEN SetBackground(x, jobs, FALSE) ELSE x]
        /\ writes' = writes \o (IF holds THEN SetBackgroundWrites(x, r, jobs, FALSE) ELSE <<>>)
  /\ UNCHANGED <<chat, table, daemon, history, cur, ends, msg, pick, end, left>>

\* A permission request or a question.  Its id is new.
Ask(r, q) ==
  /\ Speaks(r) /\ Room
  /\ q \notin run[r].open \union fold.open
  /\ \A i \in DOMAIN writes : q \notin writes[i].ev.reqs
  /\ run' = [run EXCEPT ![r] = Touch([run[r] EXCEPT !.open = @ \union {q}])]
  /\ writes' = Append(writes, W(AskEvent(q), r))
  /\ UNCHANGED <<chat, table, daemon, history, cur, ends, msg, pick, end, left>>

\* A request leaves `open` for one resolution: by its agent, or by the answer of a user.
Resolve(r, q) ==
  /\ q \in run[r].open
  /\ run' = [run EXCEPT ![r] = Touch([run[r] EXCEPT !.open = @ \ {q}])]
  /\ writes' = Append(writes, W(ResolvedEvent({q}), r))
  /\ UNCHANGED <<chat, table, daemon, history, cur, ends, msg, pick, end, left>>

AgentTakesBack(r, q) == Connected(run[r]) /\ Resolve(r, q)

Answer(q) == cur # NoRun /\ Resolve(cur, q)

-----------------------------------------------------------------------------
(* The end of an agent process. *)

\* The request that the coroutine waits for fails, and so does every steer.
ConnectionLost(x) == [x EXCEPT !.steering = {}, !.injected = {},
                               !.pc = IF @ \in AtAgent THEN "over" ELSE @]

LostPick(r) == pick' = IF pick.st \in {"setting", "direct"} /\ pick.run = r
                       THEN [pick EXCEPT !.st = "none", !.settled = @ + 1] ELSE pick

\* The connection closes first: the process gets its end, and can still take a while.
ConnectionCut(r) ==
  /\ run[r].proc = "alive"
  /\ Spend("exit")
  /\ run' = [run EXCEPT ![r] = [ConnectionLost(@) EXCEPT !.proc = "cut"]]
  /\ LostPick(r)
  /\ unsure' = unsure \union run[r].steering
  /\ UNCHANGED <<chat, table, daemon, got, cancelled, missed, cur, ends, writes, msg, end>>

\* The process exits, by itself or because its end was asked for.  The kill comes last.
Exit(r, clean) ==
  /\ run[r].proc \in {"alive", "ending", "cut"}
  /\ IF run[r].proc = "alive" THEN Spend("exit") ELSE UNCHANGED left
  /\ run' = [run EXCEPT ![r] = [ConnectionLost(@) EXCEPT !.proc = "exited", !.clean = clean]]
  /\ LostPick(r)
  /\ unsure' = unsure \union run[r].steering
  /\ UNCHANGED <<chat, table, daemon, got, cancelled, missed, cur, ends, writes, msg, end>>

ExitFailsUnlessClean(x) == ~x.clean
ExitFails(x) == x.turning \/ ~x.clean

OnExit(r) ==
  /\ run[r].proc \in {"exited", "ended"} /\ ~run[r].handled
  /\ LET x == [run[r] EXCEPT !.handled = TRUE]
         fails == ExitFails(x)
         y == IF fails THEN Fail(x) ELSE SetBackground(x, FALSE, FALSE)
     IN /\ run' = [run EXCEPT ![r] = [y EXCEPT !.open = {}, !.idle = "off"]]
        /\ writes' = writes \o (IF fails THEN FailWrites(x, r)
                                ELSE SetBackgroundWrites(x, r, FALSE, FALSE))
  /\ Forget(r)
  /\ UNCHANGED <<chat, table, daemon, history, ends, msg, end, left>>

\* Every process of the group has ended.
GroupEnded(r) ==
  /\ run[r].proc = "exited"
  /\ run' = [run EXCEPT ![r].proc = "ended"]
  /\ UNCHANGED <<chat, table, daemon, history, cur, ends, writes, msg, pick, end, left>>

-----------------------------------------------------------------------------
(* The idle stop. *)

\* The timer of a run expires only between turns with no request open.  A run whose
\* adapter reports no background commands ends in the same step.
IdleExpires(r) ==
  /\ run[r].idle = "on" /\ run[r].proc # "none"
  /\ ~run[r].turning /\ run[r].open = {}
  /\ ~stopping
  /\ IF HasBackground
     THEN /\ run' = [run EXCEPT ![r].idle = "check"]
          /\ UNCHANGED <<cur, pick>>
     ELSE /\ run' = [run EXCEPT ![r] = Quit(@)]
          /\ Forget(r)
  /\ UNCHANGED <<chat, table, daemon, history, ends, writes, msg, end, left>>

\* What the check of the background found no longer holds.
IdleOvertaken(r) ==
  /\ run[r].idle \in {"check", "stale"}
  /\ stopping \/ run[r].turning \/ run[r].open # {} \/ run[r].idle = "stale"
  /\ run' = [run EXCEPT ![r].idle = IF stopping THEN "off" ELSE "on"]
  /\ UNCHANGED <<chat, table, daemon, history, cur, ends, writes, msg, pick, end, left>>

(***************************************************************************)
(* The rest of `idleCheck`.  "jobs" still run, "ended" says that a job     *)
(* ended since the last check, and "recent" that the last activity is not  *)
(* `jobHoldMs` ago.                                                        *)
(***************************************************************************)
IdleChecked(r, jobs, ended, recent) ==
  /\ run[r].idle = "check"
  /\ ~stopping /\ ~run[r].turning /\ run[r].open = {}
  /\ LET x == IF jobs THEN run[r] ELSE SetBackground(run[r], FALSE, run[r].own)
         said == IF jobs THEN <<>> ELSE SetBackgroundWrites(run[r], r, FALSE, run[r].own)
         rearms == ((jobs \/ x.own) /\ recent) \/ (~jobs /\ ended)
         fails == jobs \/ x.own
     IN IF rearms
        THEN /\ run' = [run EXCEPT ![r] = [x EXCEPT !.idle = "on"]]
             /\ writes' = writes \o said
             /\ UNCHANGED <<cur, pick>>
        ELSE /\ run' = [run EXCEPT ![r] = IF fails THEN Fail(x) ELSE Quit(x)]
             /\ writes' = writes \o said \o (IF fails THEN FailWrites(x, r) ELSE <<>>)
             /\ Forget(r)
  /\ UNCHANGED <<chat, table, daemon, history, ends, msg, end, left>>

-----------------------------------------------------------------------------
(* Picks of config options.  They run one after the other. *)

SetOption ==
  /\ pick.issued < MaxPicks /\ pick.issued < left["pick"]
  /\ pick' = [pick EXCEPT !.issued = @ + 1]
  /\ UNCHANGED <<chat, table, daemon, history, run, cur, ends, writes, msg, end, left>>

PickIsNext == pick.st = "none" /\ pick.settled < pick.issued

PickRefused ==
  /\ PickIsNext /\ ~Accepts
  /\ pick' = [pick EXCEPT !.settled = @ + 1]
  /\ UNCHANGED <<chat, table, daemon, history, run, cur, ends, writes, msg, end, left>>

\* `relaunchForPick`
PickRelaunches ==
  /\ PickIsNext /\ Accepts
  /\ cur = NoRun
  /\ Register([NewRun EXCEPT !.byPick = TRUE, !.pickRelaunch = TRUE])
  /\ pick' = [pick EXCEPT !.st = "waiting", !.run = used + 1]
  /\ UNCHANGED <<chat, daemon, history, ends, writes, msg, end, left>>

\* The session of the run is not open yet, so the pick waits for it.
PickWaits ==
  /\ PickIsNext /\ Accepts
  /\ cur # NoRun
  /\ ~run[cur].session
  /\ pick' = [pick EXCEPT !.st = "waiting", !.run = cur]
  /\ UNCHANGED <<chat, table, daemon, history, run, cur, ends, writes, msg, end, left>>

\* On a closed connection the pick is refused at once.
PickDirect ==
  /\ PickIsNext /\ Accepts
  /\ cur # NoRun
  /\ run[cur].session
  /\ run' = [run EXCEPT ![cur] = Touch(@)]
  /\ pick' = IF Connected(run[cur]) THEN [pick EXCEPT !.st = "direct", !.run = cur]
             ELSE [pick EXCEPT !.settled = @ + 1]
  /\ UNCHANGED <<chat, table, daemon, history, cur, ends, writes, msg, end, left>>

PickAnswered ==
  /\ pick.st = "direct" /\ Connected(run[pick.run])
  /\ pick' = [pick EXCEPT !.st = "none", !.settled = @ + 1]
  /\ UNCHANGED <<chat, table, daemon, history, run, cur, ends, writes, msg, end, left>>

-----------------------------------------------------------------------------
(* A cancel. *)

\* A cancel of an own turn.  One check of a stop runs at a time here.
CancelOwnTurn ==
  /\ cur # NoRun
  /\ run[cur].own /\ ~run[cur].turning
  /\ run[cur].stopper = "off"
  /\ Spend("cancel")
  /\ run' = [run EXCEPT ![cur] = [CancelOpen(@) EXCEPT !.ownStopped = TRUE, !.stopper = "on"]]
  /\ writes' = writes \o CancelOpenWrites(run[cur], cur, "none")
  /\ UNCHANGED <<chat, table, daemon, history, cur, ends, msg, pick, end>>

\* A cancel after the first prompt was sent drops each text the agent has not got.
CancelTurn ==
  /\ cur # NoRun
  /\ LET x == run[cur] IN
     /\ x.turning /\ ~x.pickRelaunch /\ x.reaches
     /\ LET y == [x EXCEPT !.cancelAsked = TRUE, !.unsent = <<>>] IN
        IF x.endCheck
        THEN /\ run' = [run EXCEPT ![cur] = y]
             /\ UNCHANGED writes
        ELSE /\ run' = [run EXCEPT ![cur] = CancelOpen(y)]
             /\ writes' = writes \o CancelOpenWrites(y, cur, "none")
     /\ cancelled' = cancelled \union ToSet(x.unsent)
  /\ Spend("cancel")
  /\ UNCHANGED <<chat, table, daemon, cur, ends, msg, pick, end, got, unsure, missed>>

\* The texts of the messages that joined this start and are not in `unsent` yet.
Joining(r) == {t \in ToSet(run[r].held) : msg[t].run = r /\ msg[t].st \in {"wait", "write"}}

\* A cancel before the first prompt drops them only in a chat with an answer.
CancelEarly ==
  /\ cur # NoRun
  /\ LET x == run[cur] IN
     /\ x.turning /\ ~x.pickRelaunch /\ ~x.reaches
     /\ run' = [run EXCEPT ![cur] =
                  CancelOpen([x EXCEPT !.cancelledEarly = TRUE, !.earlyCancels = @ + 1,
                                       !.unsent = IF answers.answered THEN <<>> ELSE @])]
     /\ writes' = writes \o CancelOpenWrites(x, cur, "none")
     /\ cancelled' = IF answers.answered
                     THEN cancelled \union ToSet(x.unsent) \union Joining(cur)
                     ELSE cancelled
  /\ Spend("cancel")
  /\ UNCHANGED <<chat, table, daemon, cur, ends, msg, pick, end, got, unsure, missed>>

-----------------------------------------------------------------------------
(* `stop`, `end`, `stopStarts` and `close`. *)

Stop ==
  /\ cur # NoRun
  /\ ~run[cur].turning /\ run[cur].open = {}
  /\ Spend("end")
  /\ run' = [run EXCEPT ![cur] = Quit(SetBackground(@, FALSE, FALSE))]
  /\ writes' = writes \o SetBackgroundWrites(run[cur], cur, FALSE, FALSE)
  /\ Forget(cur)
  /\ UNCHANGED <<chat, table, daemon, history, ends, msg, end>>

\* `endNow`.  It ends the run that was current at the call, which can be quiet by now.
EndNow(r) ==
  /\ LET x == run[r] IN
     IF ~x.turning
     THEN /\ run' = [run EXCEPT ![r] = Quit(SetBackground(x, FALSE, FALSE))]
          /\ writes' = writes \o CancelOpenWrites(x, r, "end") \o SetBackgroundWrites(x, r, FALSE, FALSE)
     ELSE /\ run' = [run EXCEPT ![r] = Quit(x)]
          /\ writes' = IF x.quiet THEN writes
                       ELSE Append(writes, WThen(Plain("interrupted"), r, "end"))
  /\ Forget(r)
  /\ end' = [st |-> "ends", run |-> r]

\* `end` of a chat whose turn a cancel can reach: it cancels the turn and waits.
EndCancels ==
  /\ end.st = "none" /\ ~stopping
  /\ cur # NoRun
  /\ Spend("end")
  /\ LET x == run[cur] IN
     /\ x.turning /\ x.reaches
     /\ run' = [run EXCEPT ![cur] = CancelOpen([x EXCEPT !.cancelAsked = TRUE, !.unsent = <<>>])]
     /\ writes' = writes \o CancelOpenWrites(x, cur, "end")
     /\ cancelled' = cancelled \union ToSet(x.unsent)
  /\ end' = [st |-> "turn", run |-> cur]
  /\ UNCHANGED <<chat, table, daemon, cur, ends, msg, pick, got, unsure, missed>>

\* `end` of a chat with no such turn.
EndAtOnce ==
  /\ end.st = "none" /\ ~stopping
  /\ cur # NoRun
  /\ ~(run[cur].turning /\ run[cur].reaches)
  /\ Spend("end")
  /\ EndNow(cur)
  /\ UNCHANGED <<chat, table, daemon, history, ends, msg>>

EndWithNoRun ==
  /\ end.st = "none" /\ ~stopping
  /\ cur = NoRun
  /\ Spend("end")
  /\ end' = [st |-> "ends", run |-> NoRun]
  /\ UNCHANGED <<chat, table, daemon, history, run, cur, ends, writes, msg, pick>>

\* The turn ended, its process ended, or the grace time is over.
EndWaited ==
  /\ end.st = "turn" /\ ~stopping
  /\ EndNow(end.run)
  /\ UNCHANGED <<chat, table, daemon, history, ends, msg, left>>

\* `end` gives up once the daemon stops: `close` interrupts the run.
EndRefused ==
  /\ end.st # "none" /\ stopping
  /\ end' = NoEnd
  /\ UNCHANGED <<chat, table, daemon, history, run, cur, ends, writes, msg, pick, left>>

(***************************************************************************)
(* `end` resolves after the processes and the writes of the chat.  A       *)
(* restart that it overtook waits for the same promise since before the    *)
(* end did, so its reaction runs first.                                    *)
(***************************************************************************)
EndResolves ==
  /\ end.st = "ends" /\ ~stopping
  /\ EndsResolved(ends)
  /\ \A r \in Runs : r <= used => run[r].pc # "reopen"
  /\ writes = <<>>
  /\ end' = NoEnd
  /\ UNCHANGED <<chat, table, daemon, history, run, cur, ends, writes, msg, pick, left>>

StopStarts ==
  /\ ~stopping
  /\ Spend("stop")
  /\ stopping' = TRUE
  /\ run' = [r \in Runs |-> IF r = cur THEN [run[r] EXCEPT !.idle = "off"] ELSE run[r]]
  /\ UNCHANGED <<chat, table, history, cur, ends, writes, msg, pick, end, closed>>

\* `close` silences the run, and ends each process that is alive, also one with no run.
ClosingRun(r) == IF r = cur THEN EndProcess(Silence(run[r])) ELSE run[r]
Closing(r) == EndProcess(IF r = cur THEN Silence(run[r]) ELSE run[r])

Close ==
  /\ stopping /\ ~closed
  /\ closed' = TRUE
  /\ run' = [r \in Runs |-> Closing(r)]
  /\ writes' = IF cur = NoRun THEN writes
               ELSE Append(writes, WThen(Plain("interrupted"), cur, "close"))
  /\ Forget(cur)
  /\ UNCHANGED <<chat, table, history, ends, msg, end, stopping, left>>
-----------------------------------------------------------------------------
(* The end of a write: the registry does the writes of a chat one by one. *)

\* `interrupt` writes nothing in a chat that is not busy.
Logged(e) ==
  LET skips == e.kind = "interrupted" /\ ~ChatBusy(fold)
  IN /\ fold' = IF skips THEN fold ELSE FoldChat(fold, e)
     /\ answers' = IF skips THEN answers ELSE TrackAnswers(answers, e)

\* The next write is done, and the runner waits for nothing more than its result.
WriteDone ==
  /\ writes # <<>>
  /\ LET w == Head(writes) IN
     /\ w.cont \in {"none", "call", "kill", "end", "close"}
     /\ Logged(w.ev)
     /\ run' = IF w.cont = "kill" THEN [run EXCEPT ![w.by] = EndProcess(@)] ELSE run
     /\ msg' = IF w.cont = "call" THEN [msg EXCEPT ![w.ev.text[1]].st = "done"] ELSE msg
  /\ writes' = Tail(writes)
  /\ UNCHANGED <<table, daemon, history, stored, faulted, cur, ends, pick, end, left>>

\* A text is kept unless a cancel came after its message in a chat with an answer.
KeepsAlways(r, t) == TRUE
Keeps(r, t) == run[r].earlyCancels = msg[t].cancels \/ ~answers.answered

\* The rest of `hold`: the text joins `unsent`.
HoldWritten ==
  /\ writes # <<>> /\ Head(writes).cont = "hold"
  /\ Logged(Head(writes).ev)
  /\ writes' = Tail(writes)
  /\ LET r == Head(writes).by
         t == Head(writes).ev.text[1]
     IN /\ run' = [run EXCEPT ![r].unsent = IF Keeps(r, t) THEN Append(@, t) ELSE @,
                              ![r].pc = IF @ = "hold" THEN "launch" ELSE @]
        /\ cancelled' = IF Keeps(r, t) THEN cancelled ELSE cancelled \union {t}
        /\ msg' = [msg EXCEPT ![t].st = "done",
                              ![t].late = r # last /\ run[last].pc # "reopen"]
  /\ UNCHANGED <<table, daemon, stored, faulted, got, unsure, missed, cur, ends, pick, end, left>>

\* The interrupt of a start is done.  The daemon stop or an `end` may have overtaken it.
InterruptDone(r) ==
  /\ run[r].pc = "interrupt"
  /\ writes # <<>> /\ Head(writes).cont = "reopen" /\ Head(writes).by = r
  /\ Logged(Head(writes).ev)
  /\ writes' = Tail(writes)
  /\ IF stopping \/ run[r].quiet
     THEN /\ run' = [run EXCEPT ![r] = Overtaken(@)]
          /\ Forget(r)
     ELSE /\ run' = [run EXCEPT ![r].reopened = "ok",
                                ![r].pc = IF run[r].byPick THEN "launch" ELSE "hold"]
          /\ UNCHANGED <<cur, pick>>
  /\ UNCHANGED <<table, daemon, history, stored, faulted, ends, msg, end, left>>

SessionStored(r) ==
  /\ run[r].pc = "store"
  /\ writes # <<>> /\ Head(writes).cont = "session" /\ Head(writes).by = r
  /\ Logged(Head(writes).ev)
  /\ writes' = Tail(writes)
  /\ stored' = TRUE
  /\ run' = [run EXCEPT ![r].pc = "options"]
  /\ UNCHANGED <<table, daemon, history, faulted, cur, ends, msg, pick, end, left>>

\* `begin` after the write of `resumed`: a message can have joined during it.
AfterResumed(r) ==
  /\ run' = [run EXCEPT ![r] = IF @.pickRelaunch THEN PickRelaunchOver(@)
                               ELSE [@ EXCEPT !.pc = "held"]]
  /\ AnswerPick(r)

ResumedDone(r) ==
  /\ run[r].pc = "resumed"
  /\ writes # <<>> /\ Head(writes).cont = "resumed" /\ Head(writes).by = r
  /\ Logged(Head(writes).ev)
  /\ writes' = Tail(writes)
  /\ AfterResumed(r)
  /\ UNCHANGED <<table, daemon, history, stored, faulted, cur, ends, msg, end, left>>

(***************************************************************************)
(* A write fails, and its line is not in the log.  The run of the write    *)
(* halts: it writes nothing more and its process ends.  The caller gets    *)
(* the fault only after that.  A fault of `close` is only reported.        *)
(***************************************************************************)
WriteFails ==
  /\ writes # <<>>
  /\ Spend("fault")
  /\ faulted' = TRUE
  /\ writes' = Tail(writes)
  /\ LET w == Head(writes)
         x == Quit(run[w.by])
     IN IF w.cont = "close" THEN UNCHANGED <<run, cur, pick, msg, end>>
        ELSE /\ run' = [run EXCEPT ![w.by] =
                          CASE w.cont = "reopen" -> [x EXCEPT !.reopened = "failed", !.pc = "over"]
                            [] w.cont = "session" -> [x EXCEPT !.pc = "over"]
                            [] w.cont = "resumed" -> [x EXCEPT !.pc = "halted"]
                            [] OTHER -> x]
             /\ Forget(w.by)
             /\ msg' = IF w.cont \in {"call", "hold"}
                       THEN [msg EXCEPT ![w.ev.text[1]].st = "halt", ![w.ev.text[1]].run = w.by]
                       ELSE msg
             /\ end' = IF w.cont = "end" /\ end.st # "none" THEN [end EXCEPT !.st = "fails"] ELSE end
  /\ UNCHANGED <<table, daemon, history, fold, answers, stored, ends>>

Halted(r) == run[r].proc \in {"none", "ended"}

MessageFails(t) ==
  /\ msg[t].st = "halt" /\ Halted(msg[t].run)
  /\ msg' = [msg EXCEPT ![t].st = "refused"]
  /\ run' = [run EXCEPT ![msg[t].run] = HoldFailed(@)]
  /\ UNCHANGED <<chat, table, daemon, history, cur, ends, writes, pick, end, left>>

StartHalted(r) ==
  /\ run[r].pc = "halted" /\ Halted(r)
  /\ AfterResumed(r)
  /\ UNCHANGED <<chat, table, daemon, history, cur, ends, writes, msg, end, left>>

EndFails ==
  /\ end.st = "fails" /\ Halted(end.run)
  /\ end' = NoEnd
  /\ UNCHANGED <<chat, table, daemon, history, run, cur, ends, writes, msg, pick, left>>

-----------------------------------------------------------------------------
(* What happens next. *)

Send(t) == RefuseMessage(t) \/ Restart(t) \/ JoinStart(t) \/ JoinTurn(t) \/ StartTurn(t)

\* Bound: the messages of this behaviour.
MayWrite == Cardinality({t \in Texts : msg[t].st # "new"}) < left["text"]

ClientStep ==
  \/ \E t \in Texts : msg[t].st = "new" /\ MayWrite /\ Send(t)
  \/ \E q \in Requests : Answer(q)
  \/ SetOption \/ CancelOwnTurn \/ CancelTurn \/ CancelEarly
  \/ Stop \/ EndCancels \/ EndAtOnce \/ EndWithNoRun \/ StopStarts

\* The next step of the coroutine of a run, where it does not wait for the agent.
RunStep(r) ==
  \/ Reopen(r) \/ LaunchOver(r) \/ Spawn(r) \/ StartHalted(r)
  \/ OptionSent(r) \/ OptionsQuiet(r) \/ OptionsDone(r) \/ PickOptionsDone(r) \/ HeldOver(r)
  \/ NextPrompt(r) \/ \E jobs \in BOOLEAN : TurnOver(r, jobs)

CheckStep(r) ==
  \/ IdleOvertaken(r)
  \/ \E jobs \in BOOLEAN : MarkerChecked(r, jobs) \/ StopChecked(r, jobs)

\* The process that was asked to end does: `endGroup` kills it in the end.
ProcessEnds(r) == run[r].proc \in {"ending", "cut"} /\ \E clean \in BOOLEAN : Exit(r, clean)

ExitStep(r) == OnExit(r) \/ GroupEnded(r)

MessageStep(t) ==
  \/ msg[t].st = "again" /\ Send(t)
  \/ MessageFails(t)
  \/ \E r \in 1..used : HoldRefused(r, t) \/ HoldStopping(r, t) \/ HoldAgain(r, t) \/ HoldWrite(r, t)

WriteStep ==
  \/ WriteDone \/ HoldWritten
  \/ \E r \in 1..used : InterruptDone(r) \/ SessionStored(r) \/ ResumedDone(r)

PickStep == PickRefused \/ PickRelaunches \/ PickWaits \/ PickDirect

EndStep == EndWaited \/ EndRefused \/ EndResolves \/ EndFails

\* What the agent, the timers and the file system do, which nothing promises.
AgentStep(r) ==
  \/ LaunchFails(r) \/ Initialized(r) \/ SessionResumed(r) \/ SessionLost(r)
  \/ SessionCreated(r) \/ AgentFails(r) \/ OptionAnswered(r)
  \/ AgentWorks(r) \/ OwnOutput(r) \/ OwnTurnMarker(r) \/ IdleExpires(r)
  \/ ConnectionCut(r)
  \/ \E reason \in BOOLEAN : PromptReturned(r, reason)
  \/ \E clean \in BOOLEAN : run[r].proc = "alive" /\ Exit(r, clean)
  \/ \E t \in Texts : AgentInjects(r, t) \/ SteerAnswered(r, t)
  \/ \E q \in Requests : Ask(r, q) \/ AgentTakesBack(r, q)
  \/ \E jobs, ended, recent \in BOOLEAN : IdleChecked(r, jobs, ended, recent)

\* A message that waits for nothing more goes on before any event from outside the daemon.
MessageReady ==
  \E t \in Texts :
    \/ /\ msg[t].st = "wait" /\ run[msg[t].run].reopened # "wait" /\ HoldsNow(msg[t].run, t)
    \/ msg[t].st = "again" /\ (cur # NoRun \/ ~Accepts \/ used < MaxRuns)

Outside(r) == ~MessageReady /\ (AgentStep(r) \/ ProcessEnds(r))

Next ==
  \/ ~MessageReady /\ (ClientStep \/ PickAnswered \/ WriteFails)
  \/ Close \/ WriteStep \/ PickStep \/ EndStep
  \/ \E t \in Texts : MessageStep(t)
  \/ \E r \in 1..used : RunStep(r) \/ CheckStep(r) \/ ExitStep(r) \/ Outside(r)

Spec == Init /\ [][Next]_vars

(***************************************************************************)
(* The daemon goes on with what it can do, a process that is asked to end  *)
(* does end, and a daemon that stops starts closes its chats.  Nothing is  *)
(* assumed of the agent, of its client and of the idle timer.              *)
(***************************************************************************)
Fairness ==
  /\ \A r \in Runs : /\ WF_vars(r <= used /\ RunStep(r))
                     /\ WF_vars(r <= used /\ ~MessageReady /\ ProcessEnds(r))
                     /\ WF_vars(r <= used /\ ExitStep(r))
  /\ \A t \in Texts : WF_vars(MessageStep(t))
  /\ WF_vars(WriteStep) /\ WF_vars(EndStep) /\ WF_vars(Close)

LiveSpec == Spec /\ Fairness

-----------------------------------------------------------------------------
(* The type invariant. *)
TypeOK ==
  /\ run \in [Runs -> RunRecord]
  /\ used \in 0..MaxRuns /\ cur \in 0..used /\ last \in 0..used /\ ends \in 0..used
  /\ writes \in Seq(Write)
  /\ fold \in Fold /\ answers \in Answers /\ stored \in BOOLEAN
  /\ msg \in [Texts -> Message]
  /\ pick \in Pick /\ end \in End
  /\ stopping \in BOOLEAN /\ closed \in BOOLEAN
  /\ left \in [Bounded -> Nat]
  /\ faulted \in BOOLEAN
  /\ got \in [Texts -> Nat] /\ cancelled \subseteq Texts /\ unsure \subseteq Texts
  /\ missed \subseteq Texts
=============================================================================
