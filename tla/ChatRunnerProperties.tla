------------------------ MODULE ChatRunnerProperties ------------------------
(***************************************************************************)
(* What the runner of a chat promises, in the words of its comments and of *)
(* docs/chat-agents.md, and what its steps rely on.                        *)
(***************************************************************************)
EXTENDS ChatRunner

-----------------------------------------------------------------------------
(* The safety properties. *)

Live == {"alive", "ending", "cut", "exited"}

\* "Two processes never run on one session": a new agent starts only after the whole
\* process group of the last one has ended, whatever overtakes its start.
OneProcess == \A r, s \in Runs : run[r].proc \in Live /\ run[s].proc \in Live => r = s

\* An agent that is no longer the agent of the chat is ending: no failure, stop or exit
\* leaves a process alive with nobody to end it.  Only `stopStarts` may, until `close`.
NoStrayAgent ==
  \A r \in Runs : run[r].proc = "alive" /\ cur # r =>
     stopping \/ \E i \in DOMAIN writes : writes[i].cont = "kill" /\ writes[i].by = r

\* The state of the chat after each of the writes that were called, and after all.
Folds(f, ws) ==
  LET after[n \in 0..Len(ws)] == IF n = 0 THEN f ELSE FoldChat(after[n - 1], ws[n].ev)
  IN after
AllWritten == Folds(fold, writes)[Len(writes)]

\* A run that writes keeps its own copy of the state of the chat: its open requests, its
\* background values and its turn are what the log says once its writes are done.
RunMirrorsLog ==
  cur # NoRun /\ ~faulted /\ ~run[cur].quiet /\ run[cur].pc \notin {"reopen", "interrupt", "over"} =>
     LET x == run[cur] IN
     /\ AllWritten.open = x.open
     /\ AllWritten.job = x.job /\ AllWritten.own = x.own
     /\ ~x.turning => ~AllWritten.turn
     /\ x.pc \in {"prompt", "check"} => AllWritten.turn

\* The agent gets no text of a message twice in one session, over restarts, steers and
\* prompts, unless the answer of a steer was lost with the connection.
NoTextTwice == \A t \in Texts \ unsure : got[t] <= 1

\* A text that a cancel took back is in no later prompt.  The text of a message that was
\* still on its way is held back only while that message does not start over.
SentAfterCancel(t) ==
  /\ t \in cancelled /\ got'[t] > got[t]
  /\ \A r \in Runs : t \notin run[r].steering

CancelHolds == [][\A t \in Texts : SentAfterCancel(t) => msg[t].restarts]_vars

\* The same with no exception, as `cancel` promises: "Each text of a message that the agent
\* has not got yet is dropped, except before the first prompt in a chat with no answer".
CancelDropsEachText == [][\A t \in Texts : ~SentAfterCancel(t)]_vars

\* A message that was accepted is with the agent, was cancelled, or waits where the next
\* prompt or the next start finds it.  What the code does not save: a text that a prompt took
\* to a closed connection, and one whose write ended after the next start took the texts.
Unsent(r) == ToSet(run[r].unsent)
Waiting ==
  (IF last = NoRun THEN {} ELSE Unsent(last))
    \union (IF last # NoRun /\ run[last].pc = "reopen" /\ run[last].prev # NoRun
            THEN Unsent(run[last].prev) ELSE {})
    \union (IF stored /\ last # NoRun THEN {} ELSE ToSet(answers.unanswered))

Forgotten(t) == msg[t].st = "done" /\ got[t] = 0 /\ t \notin cancelled \union Waiting

NoTextForgotten ==
  ~faulted => \A t \in Texts : Forgotten(t) => t \in missed \/ msg[t].late

\* The same for a late write too, as `message` promises: the turn starts "with the earlier
\* texts of the chat that the agent has still to get".
NoTextLost == ~faulted => \A t \in Texts : Forgotten(t) => t \in missed

\* A chat with no run shows no agent at work, once what was called is written.
NoOrphanTurn == cur = NoRun /\ ~faulted => ~AgentActive(AllWritten)

\* Each event fits the state that the log is in: a turn ends or is interrupted only while it
\* runs, a request is resolved only while it is open, and opens only once.
EventsFit ==
  [][writes # <<>> /\ writes' = Tail(writes) /\ ~faulted' =>
       LET e == Head(writes).ev IN
       /\ e.kind \in {"turn-end", "turn-cancelled"} => fold.turn
       /\ e.kind = "resolved" => e.reqs \subseteq fold.open
       /\ e.kind = "ask" => e.reqs \cap fold.open = {}
       /\ e.kind = "background" => <<e.job, e.own>> # <<fold.job, fold.own>>]_vars

\* When `end` resolves, every process of the chat has ended and the chat is not at work.
EndMeansEnded ==
  [][end.st = "ends" /\ end'.st = "none" /\ ~stopping =>
       /\ \A r \in Runs : run[r].proc \in {"none", "ended"}
       /\ cur = NoRun
       /\ ~faulted => ~AgentActive(fold)]_vars

\* After `stopStarts` no agent starts, and the only prompt is the first one of a start that
\* had no message to wait for.
StopHolds ==
  [][stopping => \A r \in Runs :
       /\ run'[r].proc = "alive" => run[r].proc = "alive"
       /\ run'[r].pc = "prompt" /\ run[r].pc # "prompt" =>
            run[r].pc = "options" /\ run[r].held = <<>>]_vars

\* Once `close` was called and its writes are done, no chat shows an agent at work, and every
\* process is ending.
ClosedIsAtRest ==
  closed => /\ \A r \in Runs : run[r].proc # "alive"
            /\ writes = <<>> /\ ~faulted => ~AgentActive(fold)

\* Each pick of the chain is with somebody who answers it: the run that waits for its session,
\* or the agent.  Else every later pick of the chat would wait for ever.
PickHasOwner ==
  /\ pick.st = "waiting" => cur = pick.run \/ (~run[pick.run].quiet /\ run[pick.run].pc # "over")
  /\ pick.st = "setting" => run[pick.run].pc = "pick"
  /\ pick.st = "applied" => run[pick.run].pc \in {"options", "resumed", "halted"}
  /\ pick.st = "direct" => run[pick.run].proc \in {"alive", "ending"}

-----------------------------------------------------------------------------
(* The liveness properties. *)

\* A call of `message` "never waits for the agent": it is accepted or refused.  Here it can
\* also stay where a message that starts over has no run left.
OutOfRuns == used = MaxRuns /\ \E t \in Texts : msg[t].st = "again"

MessageSettles ==
  \A t \in Texts : msg[t].st # "new" ~> msg[t].st \in {"done", "refused"} \/ OutOfRuns

\* `end` resolves or is refused, also when the agent answers no cancel.
EndSettles == end.st # "none" ~> end.st = "none"

=============================================================================
