# Tasma in TLA+

Tasma keeps tasks in files of a repository and runs a coding agent on them. One local daemon serves
the CLI, the web app and the macOS app. It keeps the files, an index of them, and the chats in which
agents work. This project models the parts of the daemon whose correctness depends on the order of
events, checks them with TLC, and proves the most important facts with TLAPS.

Paths below are relative to `src/`. `R` is `apps/daemon/src/chats/runner.ts`.

## The system

| Component | State | Operations | Interacts with |
|---|---|---|---|
| Chat fold, `packages/protocol/src/chat.ts` | none: computed from the log | `foldChat`, `turnRuns`, `agentActive`, `chatBusy` | registry, runner, every client |
| Chat runner, `R` | runs, last runs, ends, picks, ends in progress, the stop signal | `start`, `message`, `cancel`, `end`, `stop`, `setOption`, `pending`, `stopStarts`, `close` | registry (writes), agent process, idle timer, routes |
| Idle timer, `apps/daemon/src/chats/idle.ts` | one timer per run | arm, touch, clear | runner (`idleCheck`) |
| Agent process, `apps/daemon/src/agents/` | a process group, a connection | spawn, request, notify, close, end of the group | runner (handlers) |
| Live chat registry, `apps/daemon/src/chats/registry.ts` | for each chat: log, fold, open requests, answers, `stateSeq`, stale mark, write turn | append, interrupt, reopen, read, wait, rename, remove, load | engine store, write queue, feed |
| Step starts, `apps/daemon/src/chats/start.ts` | one turn per task | start or continue the chat of a task, end the one before | runner, registry, task store |
| Write queue, `apps/daemon/src/tasks/serialize.ts` | the last turn of each key | `run`, `runAll` | every write of the daemon |
| Change feed, `apps/daemon/src/events/` | the last events, cursors, held reads | publish, read, hold, rescan | index, registry, clients |
| Daemon lifecycle, `apps/daemon/src/lifecycle/` | the daemon record on disk | claim, take away, release, probe | other daemons, CLI, macOS app |
| Project host, `apps/daemon/src/projects/host.ts` | open projects and indexes | discover, open, repair, rename, close | index, tree watch, feed |
| Task routes, `apps/daemon/src/tasks/routes.ts`, `comments.ts` | none: handlers in progress | create, update, delete, comment | write queue, task index, engine store |
| Engine store, `packages/engine/src/store/` | task, comment, chat and config files | create, update, delete, rename, counters, references | file system |
| Task index, `packages/engine/src/index-cache/` | tasks by path, the path queue, the gate | apply, reconcile, sweep, rebuild | file watch, project host |
| Tree watch, `packages/engine/src/tree/` | the known state of a tree, watches, timers, reads that wait | event, read, rescan, close | feed, disk |
| Page, `apps/web/src/api/`, `components/feed-subscriber.tsx` | a cursor, the cache of queries, the window on a chat log | long poll, invalidate, follow | feed, chat routes |
| HTTP server, CLI, web app, macOS app | connections; a supervisor | requests | daemon |

PROJECT.json lists every component with its files and says why a component is not modelled.

### What is hard

The daemon is one JavaScript thread, so two handlers interleave only at an `await`. All of the
difficulty is in what changes during one:

* **Runner.** A start takes seven waits (last process, interrupt, first message, shell, agent,
  session, options). During each of them a client can send, cancel, pick, stop or end, the agent can
  exit or ask, a write can fail and the daemon can stop. Correct means: one agent process at a time;
  each accepted text reaches the agent once or is taken back by a cancel; the log ends in a state in
  which nobody works when nobody does; `message` and `end` answer; nothing is left alive.
* **Registry.** An append can fail after it wrote a part of its line; the log is read again before
  the next write. A rename or a removal moves the folder between two writes. A daemon that died in a
  turn leaves a chat at work. Correct means: the fold in memory is the fold of the lines on disk,
  entry numbers are never reused, and `stateSeq` moves whenever the status does.
* **Write queue.** Correct means: one writer per key, turns in call order, nested turns never wait
  for each other in a circle, and no key of an ended turn stays.
* **Task writes.** A write reads its keys from the index, waits for its turns, reads the file, checks
  other files and renames a new one into place; a delete rewrites every task that names it and begins
  again when one came up meanwhile. Correct means: no write takes another away, no task names a deleted
  one unless the delete said so, parents form no ring, the index shows what the files hold.
* **Feed.** Cursors are only positions: a client that asks for more than the window gets a reset. A reply can be lost,
  a watch event can be lost, and a read of a query can be under way when the page hears of the change. Correct means:
  no page goes on with old data that it has been told of, and it comes to hear of every change.
* **Daemon record.** Several daemons start at once, some die half way. Correct means: at most one
  serves, and a live record is not taken away.
* **Tree watch.** Flat watches hear only of their own folder, reads take time, and a new folder is filled before its watch
  is there. Correct means: the known state comes to be the disk wherever a watch stood, and a rescan has seen everything.
* **Index.** Reads overlap with changes of what they read. Correct means: the index comes to agree with the files once
  they stop to change.
* **Store.** A crash between two of its steps. Correct means: no number is given twice, and a rename
  leaves exactly one project.

PROJECT.json lists these hazards line by line under `hazards`, with the properties that cover each, or why none does.

## The modules

| Module | What it is |
|---|---|
| `ChatFold` | The events of a chat, `foldChat` and what the registry keeps of the agent's answers, as operators |
| `ChatRunner` | The runner of one chat: state, one action for each step between two waits, `Spec` and `LiveSpec` |
| `ChatRunnerProperties` | What the runner promises: invariants, action properties, liveness |
| `MCChatRunner` | Budgets and symmetry for TLC; so the other `MC` modules for theirs |
| `ChatRunnerKeeps` | The proofs about types, agents, the stop of the daemon and picks |
| `ChatRunnerMirrors` | The proofs about the log: what a run has in mind is what the log will say. Then the line of the runs, and the steps that move no text |
| `ChatRunnerTexts` | The proofs about texts: where each text is, that the agent gets none twice, and none that a cancel took back |
| `WriteTurns` | What the write queue promises: lines, one for each key, and a write that is first in all of its lines |
| `WriteQueue` | `run` and `runAll`, what holds of them, and the refinement to `WriteTurns` |
| `TaskWrites` | The writes of the tasks of one project; it extends `WriteQueue`, and each handler takes its turns there |
| `MCTaskWrites` | The projects and requests that TLC takes |
| `TaskWritesTurns` | The proofs about the queue and about the task writes |
| `LiveChat`, `MCLiveChat` | One chat from its log on disk over the handle of the daemon to the page that follows it |
| `LiveChatKeeps` | The proofs about the chat log, its handle and its page |
| `Feed`, `MCFeed` | A change on its way over the change feed to the queries of a page |
| `FeedTells` | The proofs about the feed |
| `DaemonRecord`, `MCDaemonRecord` | Starts and stops of daemons over one record |
| `DaemonRecordServes` | The proofs about the record |
| `TreeWatch`, `MCTreeWatch` | The watch of the tree, with the disk and the hands that change it |
| `TreeWatchTells` | The proofs about the tree watch |

### ChatFold

An event is a record with a `kind`. A request is an opaque id, and `ResolvedEvent` resolves a set of
requests in one step, where the code writes one entry for each. The fold keeps `turn`, `job` and `own`
(the two parts of the background), `open` and `stopped`. The words of a stop, the order of open
requests and every event that does not change the fold are left out ("work" stands for the updates
that count as an answer of the agent, "other" for a new session id and everything else).

### ChatRunner

One chat of one daemon, and *every* run of it: a run that is no longer current goes on until its
coroutine returns and its process has ended, and most of what can go wrong is in that overlap.

| Variable | In the code |
|---|---|
| `run[r]` | a `Run` (R 201-277) and the place where its coroutine waits (`pc`), its process (`proc`), its timer (`idle`) and its checks (`marker`, `stopper`) |
| `used`, `cur`, `last`, `ends` | how many runs were registered, and the maps `runs`, `lastRuns` and `ends` of this chat |
| `writes` | the writes called and not yet done, in call order, each with what goes on after it |
| `fold`, `answers`, `stored` | the state that the registry keeps for the chat |
| `msg`, `pick`, `end` | the calls of clients in progress: one per text, the chain of picks, the one `end` |
| `stopping`, `closed` | `stopStarts` and `close` were called |
| `left`, `faulted` | what is left of the one of `Budgets` that holds; a write of the log failed |
| `got`, `cancelled`, `unsure`, `missed` | history for the properties; no guard of a step of the program reads `cancelled`, `unsure` or `missed` |

An action is what one handler does from one `await` to the next, with every call it makes. Examples:
`message` is `RefuseMessage`, `Restart`, `JoinStart`, `JoinTurn` or `StartTurn`, by the condition of its
first step; the loop after its waits (`hold`, R 1045-1060) is `HoldRefused`, `HoldStopping`, `HoldAgain`,
`HoldWrite` and `HoldWritten`. `reopen` is `Reopen` and `InterruptDone`. `begin` is `Initialized`,
`SessionResumed`/`SessionLost`/`SessionCreated`, `SessionStored`, `OptionSent`/`OptionAnswered`,
`OptionsDone`/`PickOptionsDone`, `ResumedDone` and `HeldOver`. `runTurn` is `RunTurn`, `PromptReturned`,
`NextPrompt` and `TurnOver`. `end` is `EndCancels`, `EndAtOnce` or `EndWithNoRun`, then `EndWaited` and
`EndResolves`. What the agent may do is `AgentStep`.

Choices a reader should know:

* `start` is an initial state (a chat with its first message and an agent just spawned). The other
  initial states are a chat that was loaded from disk, with and without an answer of the agent.
* A write fails as a whole: its line is not in the log. `LiveChat` has the line that is there in part.
* A prompt hands its texts to the connection. A prompt or steer on a closed connection fails at once.
  `got` counts a text when a prompt with it is sent on an open connection (`PromptGot`), and when the agent takes a steer
  in (`AgentInjects`); a steer whose answer was lost with the connection is `unsure`. A prompt on a connection that is
  closed by then throws (`apps/daemon/src/agents/acp.ts` 212-218) after `runTurn` has emptied `unsent` (R 611): its texts
  are `missed`. What an agent does with a prompt that reached its connection, before it exits, is not in the model.
* The agent speaks only in a session, and after a new session only once it got a text (`Speaks`).
  Its notifications while it replays a session are muted in the code and left out.
* A session that the agent lost before it ever answered counts as new from that moment (`SessionLost`): the history
  `got` and `cancelled` begins anew there, before the request for a new session is answered, because an agent that
  never answered may have saved nothing of what it got.
* Starts that wait for one and the same process go on in the order in which they came to wait (`Reopen`): they are
  reactions of one promise.
* One check after a marker and one after a stop run at a time, and the agent sends on its own only
  while fewer than `MaxWrites` writes wait: both are bounds.
* At most one `end` is in progress: its only caller holds the turn of the task
  (`apps/daemon/src/chats/start.ts` 66-75 and 114). The moment at which a refused `end` returns is not
  observable, so `EndRefused` may come later than in the code.
* A message that waits for nothing more goes on before any event from outside (`MessageReady`): its
  continuation is a microtask.
* A clean exit between turns can leave a request of the run open in the log; the code answers it later
  from `pending`. The model does the same.
* `OutOfRuns` is no state of the program: a message that starts over finds no run left in the bound.

### WriteTurns and WriteQueue

A turn of the code is a promise; here it is a number, in the order in which the turns of its key were
created, and `ended` holds the numbers whose promise is resolved. `turns` is the map `#turns`, 0 for no entry.
`runAll` nests one `run` for each key: `mine` holds the turns of the runs that a call is in, `wait` the promise
that the innermost of them awaits, `todo` the keys still to be nested. `Run` is `run` up to its `await`, in which
the turn is taken; `Enter` goes on after it and is the next `run` or the write itself (`Inner`); `WriteEnds` is
the end of the write, fulfilled or refused; `Leave` is the `finally` of one run, and the runs are left one by
one, innermost first. Keys are numbers, because `sort` puts the strings in one order.

`WriteTurns` is what a caller may rely on: it stands in lines, goes only to the end of a line, runs its write
as the first of all of its lines and leaves them only after that. It knows nothing of promises, of the map or of
the order of keys. `PromiseHolds` is the refinement: `place` is `mine` and `last` is `issued`.

### TaskWrites

One project. `file` is the directory of its tasks, `index` the entries of the index, `call[c]` where a handler
is. A request is one of create, update, comment and delete, made once by each caller; what each may ask is a
constant (`Plans`), so a run names the requests that it lets meet.

| Action | In the code |
|---|---|
| `Begin` | a handler after `host.open`: it reads its keys from the index (`blockerKeys`, `parentKeys`, `referencesTo`) and takes its first turn |
| `Turn`, `Ends`, `Again` | the turns of `WriteQueue`; the end of the write; a delete that begins again with more turns |
| `Opens`, `ChecksBlocker`, `ChecksParent`, `WalksUp` | the read of the file, and the checks of `validateBlockedBy` and `validateParent`, one file at a time |
| `Saves`, `Creates`, `SaveFails` | `replaceFile`; `createTaskFile` with the counter; a fault of either |
| `Applies` | the index reads the file back (`#applied`), however the write ended |
| `Looks`, `Removes`, `Unlists` | a delete inside its turns: the second look for references, the removal, the index |
| `OpensReference`, `SavesReference`, `AppliesReference` | `removeReference` for one task after another |
| `Watches` | the watch of the directory has one file read |

Choices a reader should know:

* A file is what ties tasks together, the parent and the blockers, and one number for the comments, which stands
  for everything else that a write reads and writes back. A request states one field or none.
* A "broken" file is one that no read can parse. The code tells more cases apart (a file whose frontmatter alone
  can be read is listed, one that carries the id of another task is not); none of the properties does.
* Nobody edits a file by hand while requests run. A hand edit can break any of the properties, and the store
  says so. The counter of the project is intact and its write does not fail; its recovery is planned.
* A read of one file, a rename and a removal are single steps. The reads of `validateBlockedBy` overlap in the
  code; here they come one by one in any order.
* `Watches` reads and records in one step. In the code a read by the watch and the one of a write are queued
  under the path of the file, so the one that was asked for last decides.
* Left out: the chats of a deleted task, a rename or a delete of the project between two turns, updates and
  deletions of comments, which rewrite the file as `addComment` does.
* `loose` and `blind` are history. A write takes the turn of a stated task only if the index lists it, and a task
  whose file is broken, or was created a moment ago, is not listed although its file stands. `NoDangling` and
  `NoShortCycle` leave out references that were saved in that way: the delete of such a task can run between the
  check and the save. References that the files hold at the start and that are amiss already (to a task that is not
  there, or closing a ring of two or three) are in `loose` too: hand edits made before the daemon ran.

### LiveChat

One chat of one project. `disk` is its log: the lines, whether the last one has its newline, how many are flushed. `mem`
is the handle (`Live`) with what it read of the log, its fold and its `stateSeq`; `jobs` are the calls on it in call
order (`#writes`), of which the first one runs; `held` are the turns of the tags; `reader` is the loop of a page with the
read that it asks for.

| Action | In the code |
|---|---|
| `CallAppend`, `CallInterrupt`, `CallSeen` | `append`, `interrupt`, `setSeen` up to `#queued` |
| `AsksTurn`, `TakesTurn` | `#inTurns`: the turn of the tag, asked for again when a rename changed the tag |
| `Reopens` | a stale log is read again before the next call (`#reopen`) |
| `FindsBusy`, `FindsAtRest`, `ClampsSeen`, `Appends`, `MarksSeen`, `MarksNothing` | the bodies of the calls in their turns |
| `AppendFails`, `StepFails`, `ChecksFirst` | a fault in a write, with any part of its line on disk; one that changes nothing; the failed first append of a create |
| `FindsGone`, `RecoversGone` | `#forgetIfGone`; the recovery of a chat that went away |
| `Loads` | `load` with the recovery of a chat that its log leaves at work |
| `RenameMoves`, `RenameEnds`, `RenameThrows` | a rename of the project: its move of the chats, which can fail (`settle`), then its return with the hook, or a throw behind the move, with no hook |
| `Removes`, `Vanishes` | a removal with its hook, a folder that goes without a word |
| `Crash`, `PowerLoss` | the daemon dies, in a write as well; the machine stops and the lines that were not flushed can be cut |
| `Asks`, `AsksAgain`, `Released`, `HoldEnds` | `readAfter` and its hold |
| `Receives`, `Follows` | the loop of the page |

* A line holds an event or is torn. `Counts` is the rule of `scanLog`: a line whose `seq` is not above all before it is
  passed over. An append after a line with no newline starts a new line (`Written`).
* `StatusTold` uses `told`, the status in the last `chat` event or answer: what clients show for the chat in a list.
* `LogKeepsCalls` takes the entries of one call together (an interrupt resolves several requests and then ends the turn).
* A reply carries any number of the entries after the cursor, as the code cuts it by size.
* A rename can throw after it moved the chats: in the rest of `settle`, or in the read of the new declaration
  (`packages/engine/src/store/rename.ts` 404-405 and 466). The route then passes over `projectRenamed`
  (`apps/daemon/src/projects/routes.ts` 150-152), so the handle keeps the old tag and its next call finds nothing there.
  `mem.astray` is history of this. A read under the new tag loads the chat again (`Loads`, `LeftBehind`), and the model
  follows the new handle from then on. A rename that throws before the move changes nothing here and is left out.
* A rename that fails to move the chats (a finding of `settle`) leaves them in a hidden directory: the chat is gone.
* Left out: `setSession` and `setOptions`, which write the record as `setSeen` does, the closing of the registry, a
  chat number that is given again after a delete, and what a handle that was left behind does after the chat was loaded
  again. But for a rename that throws, the map of loads rules out two handles of one chat.

### Feed

`due` are changes that the daemon has yet to publish, because the call or the watch that tells of them is under way;
`missed` those whose watch event was lost, which a rescan finds. `feed` and `heard` are `createFeed`: the kept events,
their last number, the scheduled release and who reads. `poll` is `startLongPoll`, and `queries` the cache of the page:
which answer each query shows (`old` is one from before the last change that matters to it), its mark, its read under
way and whether a mark waits for that read to land.

* `Changes` makes the answers old that it tells. The answer of a read is fixed when the daemon gives it (`Answers`) and
  lands later (`Lands`), so a change and its event can come in between.
* The cache of the library (TanStack Query) is external: `Invalidated` marks a query and starts its read again when a
  screen shows it, and a first load runs on; a success clears the mark. The subscriber marks again after such a load.
* A daemon that stops closes its feed, ends, and starts with a new run id. The page polls on through all of it.
* `FEED_MAPPINGS` is the table of the code with one project, task, chat and workflow; the run takes two kinds of events
  and two queries whose marks overlap. `Tells`, which changes make the answer of a query old, is within the table by
  assumption.
* Left out: the refetch when a window gets the focus and the removal of unused queries, both of which only read more;
  changes between the bind of a daemon and its first read of the tree (`run.ts` 293), which no event tells: a page that
  reads in this window can show old data until the next change.

### DaemonRecord

Each process is a coroutine of `startDaemon`: `pc` names the step before which it is, `read` is the text that it
judges and `taken` what it took away from the name and has in its hand. A text is a record (of a process and its port),
absent, or unreadable.

| Action | In the code |
|---|---|
| `Reads`, `Probes`, `Binds` | `startDaemon` up to its bind; a taken port ends the start |
| `Links`, `Judges`, `Asks` | a round of `claimRecord`: the hard link, the read of what stands, the probe unless it names the own port |
| `Takes`, `Checks`, `Returns` | `takeAway`: the rename, the read of what it took, the link back |
| `Stops`, `Drained`, `Looks`, `Removes`, `Sorts`, `Restores` | `closeServing` and `removeRecord` with its `takeAway` |
| `Fails`, `Dies` | a call on a file fails; a process dies between any two steps |

* A probe answers at once for the port as it is, except that an answer of a live daemon can come too late
  (`FindsLate`). A daemon of another tree on the recorded port, and a port held by something else, are left out.
* The bind and the probe that follows a failed one are one step.
* `lost` is history. It holds once the record of a live daemon was dropped (its name was claimed while another process
  had it in its hand, or that process died or failed then), or a late answer had it judged gone. The code names the
  first of these in the comment of `takeAway`, and `daemon_race` shows it; `OneServes` and `RecordStands` say that there is no other way to two
  daemons, and `OneDaemonPerTree` is what run.ts says.
* A daemon that drains has given up its port, and a new start can serve while it ends its requests and its agents.
  `OneServes` is about daemons that serve; `OneDaemonPerTree` counts the draining ones too, though its run has no stop.

### TreeWatch

The disk is part of the model: `id` is the folder under each name and `file` the mark of its configuration, and a
hand edits, makes and removes. A folder goes by a number: the root, `projects/` and the projects. `seen` is `#state`,
`held` is `#held` (the identity a watch was taken for, and the folder that it really hears), `timers`, `queue` and
`fresh` are the areas of `#timers`, `#waiting` and the loop at the end of `#run`, and `reading` the read in flight.

| Action | In the code |
|---|---|
| `Edits`, `Makes`, `Removes` | a hand; the watch of the folder hears it (`#event`), or the event is lost |
| `TimerEnds`, `Rescans` | `#queue`, where a read that waits is joined |
| `RunNext`, `RunFresh` | the start of `#run` |
| `ReadsId`, `ReadsFile`, `ReadsNames`, `ReadsListInstead` | `readTree`, one call of the file system at a time |
| `ReadEnds` | the rest of `#run`: the state, `#follow` and the areas to read again |
| `RescanEnds`, `WatchFails`, `Closes` | `rescan` resolves; a watch reports an error; `close` |

* `excused` is history: folders whose change no watch was there to hear, or whose event was lost, until a read begins
  while a watch hears them. `NothingMissed` leaves them out. A folder that was replaced by another of the same name is
  among them: `#follow` takes a new watch for it but does not ask for another read (watch.ts 162), so a change between
  the read and the new watch waits for the next event or rescan. The comment at watch.ts 137 gives the reason why new
  folders are read again; it holds for replaced ones too.
* `RescanTold` asks more: `still` are the folders in which nothing changed since the rescan was asked for, and all of
  them match once it resolved, whatever was lost before.
* The workflows have a list, folders and marks as the projects have, and are left out. So are a root that goes away and
  the marks of `tasks/`. `readTree` never throws, so a read never fails.
* A tree has finitely many projects (`TreeAssumption`): without that "the first `Limit`" would mean nothing.

## The runs

TLC stops where all bounds are spent and the system rests, so `CHECK_DEADLOCK` is off in every run. That
nothing hangs is what the liveness properties check. Most runs take a set of *budgets*: each start of the model has one
of them, so rare events meet each other in the combinations that matter and not in all of them at once.

| Run | Bounds | Question |
|---|---|---|
| `chat_work` | 2 runs, no pick; 2 texts, a request, a cancel and an exit; or 1 text, a cancel, an exit, background and a failing write | Is a text sent twice, forgotten, or sent after a cancel took it back (`NoTextTwice`, `NoTextForgotten`, `CancelHolds`)? Does the run agree with the log (`RunMirrorsLog`, `EventsFit`)? Does a chat with no run ever look at work (`NoOrphanTurn`)? |
| `chat_ends` | 2 runs, 1 pick, 1 end; a second text, or the daemon stop and a failing write | Are there ever two agents at once, agents nobody ends, picks nobody answers? Does `end` resolve too early, does an agent start after the stop (`StopHolds`), does `close` leave one, or a chat that looks at work (`ClosedIsAtRest`)? |
| `chat_settles` | 2 texts, 2 runs, 1 end, no symmetry | Under fairness: `message` answers (`MessageSettles`), `end` answers (`EndSettles`) |
| `chat_cancel_drops`, `chat_text_lost` | 2 texts, 2 runs, 1 pick, 1 cancel, 1 exit | Expected violations, see below |
| `live_chat` | a request, a turn end and an interrupt, at most 2 calls; budgets of a failing write or move, a crash, a power loss, 2 renames of which one can throw, a removal | Is the fold the fold of the log (`FoldIsLog`)? Does the log keep each call once and in order (`LogKeepsCalls`)? Are clients told of each status (`StatusTold`)? Does the page show the log (`ViewIsLog`, `ReaderCatchesUp`)? Is a new entry ever counted as seen (`NewIsUnseen`)? Is a loaded chat at rest (`LoadedRests`)? Does a rename that ends with its hook ever make the daemon drop a chat that stands (`KeptWhileThere`)? |
| `feed` | a window of 1 event, 2 kinds, 2 queries; 2 changes with a lost reply, a screen that goes or a stop; a lost watch event; 2 stops | Does a query show old data with nothing to come that would tell it (`NoSilentStale`)? Does each query on a screen come to show the data as it is (`CatchesUp`)? |
| `task_writes` | 3 calls, any of 8 requests each with one delete at least, 2 tasks and one to come, 4 projects (one task broken, one naming a task that is not there yet), 1 failing save or removal | Does a save take another one away (`SavesFit`)? Does a task name a deleted one (`NoDangling`)? Can two or three parents form a ring (`NoShortCycle`)? Is the index the disk (`IndexAgrees`)? Does the queue under it keep its promise (`PromiseHolds`)? Is each request answered (`EachCallAnswers`)? |
| `task_parent_cycle` | 2 updates, 4 tasks | Expected violation, see below |
| `daemon_record` | 3 starts, 2 ports, 3 rounds; 2 stops and a death, or a stop, a late answer and a fault | Do two daemons serve before a record was lost (`OneServes`)? Is the record of a daemon that serves where it can be found (`RecordStands`)? Does a start stand down for nobody (`RefusedForOne`)? |
| `daemon_race` | 3 starts on 3 ports, nothing else | Expected violation, see below |
| `tree_watch` | 2 projects, 3 watches; 3 changes; or 2 with a rescan and a lost event or failing watch; or a close | Is a change missed where a watch stood (`NothingMissed`)? Has a rescan seen what stood (`RescanTold`)? |

**The runner.** Two runs are the least in which a restart overlaps with the run before it, and that overlap is where a
start reads what the last run left (`prev`, `awaits`). Two texts are the least in which one text waits
behind another, in `unsent` and in a start. One request is enough, since no step relates two requests;
steps that resolve several at once take the set. Three runs, or several cancels, exceed what TLC does in minutes; the
theorems below hold for any number of each. Where a bound leaves a case thin, as an idle stop that meets a second message
does in `chat_work`, the theorem is what covers it. `chat_settles` has no failing write, no exit and no stop of the daemon:
each of them multiplies the graph that the liveness check searches. The texts are compared only for equality, so their permutations are
a symmetry; the liveness run does not use it.

**The log.** One call with a failing write gives a torn line, a whole line with no newline and a whole one, each before a
second call, a crash or a load; the next append then meets it. Two renames are the least in which a call asks for its
turn twice, and in which one throws and another meets the handle that it left. One rename may throw (`LiveAssumption`): after
two, the folder could come back to the tag of a handle that is no longer followed. Two calls may wait at a time.

**The feed.** With a window of one event the second change drops the first, so a reader falls behind as soon as it
misses one read. Two queries, of which one event marks both and one marks one, are the least in which a mark for one
event hides another.

**The task writes.** Three requests over three tasks are the least in which a delete meets a task that comes to name it while
a third write holds one of its turns, and in which one call waits for a turn that another holds while that one waits for
a third, as a circle needs. No request has to begin, so that the plans with a delete hold those without. No two callers
ask for the same create, and plans that only swap callers are taken once.

**The record.** Three starts are the least in which one has the live record of a second in its hand while a third
claims. Two ports let two of them meet on one. The processes are a symmetry.

**The tree.** The second project is past the limit of the watches until the first one goes. Three changes are the least in
which a folder is replaced and then written.

Every property is checked against a mutant of the model, a plausible bug in the code it is about
(PROJECT.json `mutants`; the mutated operators stand next to the original ones).

### Fairness

`LiveSpec` of `ChatRunner` assumes that the daemon goes on with what it can do: steps of a run that do not wait for the
agent, messages, writes and `end` are each weakly fair, because a promise that is settled runs its
continuation and a write of a local file ends. A process that was asked to end does: `endGroup`
(`apps/daemon/src/agents/process.ts` 71-110) waits a grace time after stdin was closed and then sends
SIGKILL. The code waits for the effect of it at most `KILLED_WAIT_MS`; the model takes the effect for granted. `close` follows `stopStarts`,
as in `closeServing` of `apps/daemon/src/lifecycle/run.ts`. The grace time of `end` is a timer, so
`EndWaited` is fair as part of `EndStep`. Nothing is assumed of the agent, the clients and the idle timer.

`LiveSpec` of `TaskWrites` assumes that each call goes on: a settled promise runs its continuation, and calls of the file
system return. Nothing makes a caller ask, and nothing is assumed of the watch.

`LiveSpec` of `LiveChat` assumes the same of the calls on the handle, of the hook of a rename, of the release of a hold,
which is a scheduled callback, and of the loop of the page, which reads again and again; a read of a chat that is not
loaded loads it. Nobody has to call. The timer of a hold (`apps/daemon/src/events/hold.ts` 34-47) is assumed to run out
only for a page whose project has another tag by then: after a rename that threw nobody notifies that hold.

`FairSpec` of `Feed` assumes that what is due is published, that rescans tick (an interval) and find what they look
for, that holds are released and time out (both are timers), and that reads of the page arrive, are answered and land.
Nothing is assumed of changes, losses, stops and starts; `CatchesUp` therefore ends at a stop.

### Findings

* `chat_cancel_drops`: a message that waits behind another to join a start is not dropped by a cancel if
  that start then fails: it starts over in a new run (R 1054) and its text is sent. The comment of `cancel`
  (R 126-128) says that each text the agent has not got is dropped. `CancelHolds` states what does hold.
* `chat_text_lost`: `reopen` copies the texts of the last run (R 1000) while a message of that run is still
  being written; `hold` then adds its text to the old run, which nobody reads again. The message was
  accepted and is in the log, but no prompt carries it. `NoTextForgotten` states what does hold.
* Without a run of its own: a second way to lose a text. `runTurn` empties `unsent` (R 611) before it sends. If the agent
  exited during the awaits before a prompt (the config options of a start, for one) and its exit is not handled yet, the
  prompt throws `AgentClosed` at once, the run fails, and the text is in no `unsent` any more. In a chat whose agent has
  answered before, the next start takes the texts of the last run and not those of the log (R 1000), so no prompt ever
  carries it, against the same comment of `message` (R 107-108). `NoTextForgotten` and `NoTextLost` leave these texts out
  as `missed`; without that part TLC finds `NoTextForgotten` violated in `chat_work` in six states.
* `task_parent_cycle`: an update that sets a parent takes the turns of its task and of that parent, but
  `validateParent` walks all of the ancestors. With 2 below 3 and 4 below 1, an update of 1 to the parent 2 and
  one of 3 to the parent 4 share no key, each walk finds an open chain, and both saves close a ring of four. The
  comment of `validateParent` (`packages/engine/src/store/validate.ts` 150-153) says that such a parent is refused.
  `NoShortCycle` states what the turns do give: no ring of two or three.
* `daemon_race`: `takeAway` (`apps/daemon/src/lifecycle/record.ts` 177) renames whatever stands under the name. One start
  judges the record of a dead daemon; a second clears it and serves; the first then takes the record of the second, and
  before it puts it back a third claims the free name. The record of the second cannot return, and two daemons serve
  the tree. run.ts 173-176 says that the rule is one daemon per tree. `OneServes` states what does hold.
* Without a run of its own: the comment of `blockerKeys` (`apps/daemon/src/tasks/serialize.ts` 88-90) says that a
  delete of a blocker cannot run between the check and the write. It can where the index does not list the blocker
  although its file stands; `loose` marks these references.
* Without a run of its own: a rename that throws behind the move of the chats makes the daemon drop a handle whose chat
  stands. The comment of `GONE` (`apps/daemon/src/chats/registry.ts` 183) says that a step which finds nothing inside its turns
  means that the chat is gone, and that of `keep` (line 502) that a handle whose place is taken stands for a chat that is gone.
  Neither holds of a handle that a throw left on the old tag. `KeptWhileThere` leaves it out (`astray`); without that
  part the run violates it.
* Without a run of its own: a folder replaced under its name is not read again after its new watch (see TreeWatch).

## The proofs

TLAPS checks these for every value of the constants that satisfies `RunnerAssumption`, `QueueAssumption`,
`TasksAssumption`, `LiveAssumption`, `RecordAssumption`, `FeedAssumption` or `TreeAssumption`: any number of texts,
requests, callers, keys, tasks, entries, processes, queries, projects and faults, and any window of the feed.

* `ChatRunnerKeeps!TypeCorrect`: `Spec => []TypeOK`. `TypeOK` alone is not inductive: the answer of a
  pick counts it as settled, which stays within `MaxPicks` only because a pick in progress was issued
  (`PickBounded`), and `EndWaited` goes on with the run of `end`, which must be one (`EndHasRun`). `TypesHold`
  is the invariant with both.
* `ChatRunnerKeeps!OneProcessHolds`: `Spec => []OneProcess`. The property speaks of processes, but what
  protects it is the order of a start: it registers its run in the step in which it finds none, keeps the
  promise of the last process that it read then, and passes the wait for it only after that process and
  its group have ended. `StartInv` says this of the runs that have not spawned yet: such a run has no process
  (`Unspawned`), is the current run and keeps the promise of the last spawn (`StartIsCurrent`), and past
  the wait that process has ended (`StartWaited`); and only the process of the last spawn is alive
  (`LiveIsLast`). Most steps only move a run on: `Follows` says what they may do to its record, and `StepHolds`
  that the invariant survives any such step. What remains are the registration, the end of the wait
  (`Reopen`) and the spawn.
* `ChatRunnerKeeps!NoStrayAgentHolds`: `Spec => []NoStrayAgent`. The property speaks of agents that are no longer
  current, but a run goes quiet before it is replaced, so `LooseEnds` covers both. Each step that lets an agent go ends it,
  or calls the write of its failure (`LooseStep`), and that write stays in the queue until it ends the process
  (`KillsStep`): the queue only grows at its end (`Grows`) and loses its first write (`TailKeeps`).
* `ChatRunnerKeeps!StopHoldsAlways`: `Spec => StopHolds`. No agent comes to life because the one step that spawns checks the
  stop (`AliveStep`). A coroutine comes to its prompt from four places, and the check of the stop stands at all but the one
  that the property names (`FirstOnly`).
* `ChatRunnerKeeps!PickHasOwnerHolds`: `Spec => []PickHasOwner`. `PlaceInv` says where the coroutines are. A run with no
  turn is idle or over (`TurnsFit`), so a message that begins a turn takes no coroutine from its await. A write that
  a coroutine waits for finds it at that await (`StepFits`), and no run waits for two (`StepsDiffer`), so the end
  of such a write moves nobody else. A pick finds its run at the step that answers it (`PickFits`). Most steps move no run
  from such a place (`Moves`, `MoveHolds`); what remains are the registration, the options, the end of a
  connection, and the calls and ends of those writes.

* `ChatRunnerMirrors!LogHolds`: `Spec => []LogInv`, and from it `NoOrphanTurn`, `RunMirrorsLog`, `EventsFit`,
  `ClosedIsAtRest` and `EndMeansEnded`. All of them speak of `AllWritten`, the fold of the writes that wait. It is a
  recursive function, so what an append and the end of a write do to it (`WrittenAppend`, `WrittenTail`) is shown by
  induction over the queue. A step calls a sequence of writes, and `Says(s, a, b)` is what that sequence is worth: it fits
  after the state a and leads to b, whatever queue it joins. Then each operator of the runner says one thing
  (`EndTurnSays`, `CancelOpenSays`, `FailSays`), and so does each step (`Calls`). The properties are not inductive, and
  `MirrorInv` adds what they need:
  - every run but the current one writes nothing more, and the current one is not quiet (`Mutes`);
  - the record of the current run has a sound form, and the log mirrors it, also in a start, when the log may show the
    turn of the last run or that of a message (`Shape`, `Mirrors`, `StartShows`);
  - a message that joined a start is known to it once, is written after those before it and only while the start goes on,
    and is refused only once the daemon stops (`HeldFits`);
  - the write of a message finds its call and no other write has it (`CallsFit`); and in a start no write begins a turn
    that is not one of its own messages (`UsersFit`). Without this the interrupt of a last turn could leave the turn of
    a message that was written behind it.

  All of it ends with the first failed write (`faulted`), as the properties do: the run halts there, and only a load finds
  out what the log says. `EndInv` says that a closed chat is at rest and that a chat whose end goes on gets no other run;
  it holds over failed writes too. Most steps are of two kinds, those that take no part in the log (`Eases`) and those of
  the current run that work on its requests or background (`Works`); starts, turns, joins, the ends of runs and the ends
  of writes have lemmas of their own. What the invariant showed on the way is that a write of a start must be the one of
  the coroutine that goes on after it, which `PlaceInv` gives.

* `ChatRunnerTexts!NoTextTwiceHolds`: `Spec => []NoTextTwice`. A text can wait in four places: in the write of its message,
  in the list of the log (`answers.unanswered`), in the `unsent` of a run and in its `steering`. `TextInv` says what keeps
  the agent from getting it out of two of them:
  - the runs stand in a line (`LineInv`). Each knows the one before it, those that still wait for the last process stand
    at the end and wait for the same one, and those before the first that does not are over. So at most one run, the
    `Holder`, can talk to the agent; the start after it takes its texts over in `Reopen` and becomes the holder;
  - what the holder has in `unsent` and is not taken in already, and every steer that is not, has not reached the agent
    (`HolderUngot`, `SteersUngot`), and while the holder opens a new session nothing has (`AnewUngot`). This is
    what allows it to take every text of the log again;
  - the text of a message that is not written yet is nowhere else (`FreshInv`), each message has one write, and no list
    names a text twice (`OnceInv`), or one prompt would carry it twice;
  - before the session of a chat is stored its agent said nothing (`StoredInv`), and while every run waits nothing was said
    (`NoneGot`);
  - the record of a run has a sound form (`FormInv`): steers only with a prompt under way and a connection, `created` only
    behind the request for the session.

  Most steps move no text. `Calm` says what such a step does to the line, to the records (`Glides`), the messages and the
  queue, one lemma says that it keeps the invariant, and one for each action says that it is calm. `Shifts` are the others,
  with a lemma each. Two things came out of the attempt: the order of the starts in `Reopen` is needed (a later start that
  goes on first would copy texts that the earlier one copies again), and so is that a session lost before an answer
  forgets what its agent got.

* `ChatRunnerTexts!CancelIsKept`: `Spec => CancelHolds`, an action property: the agent gets a text that a cancel took back
  only in the answer to a steer that was on its way, or when its message starts over in another run. Its invariant is
  `CancelInv` (`CancelsHold`), on top of `TextInv`:
  - `CancelKept`, what a cancel leaves: each text it took back is dropped when its message is written, since its run counts
    more cancels than the message saw (`Passed`), or its message starts over, or it is written and no holder has it in
    `unsent` (`Unheld`);
  - `AnewInv`: a start in a new session takes every text of the log, the cancelled ones too if there were any. So until its first
    prompt no turn was answered, and nothing is cancelled unless the run ends before that prompt (`EndsOver`);
  - `SilentInv`, what `AnewInv` needs: from the interrupt of a start to its first answer no write of an answer and no `end`
    of an earlier run is in the queue, or a late one would show that the agent had answered;
  - `KnownInv`: a start knows the number of cancels its message saw, and a waiting run counts none.

  The steps are parted in two. Those that flow (`Flow`) give no run a text it did not have but that of a message it
  takes, move the calls forward, and queue only mild writes; `FlowOn` says that such a step keeps the invariant, and a lemma
  for each action says that it flows. The other is `Reopen`, in which the first waiting run takes the texts of the holder.

* `ChatRunnerTexts!NoTextForgottenHolds`: `Spec => []NoTextForgotten`: an accepted message whose text the agent did not get
  was cancelled, came late (`NoTextLost`, which has no such exception, is violated), went along with a prompt on a closed
  connection (`missed`), or waits where the next prompt or the next start finds it. Its invariant is `KeepInv` (`KeptHolds`), on top of `TextInv`, `CancelInv` and `LogInv`. Like
  `LogInv` it speaks of the states before the first failed write:
  - `BeforeInv`: of all runs only the last one can still wait for a process or for its interrupt, and it is the current
    one until an `end` or a stop overtakes it. So the start that takes the texts of the holder (`ReopenLeads`) is the last
    run there is, and no later run reads a list that is no longer filled;
  - `HoldsLast`: a held message in the queue is of the last run, or of the one before while the last one waits. A
    message whose run the start has passed by then is the one that comes late;
  - `InHand`: each written or called text is with the agent, missed, cancelled, late or in the `unsent` of the holder. The one exception is
    the first text of a chat that has no session yet, which is only in the log (`OnlyLogged`);
  - `LogsIt` and `CreateHas`: until the agent answers, the log lists every written text, and a run that opens a new session
    has them all. This is what allows a lost session to forget what its agent got: with `SilentInv` no message is called
    meanwhile, so `SilentOwes` finds every text in the log;
  - `InjectedGot`: a steer that the agent took in counts as got, also when the answer of the steer never comes.

  Most steps are `Regular`: each text of a run stays with it, reaches the agent, is missed or is cancelled, and none is forgotten by the
  log. `RegularKeeps` says that such a step keeps the invariant. `Reopen` and the two steps that begin a new session are not
  regular and have their own lemmas (`ReopenKeeps`, `AnewKeeps`).

* `TaskWritesTurns!TurnsHold`, of the queue: `OneWriter`, `InOrder`, `KeysInUse` and `PromiseHolds` follow from one invariant, `TurnInv`. None is
  inductive alone. What is needed is that the turns of a key end in the order of their numbers (`TurnsOf`), that
  each open turn has exactly one owner (`OwnersOf`), and that a call awaits the turn right before its own or none was
  left (`WaitOf`): then the end of the one turn that is awaited means the end of all before it (`AheadEndedMeans`).
  The refinement needs in addition that a call that enters the last of its runs is the first in each line
  (`FirstInLines`).
* `TaskWritesTurns!WritesUseTheQueue`: `Spec => QueueSpec`, so that the theorems on the queue hold of the task writes; with
  it `TaskTypesHold`, the type invariant, and `WritesKeepPromise`, the promise of `WriteTurns` for the task writes.
* `TaskWritesTurns!SavesFitHolds`: `Spec => SavesFit`. The invariant `WriteInv` says that a call that waits has asked
  for every key that it needs and that inside its write it holds them (`Asked`), that what a write read is what the
  file holds (`Fresh`), and that no file has a number to come (`Numbered`). A step of another call changes a file only
  under its key, and `OneWriter` says that it cannot hold it (`WritersDiffer`). For a delete the point is `Missed`: it
  rewrites only references whose turns it took.
* `TaskWritesTurns!IndexAgreesHolds`: `Spec => []IndexAgrees`. `ReadBackInv` says that wherever the index is not the disk
  some call is at a step that will read the file back, a failed removal included; with `WriteInv` that call is inside
  the turn of the task, or has just created it (`ReadBackInTurn`).

* `TaskWritesTurns!NoDanglingHolds`: `Spec => []NoDangling`. A delete removes its task and then rewrites the tasks that
  name it, one after another, so the property fails in the middle of it and `RefInv` says who still owes what. A
  reference to a task that is gone is in the hands of the delete that took it away (`AllDealt`), for which that delete,
  at the moment it removes, must know every task that names it (`FoundBy`) and may let go of one only when the file no
  longer names its task (`ClearedBy`). It looks in the index, so each reference on disk must be in the index or about
  to be applied (`InIndex`). What keeps others from adding one meanwhile is that a write that passed its check holds
  the turn of the stated task, whose file is there until it has saved (`FirmStands`).
* `TaskWritesTurns!NoShortCycleHolds`: `Spec => []NoShortCycle`. `ShapeInv` says what a walk up the parents knows
  (`Walked`): behind the stated parent it found neither the task nor, one further up, its child. Those two facts
  survive the writes of others (`OthersWalked`), because a change of the parent of the stated task needs the turn that
  this call holds, and a new edge from further up to the task needs the turn of the task. A third step up is in nobody's turn, which is why
  four can form a ring (`task_parent_cycle`). A create closes no ring because nothing names a number that was not
  given (`NamesPast`).

* `LiveChatKeeps`: every property of the run `live_chat` but the liveness, from one invariant, `ChatInv`. Its core is
  `HandleKept`: what the handle read or wrote is a first part of the lines that count on disk, all of them unless it is
  marked stale, and its fold is the fold of that part. For the log itself, every whole line counts (`LinesKept`), the
  lines stand in the order of the calls (`LinesInOrder`), and the call that runs can only add what comes after them
  (`LinesOfCalls`), also when an append failed with its line there or not. The page has a first part of the same lines
  (`ReaderKept`), which an append and a reopening only extend; a power loss can cut it, and takes the window with the
  machine. The tags are what `KeptWhileItIsThere` rests on: a handle stands under the tag of its chat, or a rename that has both
  tags is about to relocate it, or one threw and left it `astray`. `NewIsNotSeen`, `LoadedIsAtRest` and `KeptWhileItIsThere` are
  properties of steps.

* `DaemonRecordServes!RecordStandsHolds` and `OneServesHolds`: one invariant, `ServesInv`, because each needs the other. A
  daemon that serves can lose its record only to a process that takes it away. That process judged some text: if it judged
  the record of the daemon, it found nobody on its port although the daemon listens there (`JudgedGone`, which needs that
  one process listens on a port, `PortsHeld`, and that a record carries the port of its process, `OwnTexts`); if it judged
  another text, it puts the record back, and either the name is free or the record is `lost`. And a second daemon can
  serve only after it found the name absent, which with `RecordStands` is a record in a hand, again `lost`.
  `RecordTypesHold` is the type invariant, with the fact that a process has something in its hand exactly between its
  take and its sort. `RefusedForOneHolds` needs `RefusedForSome`, which speaks of every moment and not only of the end: once
  a start was refused, there is a process that has a port or had one, or that failed (`Came`), because only a process
  that listens makes a start stand down.

* `FeedTells!NoSilentStaleHolds`: `Spec => []NoSilentStale`. The property speaks of a query at rest, but a read that
  lands late brings an old answer with it, and a reply can be lost after the feed has gone on. So `TellsInv` speaks of
  what a query owes (`Owes`: an old answer on the screen or in its read, with no mark set or waiting), and of both
  cursors: it is told after the cursor of the page, and by the reply under way or after the cursor of that reply
  (`AllTold`). It needs that a cursor has no number to come (`PollFits`), or the reply could name events that it skips,
  and that a held read is of the feed that holds it (`HeldFits`). A publish may drop an event only before the window,
  where the cursor that misses it gets a `reset` (`PublishTold`); another run of the daemon gives one to every cursor
  (`StopTold`). `FeedAssumption` says that `FEED_MAPPINGS` is complete: a kind of change marks each query that it
  makes old. `FeedTypesHold` is the type invariant, with the bound of the window.

* `TreeWatchTells!NothingMissedHolds` and `RescanToldHolds`. Both speak of a moment at which a read is over. `TreeInv`
  says for every moment what a folder can count on: a watch that hears it has it as the state does, or a read that
  covers it waits or is asked for by a timer, or the read in flight will leave it right (`Told`). The last is
  `MatchesSoon`: what the read got so far agrees with the disk but for what it has still to ask. An event can then come
  at any point of a read: its timer makes the folder one that awaits a read. The watches are what makes a read count: one was taken
  for the folder that the state has, and hears it or failed (`WatchesFit`), and a folder that is new to the watches is
  read again (`FreshCovers`). At rest the folders follow from the root down (`NothingMissedIn`): a watched root that
  matches gives the identity of `projects/`, that one gives those of the projects, and the limit leaves out later
  folders only (`WantedBelow`). `RescanInv` says that what has not changed since a rescan was asked for is right in the
  state once the read of the root that it waits for has ended, and that no read after that loses it.

The proofs about the runner have one lemma for each group of actions, and the lemmas on the operators (`Touch`, `Quit`,
`EndTurn`, `RunTurn` and so on) come first.

The prover takes no induction theorem that has an operator as its parameter. Where a proof needs induction over data
(`Folds` of the runner, `Valid` and the folds of `LiveChat`), it takes the least number at which a set of numbers fails
(`AllNumbers`, `Induction`, from `WFMin`), and a recursive function is shown to exist before it is used, since its
definition is a `CHOOSE`.

Every safety invariant and action property of the passing runs has its theorem. Only model-checked are the liveness properties:
liveness under fairness, and `ENABLED`, are out of reach of the prover.

## What is not modelled

Of the runner: the text of prompts and notes, session updates other than the first answer, config options
apart from picks (a chat with saved options walks the same loop of `applyOptions` as one with picks),
titles, the shell environment (a launch works or fails). Of the agent process: the JSON-RPC layer and how
`claude-background.ts` counts jobs; the runner sees only what a check answers. Parsing, formatting and the
validation of requests are data, not control. Of the web app, the loops that follow a chat and the feed are modelled;
its screens, most of its lines, render what the daemon answers. Of the daemon's lifecycle, how the CLI and the macOS app
wait for a start or a stop. What each model leaves out of its own component is said with the model.

Whole components that have behaviour worth a model and none yet:

* Step starts (`chats/start.ts`): the turn of a task over `ChatRunner`'s promise of `end`.
* The reads of the task index (`index-cache/cache.ts`, `queue.ts`): applied paths against reconciling reads.
  `TaskWrites` takes the read of one file as a step, which the path queue justifies for one file and not for a sweep.
* The project host (`projects/host.ts`): a repair against a rename or a close.
* The rename of a project and the counters of the store (`rename.ts`, `ids.ts`), with a crash between any two steps.
  `LiveChat` has only the move of the chats and the two ends of a rename.

PROJECT.json keeps the hazards of these, with no property.

## The plan

1. `ChatFold`, `ChatRunner`, `ChatRunnerKeeps`, `ChatRunnerMirrors`, `ChatRunnerTexts`: done.
2. `WriteTurns`, `WriteQueue`, `TaskWrites`, `TaskWritesTurns`: done.
3. `LiveChat`, `DaemonRecord`, `Feed` and `TreeWatch` with their proofs: done.
4. `StepStarts`, `TaskIndex`, `RenameProject` and the counters, `ProjectHost`, in this order.
5. Every safety property of `ChatRunner` that a run checks: proved.
