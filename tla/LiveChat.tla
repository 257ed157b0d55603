------------------------------ MODULE LiveChat ------------------------------
(***************************************************************************)
(* One chat from its log on disk to the window of a user: the log file     *)
(* (packages/engine/src/store/chat-log.ts), the handle that the daemon     *)
(* keeps of it (apps/daemon/src/chats/registry.ts), the long-poll read of  *)
(* the log (apps/daemon/src/chats/routes.ts) and the loop of the web app   *)
(* that follows it (apps/web/src/api/chat-log.ts).  An append can fail     *)
(* with any part of its line on disk, the daemon and the machine can stop  *)
(* at any point, and the project of the chat can be renamed or removed.    *)
(***************************************************************************)
EXTENDS ChatFold

CONSTANTS
  Events,    \* the events that callers append
  Tags,      \* the tags that the project of the chat can have
  Home,      \* the first of them
  MaxJobs,   \* bound: calls that wait at a time
  Budgets    \* sets of bounds, one of which holds: calls, marks, failing steps, crashes, power losses,
             \* renames, renames that throw behind the move, removals

Bounded == {"call", "mark", "fault", "crash", "loss", "rename", "throw", "remove"}

(* At most one rename throws: after two the folder could come back to a      *)
(* handle that a later one took the place of.                                *)
ASSUME LiveAssumption ==
  /\ Events \subseteq Event
  /\ Home \in Tags
  /\ MaxJobs \in Nat
  /\ Budgets \subseteq [Bounded -> Nat]
  /\ \A b \in Budgets : b["throw"] <= 1

VARIABLES
  disk,    \* the log file: its lines, whether the last one has its newline, how many are flushed
  place,   \* the tag under which the folder of the chat stands, or "gone"
  seen,    \* `seen` of the record of the chat
  mem,     \* the handle (`Live`) with its open log, or NoHandle; its `astray` is history: a rename that
           \* threw left it on the old tag
  jobs,    \* the calls on the handle in call order (`#writes`); the first one runs
  held,    \* [Tags -> {"none", "chat", "from", "to"}]: what has the turn of each tag, a rename having both
  told,    \* the status that the last `chat` event or the last read of the record gave
  wake,    \* `scheduled` of the hold of the handle
  reader,  \* the loop that follows the log
  acked,   \* history: the entries whose appends were fulfilled
  calls,   \* how many calls were made, the recoveries of loads included
  left     \* what is left of the one of Budgets that holds

vars == <<disk, place, seen, mem, jobs, held, told, wake, reader, acked, calls, left>>

-----------------------------------------------------------------------------
(* The log on disk. *)

Entry == [seq: Nat, ev: Event, call: Nat]

(* A line that holds no entry: what an append left that did not finish. *)
Torn == [seq |-> 0, ev |-> Plain("other"), call |-> 0]

Disk == [lines: Seq(Entry), closed: BOOLEAN, synced: Nat]

LastSeq(kept) == IF kept = <<>> THEN 0 ELSE kept[Len(kept)].seq

(* `scanLog`: a line counts when its `seq` is above the one of every line    *)
(* before it.                                                                *)
SeqAt(lines, i) == IF i = 0 THEN 0 ELSE lines[i].seq

Counts(lines, i) == \A j \in 0..(i - 1) : SeqAt(lines, j) < SeqAt(lines, i)

Valid(lines) ==
  LET kept[n \in 0..Len(lines)] ==
        IF n = 0 THEN <<>>
        ELSE IF Counts(lines, n) THEN Append(kept[n - 1], lines[n]) ELSE kept[n - 1]
  IN  kept[Len(lines)]

(* Mutant: trusts that the last line has its end. *)
WrittenPlain(d, e) ==
  [lines |-> IF d.closed THEN Append(d.lines, e) ELSE [d.lines EXCEPT ![Len(d.lines)] = Torn],
   closed |-> TRUE, synced |-> Len(d.lines)]

(* `appendLine` with a newline before a line that has no end. *)
Written(d, e) == [lines |-> Append(d.lines, e), closed |-> TRUE, synced |-> Len(d.lines) + 1]

(* What an append leaves that fails or is cut off: nothing, the newline, a   *)
(* part of the line, the line without its newline, the line not flushed.     *)
LeftBy(d, e) ==
  {d, [d EXCEPT !.closed = TRUE]}
    \union {[d EXCEPT !.lines = Append(d.lines, x), !.closed = FALSE] : x \in {Torn, e}}
    \union {[d EXCEPT !.lines = Append(d.lines, e), !.closed = TRUE]}

(* What stands after the machine lost its power: any cut behind the flush. *)
CutOf(d) ==
  {d} \union {[lines |-> SubSeq(d.lines, 1, n), closed |-> TRUE, synced |-> n] : n \in d.synced..Len(d.lines)}
      \union {[lines |-> Append(SubSeq(d.lines, 1, n), Torn), closed |-> FALSE, synced |-> n + 1] :
                n \in d.synced..(Len(d.lines) - 1)}

-----------------------------------------------------------------------------
(* The handle. *)

NeedsYou == "needs-you"

(* Mutant: knows only the ends of a chat. *)
StoppedOnly(f) == f.stopped

Status(f) ==
  IF f.stopped # "none" THEN f.stopped
  ELSE IF AgentActive(f) /\ f.open = {} THEN "working" ELSE NeedsYou

(* Mutant: moves only when the work ends. *)
EndsWork(before, after, e) ==
  e.kind = "ask" \/ (Status(before) = "working" /\ Status(after) # "working")

MovesStateSeq(before, after, e) == e.kind = "ask" \/ Status(before) # Status(after)

FoldEntry(h, e) ==
  LET next == FoldChat(h.fold, e.ev)
  IN  [h EXCEPT !.fold = next, !.stateSeq = IF MovesStateSeq(h.fold, next, e.ev) THEN e.seq ELSE @]

(* The fold and the `stateSeq` of a log (the callback of `openFolded`). *)
Folded(entries) ==
  LET after[n \in 0..Len(entries)] ==
        IF n = 0 THEN [fold |-> ChatStart, stateSeq |-> 0] ELSE FoldEntry(after[n - 1], entries[n])
  IN  after[Len(entries)]

NoHandle == [st |-> "none"]

(* A handle on the log as it stands (`openFolded`). *)
Opened(st, tag) ==
  LET kept == Valid(disk.lines)
  IN  [st |-> st, tag |-> tag, astray |-> FALSE, kept |-> kept, stale |-> FALSE,
       fold |-> Folded(kept).fold, stateSeq |-> Folded(kept).stateSeq]

Live == mem.st = "live"
Last == LastSeq(mem.kept)

Kinds == {"append", "interrupt", "seen", "first", "recover"}

Call(kind, ev, to) ==
  [kind |-> kind, ev |-> ev, to |-> to, call |-> calls + 1, pc |-> "queued", todo |-> {}, tag |-> mem.tag]

Job == Head(jobs)
Runs(pc) == jobs # <<>> /\ Job.pc = pc
JobGoes(pc) == jobs' = <<[Job EXCEPT !.pc = pc]>> \o Tail(jobs)

(* A job ends and gives its turn back; the handle of a load or a create is   *)
(* kept from then on.                                                        *)
JobEnds == jobs' = Tail(jobs) /\ held' = [held EXCEPT ![Job.tag] = "none"]
Kept(h) == IF h.st = "opening" THEN [h EXCEPT !.st = "live"] ELSE h

(* `forget`: the handle refuses every call, and its waits end. *)
Forget ==
  /\ mem' = NoHandle
  /\ jobs' = <<>>
  /\ wake' = FALSE
  /\ reader' = IF reader.pc = "holds" THEN [reader EXCEPT !.pc = "again"] ELSE reader

(* `#announce` *)
Announced(h) == IF h.stateSeq # mem.stateSeq THEN Status(h.fold) ELSE told

(* Mutant: releases the held reads only when the state moves. *)
MovesState(h) == h.stateSeq # mem.stateSeq

MovesLast(h) == LastSeq(h.kept) # Last

-----------------------------------------------------------------------------
Start(tag) == [pc |-> "idle", tag |-> tag, cursor |-> 0, view |-> <<>>, reply |-> <<>>, reset |-> FALSE]

(* A chat that was just created, with its first message to be written. *)
Init ==
  /\ disk = [lines |-> <<>>, closed |-> TRUE, synced |-> 0]
  /\ place = Home
  /\ seen = 0
  /\ mem = [st |-> "opening", tag |-> place, astray |-> FALSE, kept |-> <<>>, stale |-> FALSE,
            fold |-> ChatStart, stateSeq |-> 0]
  /\ \E t \in Texts :
       jobs = <<[kind |-> "first", ev |-> UserEvent(t), to |-> 0, call |-> 1, pc |-> "inside", todo |-> {}, tag |-> place]>>
  /\ held = [t \in Tags |-> IF t = place THEN "chat" ELSE "none"]
  /\ told = NeedsYou
  /\ wake = FALSE
  /\ reader = Start(place)
  /\ acked = {}
  /\ calls = 1
  /\ left \in Budgets

-----------------------------------------------------------------------------
(* Calls on the handle. *)

Calls(kind, ev, to, bound) ==
  /\ Live
  /\ Len(jobs) < MaxJobs
  /\ left[bound] > 0
  /\ left' = [left EXCEPT ![bound] = @ - 1]
  /\ jobs' = Append(jobs, Call(kind, ev, to))
  /\ calls' = calls + 1
  /\ UNCHANGED <<disk, place, seen, mem, held, told, wake, reader, acked>>

CallAppend == \E e \in Events : Calls("append", e, 0, "call")
CallInterrupt == Calls("interrupt", Plain("interrupted"), 0, "call")

(* The page marks what it shows as seen. *)
CallSeen == reader.cursor > seen /\ Calls("seen", Plain("other"), reader.cursor, "mark")

(* The first call asks for the turns of the place that the handle stands for. *)
AsksTurn ==
  /\ Runs("queued")
  /\ jobs' = <<[Job EXCEPT !.pc = "waits", !.tag = mem.tag]>> \o Tail(jobs)
  /\ UNCHANGED <<disk, place, seen, mem, held, told, wake, reader, acked, calls, left>>

(* Mutant: works in the turn that it waited for. *)
AnyTurn == TRUE

SameTag == Job.tag = mem.tag

(* It got the turn.  After a rename that was the turn of the old tag, and it *)
(* asks again.                                                               *)
TakesTurn ==
  /\ Runs("waits") /\ held[Job.tag] = "none"
  /\ \/ /\ SameTag
        /\ JobGoes("inside")
        /\ held' = [held EXCEPT ![Job.tag] = "chat"]
     \/ /\ ~SameTag
        /\ JobGoes("queued")
        /\ UNCHANGED held
  /\ UNCHANGED <<disk, place, seen, mem, told, wake, reader, acked, calls, left>>

-----------------------------------------------------------------------------
(* The body of a call, inside its turn. *)

(* The folder stands where the handle looks for it. *)
Here == place = mem.tag

Reopening == Runs("inside") /\ mem.stale

Reopens ==
  /\ Reopening /\ Here
  /\ LET h == Opened(mem.st, mem.tag)
     IN  /\ mem' = h
         /\ told' = Announced(h)
         /\ wake' = (wake \/ MovesLast(h))
  /\ UNCHANGED <<disk, place, seen, jobs, held, reader, acked, calls, left>>

(* Mutant: goes by the status, which an open request makes "needs-you". *)
ShowsWork(f) == Status(f) = "working"

LeavesWork(f) == ChatBusy(f)

(* `interruptInHeldTurns`, up to its first write. *)
Interrupting == Runs("inside") /\ ~mem.stale /\ Job.kind \in {"interrupt", "recover"}

FindsBusy ==
  /\ Interrupting /\ LeavesWork(mem.fold)
  /\ jobs' = <<[Job EXCEPT !.pc = "writes", !.todo = mem.fold.open]>> \o Tail(jobs)
  /\ UNCHANGED <<disk, place, seen, mem, held, told, wake, reader, acked, calls, left>>

FindsAtRest ==
  /\ Interrupting /\ ~LeavesWork(mem.fold)
  /\ JobEnds
  /\ mem' = Kept(mem)
  /\ UNCHANGED <<disk, place, seen, told, wake, reader, acked, calls, left>>

Appending == Runs("writes") \/ (Runs("inside") /\ ~mem.stale /\ Job.kind \in {"append", "first"})

NextEvents ==
  CASE Job.pc # "writes" -> {Job.ev}
    [] Job.todo # {} -> {ResolvedEvent({q}) : q \in Job.todo}
    [] OTHER -> {Plain("interrupted")}

Line(e) == [seq |-> Last + 1, ev |-> e, call |-> Job.call]

(* Mutant: takes `seen` as it is. *)
NeverAhead == FALSE

SeenAhead == seen > Last

ClampsSeen ==
  /\ Appending /\ SeenAhead /\ Here
  /\ seen' = Last
  /\ UNCHANGED <<disk, place, mem, jobs, held, told, wake, reader, acked, calls, left>>

(* `appendInHeldTurns`: the line is on disk before the fold changes. *)
Appends ==
  /\ Appending /\ ~SeenAhead /\ Here
  /\ \E e \in NextEvents :
       LET h == FoldEntry([mem EXCEPT !.kept = Append(@, Line(e))], Line(e))
       IN  /\ disk' = Written(disk, Line(e))
           /\ told' = Announced(h)
           /\ wake' = (wake \/ MovesLast(h))
           /\ acked' = acked \union {Line(e)}
           /\ \/ /\ e.kind = "resolved" /\ Job.pc = "writes"
                 /\ mem' = h
                 /\ jobs' = <<[Job EXCEPT !.todo = @ \ e.reqs]>> \o Tail(jobs)
                 /\ UNCHANGED held
              \/ /\ e.kind # "resolved" \/ Job.pc # "writes"
                 /\ mem' = Kept(h)
                 /\ JobEnds
  /\ UNCHANGED <<place, seen, reader, calls, left>>

Faults == left.fault > 0 /\ left' = [left EXCEPT !.fault = @ - 1]

(* Mutant: a failed append is taken as one that wrote nothing. *)
Unmarked(h) == h

MarkStale(h) == [h EXCEPT !.stale = TRUE]

AppendFails ==
  /\ Faults
  /\ Appending /\ ~SeenAhead /\ Here
  /\ \E e \in NextEvents : disk' \in LeftBy(disk, Line(e))
  /\ \/ /\ Job.kind = "first"
        /\ mem' = MarkStale(mem)
        /\ JobGoes("checks")
        /\ UNCHANGED held
     \/ /\ Job.kind # "first"
        /\ mem' = Kept(MarkStale(mem))
        /\ JobEnds
  /\ UNCHANGED <<place, seen, told, wake, reader, acked, calls>>

(* `reopenAfterFailedAppend`: a create holds when its first message is there. *)
ChecksFirst ==
  /\ Runs("checks") /\ Here
  /\ LET h == Opened("live", mem.tag)
     IN  /\ told' = Announced(h)
         /\ mem' = IF h.kept # <<>> THEN h ELSE NoHandle
  /\ JobEnds
  /\ UNCHANGED <<disk, place, seen, wake, reader, acked, calls, left>>

Marking == Runs("inside") /\ ~mem.stale /\ Job.kind = "seen"

SeenOf(to) == IF to < Last THEN to ELSE Last

MarksSeen ==
  /\ Marking /\ SeenOf(Job.to) > seen /\ Here
  /\ seen' = SeenOf(Job.to)
  /\ told' = Status(mem.fold)
  /\ JobEnds
  /\ UNCHANGED <<disk, place, mem, wake, reader, acked, calls, left>>

MarksNothing ==
  /\ Marking /\ SeenOf(Job.to) <= seen
  /\ JobEnds
  /\ UNCHANGED <<disk, place, seen, mem, told, wake, reader, acked, calls, left>>

(* A read or a write of a file fails that changes nothing; a create that     *)
(* cannot read its log again fails.                                          *)
StepFails ==
  /\ Faults
  /\ \/ Reopening
     \/ Appending /\ SeenAhead
     \/ Marking /\ SeenOf(Job.to) > seen
     \/ Runs("checks")
  /\ JobEnds
  /\ mem' = IF Runs("checks") THEN NoHandle ELSE Kept(mem)
  /\ UNCHANGED <<disk, place, seen, told, wake, reader, acked, calls>>

(* The folder is not there: `forgetIfGone`, and the end of a create. *)
FindsGone ==
  /\ Reopening \/ Appending \/ Runs("checks") \/ (Marking /\ SeenOf(Job.to) > seen)
  /\ ~Here /\ Job.kind # "recover"
  /\ Forget
  /\ held' = [held EXCEPT ![Job.tag] = "none"]
  /\ UNCHANGED <<disk, place, seen, told, acked, calls, left>>

(* The recovery of a loaded chat only reports what it meets. *)
RecoversGone ==
  /\ Appending /\ ~Here /\ Job.kind = "recover"
  /\ JobEnds
  /\ mem' = Kept(mem)
  /\ UNCHANGED <<disk, place, seen, told, wake, reader, acked, calls, left>>

-----------------------------------------------------------------------------
(* The chat as a whole. *)

(* A handle that a rename left on the old tag, with none of its calls        *)
(* running.  All it can do is to find nothing there.                         *)
LeftBehind == Live /\ mem.tag # place /\ held[mem.tag] = "none"

(* A request for a chat that the daemon holds no handle of under this tag    *)
(* (`load`).  The caller is given the record.  A handle that was left behind *)
(* stays beside the new one, and is not followed from then on.               *)
Loads ==
  /\ mem.st = "none" \/ LeftBehind
  /\ place # "gone" /\ held[place] = "none"
  /\ LET h == Opened("opening", place)
     IN  /\ mem' = h
         /\ told' = Status(h.fold)
         /\ jobs' = <<[kind |-> "recover", ev |-> Plain("interrupted"), to |-> 0, call |-> calls + 1,
                       pc |-> "inside", todo |-> {}, tag |-> place]>>
  /\ held' = [held EXCEPT ![place] = "chat"]
  /\ calls' = calls + 1
  /\ UNCHANGED <<disk, place, seen, wake, reader, acked, left>>

(* A rename of the project (`renameProject`): the folder moves with `chats/`,*)
(* or that move fails (`settle`) and the chats stay in a hidden directory.   *)
RenameMoves ==
  /\ left.rename > 0
  /\ place # "gone"
  /\ \E to \in Tags \ {place} :
       /\ held[place] = "none" /\ held[to] = "none"
       /\ held' = [held EXCEPT ![place] = "from", ![to] = "to"]
       /\ \/ /\ place' = to
             /\ left' = [left EXCEPT !.rename = @ - 1]
          \/ /\ left.fault > 0
             /\ place' = "gone"
             /\ left' = [left EXCEPT !.rename = @ - 1, !.fault = @ - 1]
  /\ UNCHANGED <<disk, seen, mem, jobs, told, wake, reader, acked, calls>>

Renaming(from, to) == held[from] = "from" /\ held[to] = "to"
RenameOver(from, to) == held' = [held EXCEPT ![from] = "none", ![to] = "none"]

(* It returns, and the route runs the hook of the registry (`projectRenamed`). *)
RenameEnds ==
  /\ \E from, to \in Tags :
       /\ Renaming(from, to) /\ RenameOver(from, to)
       /\ \/ /\ Live /\ mem.tag = from
             /\ mem' = [mem EXCEPT !.tag = to, !.astray = FALSE]
             /\ wake' = TRUE
          \/ /\ ~(Live /\ mem.tag = from)
             /\ UNCHANGED <<mem, wake>>
  /\ UNCHANGED <<disk, place, seen, jobs, told, reader, acked, calls, left>>

(* It throws behind the move (`reconcile`, `removeTree`, the read of the new *)
(* declaration), and the route passes over the hook.                         *)
RenameThrows ==
  /\ left.throw > 0
  /\ left' = [left EXCEPT !.throw = @ - 1]
  /\ \E from, to \in Tags :
       /\ Renaming(from, to) /\ RenameOver(from, to)
       /\ mem' = IF Live /\ mem.tag = from THEN [mem EXCEPT !.astray = TRUE] ELSE mem
  /\ UNCHANGED <<disk, place, seen, jobs, told, wake, reader, acked, calls>>

(* A delete of the project or of the task, with its hook, which forgets the  *)
(* handles of this tag.                                                      *)
Removes ==
  /\ left.remove > 0
  /\ left' = [left EXCEPT !.remove = @ - 1]
  /\ place # "gone" /\ held[place] = "none"
  /\ place' = "gone"
  /\ \/ mem.st # "none" /\ mem.tag = place /\ Forget
     \/ ~(mem.st # "none" /\ mem.tag = place) /\ UNCHANGED <<mem, jobs, wake, reader>>
  /\ UNCHANGED <<disk, seen, held, told, acked, calls>>

(* The folder goes without a word to the daemon. *)
Vanishes ==
  /\ left.remove > 0
  /\ left' = [left EXCEPT !.remove = @ - 1]
  /\ place # "gone" /\ \A t \in Tags : held[t] \notin {"from", "to"}
  /\ place' = "gone"
  /\ UNCHANGED <<disk, seen, mem, jobs, held, told, wake, reader, acked, calls>>

(* The daemon dies.  A line that it writes is there in part, or all of it. *)
Crash ==
  /\ left.crash > 0
  /\ left' = [left EXCEPT !.crash = @ - 1]
  /\ mem.st # "none"
  /\ \/ disk' = disk
     \/ /\ Appending /\ Here
        /\ \E e \in NextEvents : disk' \in LeftBy(disk, Line(e))
  /\ mem' = NoHandle
  /\ jobs' = <<>>
  /\ held' = [t \in Tags |-> "none"]
  /\ wake' = FALSE
  /\ told' = NeedsYou
  /\ reader' = [reader EXCEPT !.pc = "idle", !.reply = <<>>, !.reset = FALSE]
  /\ UNCHANGED <<place, seen, acked, calls>>

(* The machine stops after the daemon, and the window with it. *)
PowerLoss ==
  /\ left.loss > 0
  /\ left' = [left EXCEPT !.loss = @ - 1]
  /\ mem.st = "none" /\ place # "gone"
  /\ disk' \in CutOf(disk)
  /\ reader' = Start(place)
  /\ UNCHANGED <<place, seen, mem, jobs, held, told, wake, acked, calls>>

-----------------------------------------------------------------------------
(* The loop of the page and the read that it asks for (`readAfter`). *)

(* The registry holds the chat under the tag of the page, and a project      *)
(* stands there (`host.open`).                                               *)
Loaded == Live /\ mem.tag = reader.tag /\ place \in {"gone", reader.tag}

(* `firstAfter`: where the entries after a number start. *)
FirstAfter(n) ==
  CHOOSE i \in 1..(Len(mem.kept) + 1) :
    /\ \A j \in 1..(i - 1) : mem.kept[j].seq <= n
    /\ i <= Len(mem.kept) => mem.kept[i].seq > n

(* Mutant: an off-by-one of the search for the first entry. *)
From(n) == SubSeq(mem.kept, FirstAfter(n - 1), Len(mem.kept))

After(n) == SubSeq(mem.kept, FirstAfter(n), Len(mem.kept))

(* The reply on a cursor; a read of a file that is not there fails. *)
Replies(idle) ==
  \/ /\ reader.cursor > Last
     /\ reader' = [reader EXCEPT !.pc = "got", !.reset = TRUE]
  \/ /\ reader.cursor = Last
     /\ reader' = [reader EXCEPT !.pc = idle]
  \/ /\ reader.cursor < Last /\ Here
     /\ \E n \in 1..Len(After(reader.cursor)) :
          reader' = [reader EXCEPT !.pc = "got", !.reply = SubSeq(After(reader.cursor), 1, n)]
  \/ /\ reader.cursor < Last /\ ~Here
     /\ reader' = [reader EXCEPT !.pc = "idle"]

readerOnly == <<disk, place, seen, mem, jobs, held, told, acked, calls, left>>

(* The check of the `seq` and the start of the wait are one step. *)
Asks ==
  /\ reader.pc = "idle" /\ Loaded
  /\ Replies("holds")
  /\ UNCHANGED readerOnly /\ UNCHANGED wake

(* The wait is over; the chat is looked up again. *)
AsksAgain ==
  /\ reader.pc = "again"
  /\ \/ Loaded /\ Replies("idle")
     \/ ~Loaded /\ reader' = [reader EXCEPT !.pc = "idle"]
  /\ UNCHANGED readerOnly /\ UNCHANGED wake

(* `releaseAll` of the hold, in a later turn of the event loop. *)
Released ==
  /\ wake
  /\ wake' = FALSE
  /\ reader' = IF reader.pc = "holds" THEN [reader EXCEPT !.pc = "again"] ELSE reader
  /\ UNCHANGED readerOnly

(* The timer of the hold. *)
HoldEnds ==
  /\ reader.pc = "holds"
  /\ reader' = [reader EXCEPT !.pc = "again"]
  /\ UNCHANGED readerOnly /\ UNCHANGED wake

Receives ==
  /\ reader.pc = "got"
  /\ \/ /\ reader.reset
        /\ reader' = Start(reader.tag)
     \/ /\ ~reader.reset
        /\ reader' = [reader EXCEPT !.pc = "idle", !.reply = <<>>, !.cursor = LastSeq(reader.reply),
                                    !.view = @ \o reader.reply]
  /\ UNCHANGED readerOnly /\ UNCHANGED wake

(* The page of the chat under the tag it has now. *)
Follows ==
  /\ reader.pc = "idle" /\ place \notin {"gone", reader.tag}
  /\ reader' = Start(place)
  /\ UNCHANGED readerOnly /\ UNCHANGED wake

-----------------------------------------------------------------------------
JobStep ==
  \/ AsksTurn \/ TakesTurn \/ Reopens \/ FindsBusy \/ FindsAtRest \/ ClampsSeen \/ Appends \/ ChecksFirst
  \/ MarksSeen \/ MarksNothing \/ FindsGone \/ RecoversGone

ReaderStep == Asks \/ AsksAgain \/ Receives \/ Follows

Next ==
  \/ CallAppend \/ CallInterrupt \/ CallSeen
  \/ JobStep
  \/ AppendFails \/ StepFails
  \/ Loads \/ RenameMoves \/ RenameEnds \/ RenameThrows \/ Removes \/ Vanishes \/ Crash \/ PowerLoss
  \/ ReaderStep \/ Released \/ HoldEnds

Spec == Init /\ [][Next]_vars

(* The daemon and the page run their own steps; a page that waits for a chat *)
(* has it loaded.  Nobody has to call, and the timer of a hold has to run    *)
(* out only for a page whose project has another tag by then.                *)
LiveSpec ==
  /\ Spec
  /\ WF_vars(JobStep \/ RenameEnds) /\ WF_vars(Loads) /\ WF_vars(Released) /\ WF_vars(ReaderStep)
  /\ WF_vars(HoldEnds /\ reader.tag # place)

-----------------------------------------------------------------------------
HandleTypeOK ==
  mem = NoHandle \/
  mem \in [st: {"opening", "live"}, tag: Tags, astray: BOOLEAN, kept: Seq(Entry), stale: BOOLEAN, fold: Fold,
           stateSeq: Nat]

TypeOK ==
  /\ disk \in Disk
  /\ place \in Tags \union {"gone"}
  /\ seen \in Nat
  /\ HandleTypeOK
  /\ jobs \in Seq([kind: Kinds, ev: Event, to: Nat, call: Nat, pc: {"queued", "waits", "inside", "writes", "checks"},
                   todo: SUBSET Requests, tag: Tags])
  /\ held \in [Tags -> {"none", "chat", "from", "to"}]
  /\ told \in {"working", NeedsYou, "failed", "continued-outside"}
  /\ wake \in BOOLEAN
  /\ reader \in [pc: {"idle", "holds", "again", "got"}, tag: Tags, cursor: Nat, view: Seq(Entry),
                 reply: Seq(Entry), reset: BOOLEAN]
  /\ acked \in SUBSET Entry
  /\ calls \in Nat
  /\ left \in [Bounded -> Nat]

(* The fold that the daemon answers from is the fold of the lines on disk,   *)
(* after any failed append that was read again (`appendInHeldTurns`,         *)
(* `#reopen`).                                                               *)
FoldIsLog ==
  mem.st # "none" /\ ~mem.stale =>
    /\ mem.kept = Valid(disk.lines)
    /\ mem.fold = Folded(mem.kept).fold /\ mem.stateSeq = Folded(mem.kept).stateSeq

(* The log gives no number twice, passes over no whole line, keeps the       *)
(* entries of fulfilled appends, and holds the calls in call order, each at  *)
(* most once (`append`: "Calls on one handle write in call order").          *)
LogKeepsCalls ==
  /\ \A i \in DOMAIN disk.lines : disk.lines[i] # Torn => Counts(disk.lines, i)
  /\ \A e \in acked : \E i \in DOMAIN disk.lines : disk.lines[i] = e
  /\ \A i, j \in DOMAIN disk.lines : i < j /\ Torn \notin {disk.lines[i], disk.lines[j]} =>
       \/ disk.lines[i].call < disk.lines[j].call
       \/ disk.lines[i].call = disk.lines[j].call /\ disk.lines[i].ev.kind = "resolved"

(* What clients were told of a chat is its state: no change of the fold goes *)
(* without a `chat` event, a line found by a later open included             *)
(* (`#announce`).                                                            *)
StatusTold == mem.st # "none" => told = Status(mem.fold)

(* A page shows the first entries of the log, none twice and none left out,  *)
(* over failed reads, restarts of the daemon and renames.                    *)
ViewIsLog ==
  place # "gone" =>
    LET shown == IF reader.reset THEN reader.view ELSE reader.view \o reader.reply
        log == Valid(disk.lines)
    IN  Len(shown) <= Len(log) /\ shown = SubSeq(log, 1, Len(shown))

(* A new entry is never one that counts as seen, a log that lost lines       *)
(* included (registry.ts: "gives its next entries the seq of entries the     *)
(* user saw").                                                               *)
NewIsUnseen == [][acked' # acked => \A e \in acked' \ acked : e.seq > seen]_vars

(* A chat that was loaded from disk is at rest before anyone gets it, unless *)
(* a write of the recovery failed (`recover`: "a turn, a job or a request    *)
(* that its log leaves open ended with an earlier daemon").                  *)
LoadedRests ==
  [][mem.st = "opening" /\ Live' /\ Job.kind = "recover" /\ Here /\ left' = left => ~ChatBusy(mem'.fold)]_vars

(* The daemon lets go of a chat only when it is gone, or when a rename threw *)
(* behind the move and left the handle on a tag where nothing stands: a call *)
(* that waited behind a rename does not look for the folder at its old place,*)
(* nor while a rename moves it (`#inTurns`, `#forgetIfGone`).                *)
KeptWhileThere ==
  [][Live /\ mem' = NoHandle => place' = "gone" \/ left'.crash < left.crash \/ (mem.astray /\ ~Here)]_vars

(* A page that goes on reading comes to show the whole log. *)
ReaderCatchesUp == []<>(place = "gone" \/ (Live /\ reader.tag = mem.tag /\ reader.view = mem.kept))
=============================================================================
