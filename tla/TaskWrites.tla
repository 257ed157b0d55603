----------------------------- MODULE TaskWrites -----------------------------
(***************************************************************************)
(* The writes of the tasks of one project: the routes that take the turns  *)
(* of a write (apps/daemon/src/tasks/routes.ts), the index that the keys   *)
(* are read from (packages/engine/src/index-cache/project.ts) and the      *)
(* read, the checks and the save of a task file                            *)
(* (packages/engine/src/store/store.ts and validate.ts).                   *)
(*                                                                         *)
(* A file holds what ties tasks together, its parent and its blockers, and *)
(* the number of comments for everything else that a write reads and       *)
(* writes back.  A file that cannot be parsed is "broken": it stands, and  *)
(* the index does not list it.                                             *)
(***************************************************************************)
EXTENDS WriteQueue, FiniteSets

CONSTANTS
  Tasks,      \* the numbers of the tasks; bound: no create takes another
  Starts,     \* the files that the project may start with
  NextTask,   \* the number of the next task at the start
  Plans,      \* [Calls -> Request]: what the callers may ask for
  MaxFaults   \* bound: how many saves and removals fail

(* The keys of this project in the order of their strings: the tag, `create`, *)
(* the tasks.                                                                 *)
ProjectKey == 0
CreateKey == 1
TaskKey(t) == t + 1

File == [st: {"none", "good", "broken"}, parent: Tasks \union {0}, blockers: SUBSET Tasks, notes: Nat]
NoFile == [st |-> "none", parent |-> 0, blockers |-> {}, notes |-> 0]
NewFile == [NoFile EXCEPT !.st = "good"]

(* A create or an update states one of the two fields, or none; 0 and {} clear *)
(* it.                                                                         *)
Kinds == {"create", "update", "comment", "delete"}
Request == [kind: Kinds, task: Tasks \union {0}, field: {"parent", "blocked_by", "none"},
            parent: Tasks \union {0}, blockers: SUBSET Tasks]

ASSUME TasksAssumption ==
  /\ Tasks \subseteq Nat \ {0}
  /\ Keys = {ProjectKey, CreateKey} \union {TaskKey(t) : t \in Tasks}
  /\ Starts \subseteq [Tasks -> File]
  /\ NextTask \in Nat
  /\ \A start \in Starts : \A t \in Tasks : start[t].st # "none" => t < NextTask
  /\ Plans \subseteq [Calls -> Request]
  /\ \A plan \in Plans : \A c \in Calls : plan[c].kind # "create" => plan[c].task \in Tasks
  /\ MaxFaults \in Nat

VARIABLES
  file,      \* [Tasks -> File]: what is on disk
  index,     \* [Tasks -> File]: the entries of the index, NoFile for none
  counter,   \* the number of the next task
  request,   \* [Calls -> Request]
  call,      \* [Calls -> Call]: where each handler is
  faults,    \* how many saves and removals failed
  reported,  \* the pairs <<t, u>> of which a delete of u said that t still names it
  loose      \* history: the references <<t, u>> that were amiss at the start, or that a write saved which
             \* could not name the turn of u

taskVars == <<file, index, counter, request, call, faults, reported, loose>>
vars == <<queueVars, taskVars>>

Steps == {"idle", "turn", "check", "walk", "save", "apply", "remove", "unlist", "refs",
          "refsave", "refapply", "over", "missed", "again", "done"}

(* `task` is the task whose file the call rewrites, `snap` the file it read, `pos` *)
(* where a walk up the parents is and `chain` what it passed, `rest` the blockers *)
(* still to check or the tasks still to rewrite, `covered` the references that    *)
(* the delete took the turns of.  `blind` is history: the tasks that a request    *)
(* states and that the index did not list when the keys were read.                *)
Call == [step: Steps, task: Tasks \union {0}, snap: File, pos: Tasks \union {0},
         chain: SUBSET Tasks, rest: SUBSET Tasks, covered: SUBSET Tasks, blind: SUBSET Tasks]

TypeOK ==
  /\ QueueTypeOK
  /\ file \in [Tasks -> File]
  /\ index \in [Tasks -> File]
  /\ counter \in Nat
  /\ request \in [Calls -> Request]
  /\ call \in [Calls -> Call]
  /\ faults \in 0 .. MaxFaults
  /\ reported \subseteq Tasks \X Tasks
  /\ loose \subseteq Tasks \X Tasks

-----------------------------------------------------------------------------
(* Operators on files and on the index. *)

(* `namesTask`, `withoutTask`. *)
Names(f) == ({f.parent} \union f.blockers) \ {0}
Without(f, u) == [f EXCEPT !.parent = IF @ = u THEN 0 ELSE @, !.blockers = @ \ {u}]

(* What a read of the index makes of a file. *)
Entry(f) == IF f.st = "good" THEN f ELSE NoFile

Listed(t) == t \in Tasks /\ index[t].st = "good"
ReferencesTo(u) == {t \in Tasks \ {u} : u \in Names(index[t])}

(* A change as it is stored. *)
Changed(f, q) ==
  IF q.kind = "comment" THEN [f EXCEPT !.notes = @ + 1]
  ELSE CASE q.field = "parent" -> [f EXCEPT !.parent = q.parent]
         [] q.field = "blocked_by" -> [f EXCEPT !.blockers = q.blockers]
         [] OTHER -> f

(* Mutant: takes a cleared parent for a task. *)
StatedWithZero(q) ==
  CASE q.field = "parent" -> {q.parent}
    [] q.field = "blocked_by" -> q.blockers
    [] OTHER -> {}

(* The tasks that a request states. *)
Stated(q) ==
  CASE q.field = "parent" -> {q.parent} \ {0}
    [] q.field = "blocked_by" -> q.blockers
    [] OTHER -> {}

(* Mutants: a write takes the turn of no blocker and no parent; a delete takes *)
(* no turn of the tasks that name it.                                          *)
StatedKeysOfNone(q) == {}
DeleteKeysOfNone(t, covered) == {ProjectKey, TaskKey(t)}

(* `blockerKeys`, `parentKeys`. *)
StatedKeys(q) == {TaskKey(u) : u \in {v \in Stated(q) : Listed(v)}}

WriteKeys(q) ==
  CASE q.kind = "create" -> {CreateKey} \union StatedKeys(q)
    [] q.kind = "update" -> {TaskKey(q.task)} \union StatedKeys(q)
    [] OTHER -> {TaskKey(q.task)}

DeleteKeys(t, covered) == {ProjectKey, TaskKey(t)} \union {TaskKey(r) : r \in covered}

-----------------------------------------------------------------------------
IdleCall == [step |-> "idle", task |-> 0, snap |-> NoFile, pos |-> 0,
             chain |-> {}, rest |-> {}, covered |-> {}, blind |-> {}]

(* What no write of this run can be blamed for: a reference to a task that is *)
(* gone, and a parent that closes a ring of two or three.                     *)
AmissIn(f) ==
  {r \in Tasks \X Tasks :
     LET t == r[1]
         u == r[2]
     IN  \/ u \in Names(f[t]) /\ f[u].st = "none"
         \/ f[t].parent = u /\ (f[u].parent = t \/ \E v \in Tasks : f[u].parent = v /\ f[v].parent = t)}

Init ==
  /\ QueueInit
  /\ file \in Starts
  /\ index = [t \in Tasks |-> Entry(file[t])]
  /\ counter = NextTask
  /\ request \in Plans
  /\ call = [c \in Calls |-> IdleCall]
  /\ faults = 0
  /\ reported = {}
  /\ loose = AmissIn(file)

(* A step of the body of a write: it holds its turns and leaves the queue alone. *)
Within(c, step) ==
  /\ at[c] = "writes"
  /\ call[c].step = step
  /\ UNCHANGED <<queueVars, request>>

Goes(c, next) == call' = [call EXCEPT ![c] = next]
To(c, step) == Goes(c, [call[c] EXCEPT !.step = step])

SameFiles == UNCHANGED <<file, index, counter, faults, reported, loose>>

(* The tasks whose turns the next attempt of a delete takes. *)
CoveredNext(c) == call[c].rest

(* A handler opened the project; it reads its keys from the index and takes *)
(* the first turn in one step.                                              *)
Begin(c) ==
  /\ call[c].step = "idle"
  /\ LET q == request[c]
         covered == IF q.kind = "delete" THEN ReferencesTo(q.task) ELSE {}
     IN  /\ Goes(c, [IdleCall EXCEPT !.step = "turn", !.task = q.task, !.covered = covered,
                                     !.blind = {u \in Stated(q) : ~Listed(u)}])
         /\ RunAll(c, IF q.kind = "delete" THEN DeleteKeys(q.task, covered) ELSE WriteKeys(q))
  /\ SameFiles /\ UNCHANGED request

(* A delete that met a reference whose turn it had not taken. *)
Again(c) ==
  /\ call[c].step = "again"
  /\ Goes(c, [call[c] EXCEPT !.step = "turn", !.covered = CoveredNext(c), !.rest = {}])
  /\ RunAll(c, DeleteKeys(call[c].task, CoveredNext(c)))
  /\ SameFiles /\ UNCHANGED request

(* Turns that come and go. *)
Turn(c) == (Enter(c) \/ Leave(c)) /\ UNCHANGED taskVars

Ends(c) ==
  /\ call[c].step \in {"over", "missed"}
  /\ WriteEnds(c)
  /\ Goes(c, IF call[c].step = "missed" THEN [call[c] EXCEPT !.step = "again"]
             ELSE [IdleCall EXCEPT !.step = "done"])
  /\ SameFiles /\ UNCHANGED request

-----------------------------------------------------------------------------
(* `createTask`, `updateTask`, `addComment`. *)

IsCreate(c) == request[c].kind = "create"

(* A refused write of a file that was there reads it back into the index. *)
Refused(c) == To(c, IF IsCreate(c) THEN "over" ELSE "apply")

(* The file is read. *)
Opens(c) ==
  /\ Within(c, "turn")
  /\ request[c].kind # "delete"
  /\ LET f == IF IsCreate(c) THEN NewFile ELSE file[call[c].task]
     IN  \/ f.st = "good" /\ Goes(c, [call[c] EXCEPT
              !.step = IF Stated(request[c]) = {} THEN "save" ELSE "check",
              !.snap = f,
              !.rest = Stated(request[c])])
         \/ f.st # "good" /\ Refused(c)
  /\ SameFiles

(* `validateBlockedBy`: each blocker stands, and none is the task itself. *)
ChecksBlocker(c) ==
  /\ Within(c, "check")
  /\ request[c].field = "blocked_by"
  /\ \E u \in call[c].rest :
       IF call[c].task \in request[c].blockers \/ file[u].st = "none"
       THEN Refused(c)
       ELSE Goes(c, [call[c] EXCEPT !.rest = @ \ {u}, !.step = IF call[c].rest = {u} THEN "save" ELSE @])
  /\ SameFiles

(* `validateParent`: the parent stands and is not the task itself. *)
ChecksParent(c) ==
  /\ Within(c, "check")
  /\ request[c].field = "parent"
  /\ LET p == request[c].parent
     IN  \/ /\ p = call[c].task \/ file[p].st = "none"
            /\ Refused(c)
         \/ /\ p # call[c].task /\ file[p].st # "none"
            /\ IF IsCreate(c) THEN To(c, "save")
               ELSE Goes(c, [call[c] EXCEPT !.step = "walk", !.pos = p, !.chain = {p, call[c].task}])
  /\ SameFiles

(* The walk up the parents reads one file at a time; it ends at a task that *)
(* names no parent, cannot be read, or was passed before.                   *)
WalksUp(c) ==
  /\ Within(c, "walk")
  /\ LET up == Entry(file[call[c].pos]).parent
     IN  IF up = call[c].task THEN Refused(c)
         ELSE IF up = 0 \/ up \in call[c].chain THEN To(c, "save")
         ELSE Goes(c, [call[c] EXCEPT !.pos = up, !.chain = @ \union {up}])
  /\ SameFiles

(* The references that a save makes to tasks whose turn it could not take. *)
Loose(c, t, new) == {t} \X (Names(new) \intersect call[c].blind)

(* `replaceFile` puts the file at its name whether or not one still stands *)
(* there; a change that changes nothing is not written.                    *)
Saves(c) ==
  /\ Within(c, "save")
  /\ ~IsCreate(c)
  /\ LET new == Changed(call[c].snap, request[c])
         t == call[c].task
     IN  /\ file' = IF new = call[c].snap THEN file ELSE [file EXCEPT ![t] = new]
         /\ loose' = loose \union Loose(c, t, new)
  /\ To(c, "apply")
  /\ UNCHANGED <<index, counter, faults, reported>>

(* `createTaskFile`: the file, then the counter; the turn of the creates keeps *)
(* every other create out.                                                     *)
Creates(c) ==
  /\ Within(c, "save")
  /\ IsCreate(c)
  /\ counter \in Tasks
  /\ LET new == Changed(NewFile, request[c])
     IN  /\ file' = [file EXCEPT ![counter] = new]
         /\ loose' = loose \union Loose(c, counter, new)
  /\ counter' = counter + 1
  /\ Goes(c, [call[c] EXCEPT !.step = "apply", !.task = counter])
  /\ UNCHANGED <<index, faults, reported>>

SaveFails(c) ==
  /\ Within(c, "save")
  /\ faults < MaxFaults
  /\ faults' = faults + 1
  /\ Refused(c)
  /\ UNCHANGED <<file, index, counter, reported, loose>>

(* Mutant: the index takes what the write read. *)
ReadBefore(c, t) == Entry(call[c].snap)

(* `#applied`: the index reads the file back, whichever way the write ended. *)
ReadBack(c, t) == Entry(file[t])

Applies(c) ==
  /\ Within(c, "apply")
  /\ index' = [index EXCEPT ![call[c].task] = ReadBack(c, call[c].task)]
  /\ To(c, "over")
  /\ UNCHANGED <<file, counter, faults, reported, loose>>

-----------------------------------------------------------------------------
(* `deleteTask` of the routes and of the index. *)

(* Mutant: does not look for references once it has its turns. *)
MissedNever(now, covered) == FALSE

(* A task came to name the deleted one while the delete waited for its turns. *)
Missed(now, covered) == ~(now \subseteq covered)

Looks(c) ==
  /\ Within(c, "turn")
  /\ request[c].kind = "delete"
  /\ LET now == ReferencesTo(call[c].task)
     IN  Goes(c, [call[c] EXCEPT !.rest = now,
                                 !.step = IF Missed(now, call[c].covered) THEN "missed" ELSE "remove"])
  /\ SameFiles

Removes(c) ==
  /\ Within(c, "remove")
  /\ \/ /\ file[call[c].task].st # "none"
        /\ file' = [file EXCEPT ![call[c].task] = NoFile]
        /\ To(c, "unlist")
        /\ UNCHANGED faults
     \/ /\ file[call[c].task].st = "none"
        /\ Goes(c, [call[c] EXCEPT !.step = "unlist", !.rest = {}])
        /\ UNCHANGED <<file, faults>>
     \/ /\ faults < MaxFaults
        /\ faults' = faults + 1
        /\ Goes(c, [call[c] EXCEPT !.step = "unlist", !.rest = {}])
        /\ UNCHANGED file
  /\ UNCHANGED <<index, counter, reported, loose>>

AfterRefs(rest) == IF rest = {} THEN "over" ELSE "refs"

Unlists(c) ==
  /\ Within(c, "unlist")
  /\ index' = [index EXCEPT ![call[c].task] = ReadBack(c, call[c].task)]
  /\ To(c, AfterRefs(call[c].rest))
  /\ UNCHANGED <<file, counter, faults, reported, loose>>

(* `removeReference`: the file that names the deleted task is read. *)
OpensReference(c) ==
  /\ Within(c, "refs")
  /\ \E r \in Tasks :
       /\ Least(call[c].rest, r)
       /\ Goes(c, [call[c] EXCEPT !.pos = r, !.snap = file[r],
            !.step = IF file[r].st = "good" /\ call[c].task \in Names(file[r]) THEN "refsave" ELSE "refapply"])
       /\ reported' = IF file[r].st = "broken" THEN reported \union {<<r, call[c].task>>} ELSE reported
  /\ UNCHANGED <<file, index, counter, faults, loose>>

(* It is written back without the name, or the delete reports that it is not. *)
SavesReference(c) ==
  /\ Within(c, "refsave")
  /\ LET r == call[c].pos
         t == call[c].task
     IN  \/ /\ file' = [file EXCEPT ![r] = Without(call[c].snap, t)]
            /\ UNCHANGED <<faults, reported>>
         \/ /\ faults < MaxFaults
            /\ faults' = faults + 1
            /\ reported' = reported \union {<<r, t>>}
            /\ UNCHANGED file
  /\ To(c, "refapply")
  /\ UNCHANGED <<index, counter, loose>>

AppliesReference(c) ==
  /\ Within(c, "refapply")
  /\ LET r == call[c].pos
     IN  /\ index' = [index EXCEPT ![r] = ReadBack(c, r)]
         /\ Goes(c, [call[c] EXCEPT !.rest = @ \ {r}, !.step = AfterRefs(call[c].rest \ {r})])
  /\ UNCHANGED <<file, counter, faults, reported, loose>>

-----------------------------------------------------------------------------
(* The watch of the directory has a file read that changed. *)
Watches(t) ==
  /\ index[t] # Entry(file[t])
  /\ index' = [index EXCEPT ![t] = Entry(file[t])]
  /\ UNCHANGED <<queueVars, file, counter, request, call, faults, reported, loose>>

WriteStep(c) ==
  \/ Opens(c)
  \/ ChecksBlocker(c)
  \/ ChecksParent(c)
  \/ WalksUp(c)
  \/ Saves(c)
  \/ Creates(c)
  \/ SaveFails(c)
  \/ Applies(c)

DeleteStep(c) ==
  \/ Looks(c)
  \/ Removes(c)
  \/ Unlists(c)
  \/ OpensReference(c)
  \/ SavesReference(c)
  \/ AppliesReference(c)

CallStep(c) == Again(c) \/ Turn(c) \/ Ends(c) \/ WriteStep(c) \/ DeleteStep(c)

Next ==
  \/ \E c \in Calls : Begin(c) \/ CallStep(c)
  \/ \E t \in Tasks : Watches(t)

Spec == Init /\ [][Next]_vars

(* Settled promises run their continuations and calls of the file system return. *)
(* Nothing makes a caller ask, and the watch may miss what it likes.             *)
LiveSpec == Spec /\ \A c \in Calls : WF_vars(CallStep(c))

-----------------------------------------------------------------------------
(* A task that names a task that is gone: the delete that took it away has not *)
(* come to the reference yet, it reported that it could not remove it, the     *)
(* reference was saved by a write that began while the index did not list the  *)
(* named task, so that it had no turn of that task to take, or it was there    *)
(* before all writes.                                                          *)
NoDangling ==
  \A t, u \in Tasks :
    file[t].st = "good" /\ u \in Names(file[t]) /\ file[u].st = "none" =>
      \/ <<t, u>> \in reported \union loose
      \/ \E c \in Calls : request[c].kind = "delete" /\ call[c].task = u /\ t \in call[c].rest

(* What the turns of the parents are for: two or three tasks are never each   *)
(* other's ancestors, but for references that were saved as said above.        *)
Parents(t, u) == u \in Tasks /\ Entry(file[t]).parent = u /\ <<t, u>> \notin loose
NoShortCycle ==
  \A t, u, v \in Tasks : Parents(t, u) => ~Parents(u, t) /\ ~(Parents(u, v) /\ Parents(v, t))

(* No task is its own ancestor. *)
Ancestors(t) ==
  LET up[n \in Nat] ==
        IF n = 0 THEN {file[t].parent}
        ELSE up[n - 1] \union {file[u].parent : u \in up[n - 1] \intersect Tasks}
  IN  up[Cardinality(Tasks)]

NoParentCycle == \A t \in Tasks : t \notin Ancestors(t)

(* No write takes another one away: a file that changes hands from one content *)
(* to the next held exactly what its writer read.  A comment number is never   *)
(* given twice and no rewrite brings a deleted task back.                      *)
SavesFit ==
  [][\A c \in Calls :
       /\ Saves(c) => file[call[c].task] = call[c].snap
       /\ SavesReference(c) => file[call[c].pos] = call[c].snap
       /\ Creates(c) => file[counter].st = "none"]_vars

(* The index that keys and references are read from is the disk wherever no    *)
(* write is inside the turn of the task, a task just created aside.            *)
IndexAgrees ==
  \A t \in Tasks :
    \/ index[t] = Entry(file[t])
    \/ \E c \in Calls : at[c] = "writes" /\ (TaskKey(t) \in Taken(c) \/ (IsCreate(c) /\ call[c].task = t))

(* Every request is answered: writes that share turns never wait for each      *)
(* other, and a delete that has to begin again comes to an end.                *)
EachCallAnswers == \A c \in Calls : call[c].step # "idle" ~> (call[c].step = "done" /\ at[c] = "out")
=============================================================================
