----------------------------- MODULE TreeWatch -----------------------------
(***************************************************************************)
(* The watch of the tree (packages/engine/src/tree/watch.ts and state.ts): *)
(* flat watches on the root, on `projects/` and on each project.  An event *)
(* starts, after a pause, a read of the area of its folder; reads run one  *)
(* behind another, and each brings the watches in line with what it found. *)
(* An area goes by the number of its folder: the root reads all of it,     *)
(* `projects/` all projects, and a project itself.  The workflows are read *)
(* and watched as the projects are, and are left out.                      *)
(***************************************************************************)
EXTENDS Integers, SequencesExt

CONSTANTS
  Tags,      \* the names that projects can have, in their order
  Limit,     \* WATCH_LIMIT
  Budgets    \* sets of bounds, one of which holds: changes by hand, lost events, failing watches, rescans, close

Root == 0
List == 1

Bounded == {"edit", "lost", "fail", "rescan", "close"}

ASSUME TreeAssumption ==
  /\ Tags \subseteq Nat \ {Root, List} /\ IsFiniteSet(Tags)
  /\ Limit \in Nat
  /\ Budgets \subseteq [Bounded -> Nat]

Folders == {Root, List} \union Tags

VARIABLES
  id,       \* [Folders -> Nat]: the folder under each name, 0 for none
  file,     \* [Folders -> Nat]: the mark of the configuration in it, 0 for none
  seen,     \* `#state`: what the last read left
  held,     \* `#held`, the watches
  timers,   \* the areas of `#timers`
  queue,    \* the areas of `#waiting`, in the order of their reads
  fresh,    \* the areas that the read in flight has still to read again
  reading,  \* the read in flight: its area, what it has still to read, and what it got
  closed,
  excused,  \* history: the folders whose watch was not there, and that no read has covered since
  rescan,   \* history: whether a rescan was asked for and has resolved
  still,    \* history: the folders in which nothing has changed since it was asked for
  stamp,    \* the last number given to a folder or a mark
  left      \* what is left of the one of Budgets that holds

disk == <<id, file, stamp>>
history == <<excused, rescan, still>>
vars == <<disk, seen, held, timers, queue, fresh, reading, closed, history, left>>

Parent(f) == IF f = List THEN Root ELSE List

(* The root is there, and stays. *)
NoState == [id |-> [f \in Folders |-> IF f = Root THEN 1 ELSE 0], file |-> [f \in Folders |-> 0], tags |-> {}]

(* A watch: the identity that it was taken for, and the folder that it hears; 0 for none. *)
NotHeld == [id |-> 0, on |-> 0]

(* What a read asks the disk for. *)
IdOf(f) == <<"id", f>>
FileOf(f) == <<"file", f>>
Names == <<"names", List>>

ListItems == {IdOf(List), Names}

ItemsOf(a) ==
  CASE a = Root -> {FileOf(Root)} \union ListItems
    [] a = List -> ListItems
    [] OTHER -> {IdOf(a), FileOf(a)}

NoRead == [area |-> Root, todo |-> {}, got |-> NoState, on |-> FALSE]

Hears(f) == held[f].on # 0 /\ held[f].on = id[f]

Covers(a) == CASE a = Root -> Folders [] a = List -> {List} \union Tags [] OTHER -> {a}

Spends(bound) == left[bound] > 0 /\ left' = [left EXCEPT ![bound] = @ - 1]

-----------------------------------------------------------------------------
Init ==
  /\ id = [f \in Folders |-> 1]
  /\ file = [f \in Folders |-> IF f = List THEN 0 ELSE 1]
  /\ seen = NoState
  /\ held = [f \in Folders |-> NotHeld]
  /\ timers = {}
  /\ queue = <<Root>>
  /\ fresh = <<>>
  /\ reading = NoRead
  /\ closed = FALSE
  /\ excused = {}
  /\ rescan = "asked"
  /\ still = Folders
  /\ stamp = 1
  /\ left \in Budgets

(* The hand that changes something in a folder, folders that come or go      *)
(* included.  Its watch hears it or, when the system loses the event, does   *)
(* not.                                                                      *)
ChangesIn(f, gone) ==
  /\ left["edit"] > 0
  /\ stamp' = stamp + 1
  /\ still' = still \ ({f} \union gone)
  /\ \/ /\ left' = [left EXCEPT !["edit"] = @ - 1]
        /\ timers' = IF Hears(f) /\ ~closed THEN timers \union {f} ELSE timers
        /\ UNCHANGED excused
     \/ /\ Hears(f) /\ left["lost"] > 0
        /\ left' = [left EXCEPT !["edit"] = @ - 1, !["lost"] = @ - 1]
        /\ excused' = excused \union {f}
        /\ UNCHANGED timers
  /\ UNCHANGED <<seen, held, queue, fresh, reading, closed, rescan>>

Edits(f) ==
  /\ f # List /\ id[f] # 0
  /\ \E mark \in {0, stamp + 1} \ {file[f]} : file' = [file EXCEPT ![f] = mark]
  /\ ChangesIn(f, {})
  /\ UNCHANGED id

Makes(f) ==
  /\ f # Root /\ id[f] = 0 /\ id[Parent(f)] # 0
  /\ id' = [id EXCEPT ![f] = stamp + 1]
  /\ ChangesIn(Parent(f), {f})
  /\ UNCHANGED file

(* A folder goes with all that is in it. *)
Removes(f) ==
  /\ f # Root /\ id[f] # 0
  /\ id' = [g \in Folders |-> IF g \in Covers(f) THEN 0 ELSE id[g]]
  /\ file' = [g \in Folders |-> IF g \in Covers(f) THEN 0 ELSE file[g]]
  /\ ChangesIn(Parent(f), Covers(f))

-----------------------------------------------------------------------------
(* Mutant: the read in flight is joined too. *)
AnyJoined(a) == a \in Range(queue) \/ (reading.on /\ reading.area = a)

(* `#queue`: a read of the area that waits already is joined. *)
Joined(a) == a \in Range(queue)

Queued(a) == queue' = IF Joined(a) THEN queue ELSE Append(queue, a)

TimerEnds(a) ==
  /\ a \in timers
  /\ timers' = timers \ {a}
  /\ Queued(a)
  /\ UNCHANGED <<disk, seen, held, fresh, reading, closed, history, left>>

(* `rescan`, which `openTree` calls first of all. *)
Rescans ==
  /\ Spends("rescan")
  /\ rescan = "done"
  /\ rescan' = "asked"
  /\ still' = Folders
  /\ Queued(Root)
  /\ UNCHANGED <<disk, seen, held, timers, fresh, reading, closed, excused>>

(* `#run` up to its read: of the next area that waits, or of one that the    *)
(* last read found to be new.                                                *)
Begins(a) ==
  /\ reading' = [area |-> a, todo |-> ItemsOf(a), got |-> seen, on |-> TRUE]
  /\ excused' = excused \ {f \in Covers(a) : Hears(f)}
  /\ UNCHANGED <<disk, seen, held, timers, closed, rescan, still, left>>

RunNext ==
  /\ ~reading.on /\ fresh = <<>> /\ queue # <<>>
  /\ queue' = Tail(queue)
  /\ IF closed THEN UNCHANGED <<disk, seen, held, timers, reading, closed, history, left>> ELSE Begins(Head(queue))
  /\ UNCHANGED fresh

RunFresh ==
  /\ ~reading.on /\ fresh # <<>>
  /\ fresh' = Tail(fresh)
  /\ Begins(Head(fresh))
  /\ UNCHANGED queue

Reads(item, got, more) ==
  /\ reading' = [reading EXCEPT !.todo = (@ \ {item}) \union more, !.got = got]
  /\ UNCHANGED <<disk, seen, held, timers, queue, fresh, closed, history, left>>

ReadsId(f) ==
  /\ IdOf(f) \in reading.todo
  /\ Reads(IdOf(f), [reading.got EXCEPT !.id[f] = id[f]], {})

ReadsFile(f) ==
  /\ FileOf(f) \in reading.todo
  /\ Reads(FileOf(f), [reading.got EXCEPT !.file[f] = file[f]], {})

(* The listing, whose projects are read next. *)
ReadsNames ==
  /\ Names \in reading.todo /\ IdOf(List) \notin reading.todo
  /\ LET found == {t \in Tags : id[t] # 0}
     IN Reads(Names, [reading.got EXCEPT !.tags = found], {IdOf(t) : t \in found} \union {FileOf(t) : t \in found})

(* A project whose folder is gone reads the list in its place. *)
FoundGone == reading.area \in Tags /\ reading.got.id[reading.area] = 0

ReadsListInstead ==
  /\ reading.on /\ reading.todo = {} /\ FoundGone
  /\ reading' = [reading EXCEPT !.area = List, !.todo = ListItems, !.got = seen]
  /\ UNCHANGED <<disk, seen, held, timers, queue, fresh, closed, history, left>>

Found ==
  IF reading.area \in Tags THEN [reading.got EXCEPT !.tags = @ \union {reading.area}] ELSE reading.got

-----------------------------------------------------------------------------
(* `watchedFolders`, and the first of them up to the limit. *)
Watched(s) == {f \in {Root, List} \union s.tags : s.id[f] # 0}

Wanted(s) == {f \in Watched(s) : Cardinality({g \in Watched(s) : g < f}) < Limit}

(* `coalesce` *)
Coalesced(areas) ==
  IF Root \in areas THEN {Root} ELSE IF List \in areas THEN {List} ELSE areas

(* The areas one after the other, in the order of their folders. *)
InOrder(areas) ==
  {s \in [1 .. Cardinality(areas) -> areas] :
     Range(s) = areas /\ \A i, j \in DOMAIN s : i < j => s[i] < s[j]}

(* Mutant: no area is read again. *)
NoneNew(s) == {}

(* The folders that are new to the watches. *)
NewTo(s) == {f \in Wanted(s) : held[f].id = 0}

(* The watches that `#follow` takes: new ones, those on a folder that another *)
(* one replaced, and those that failed.                                       *)
Takes(s) == {f \in Wanted(s) : held[f].id # s.id[f] \/ held[f].on = 0}

(* `#follow`, where the watches of `failing` cannot be taken. *)
Followed(s, failing) ==
  [f \in Folders |->
     IF f \notin Wanted(s) THEN NotHeld
     ELSE IF f \notin Takes(s) THEN held[f]
     ELSE [id |-> s.id[f], on |-> IF f \in failing THEN 0 ELSE id[f]]]

(* The end of a read: its changes are reported and the watches follow. *)
ReadEnds ==
  /\ reading.on /\ reading.todo = {} /\ ~FoundGone /\ ~closed
  /\ seen' = Found
  /\ \E failing \in SUBSET Takes(Found) :
       /\ Cardinality(failing) <= left["fail"]
       /\ left' = [left EXCEPT !["fail"] = @ - Cardinality(failing)]
       /\ held' = Followed(Found, failing)
       /\ excused' = excused \union failing \union {f \in Takes(Found) : held[f].id # 0}
  /\ \E s \in InOrder(Coalesced(NewTo(Found))) : fresh' = s \o fresh
  /\ reading' = NoRead
  /\ UNCHANGED <<disk, timers, queue, closed, rescan, still>>

(* The rescan resolves once its read and those of the new folders are over.  *)
RescanEnds ==
  /\ rescan = "asked" /\ ~reading.on /\ fresh = <<>> /\ Root \notin Range(queue)
  /\ rescan' = "done"
  /\ UNCHANGED <<disk, seen, held, timers, queue, fresh, reading, closed, excused, still, left>>

WatchFails(f) ==
  /\ held[f].on # 0
  /\ Spends("fail")
  /\ held' = [held EXCEPT ![f].on = 0]
  /\ excused' = excused \union {f}
  /\ UNCHANGED <<disk, seen, timers, queue, fresh, reading, closed, rescan, still>>

(* `close`: no read starts any more, and the one in flight changes nothing. *)
Closes ==
  /\ Spends("close")
  /\ closed' = TRUE
  /\ timers' = {}
  /\ held' = [f \in Folders |-> NotHeld]
  /\ fresh' = <<>>
  /\ reading' = NoRead
  /\ UNCHANGED <<disk, seen, queue, history>>

Hand == \E f \in Folders : Edits(f) \/ Makes(f) \/ Removes(f)

Read == ReadsNames \/ ReadsListInstead \/ \E f \in Folders : ReadsId(f) \/ ReadsFile(f)

Next ==
  \/ Hand \/ Read \/ RunNext \/ RunFresh \/ ReadEnds
  \/ Rescans \/ RescanEnds \/ Closes
  \/ \E f \in Folders : TimerEnds(f) \/ WatchFails(f)

Spec == Init /\ [][Next]_vars

-----------------------------------------------------------------------------
AtRest == timers = {} /\ queue = <<>> /\ fresh = <<>> /\ ~reading.on /\ ~closed

(* The state holds what is in a folder. *)
Matches(f) ==
  CASE f = Root -> seen.file[Root] = file[Root] /\ seen.id[List] = id[List]
    [] f = List -> seen.tags = {t \in Tags : id[t] # 0} /\ \A t \in seen.tags : seen.id[t] = id[t]
    [] OTHER -> id[f] # 0 => seen.file[f] = file[f]

(* No watch was there to hear what changed in a folder, or to hear that it   *)
(* is another folder now.                                                    *)
Unheard(f) ==
  \/ f \in excused \/ Root \in excused \/ f \notin Wanted(seen)
  \/ f # Root /\ List \in excused

(* When all is quiet the state holds what stands on the disk, for each folder *)
(* that has a watch: a change made while the folder was read, before its watch *)
(* was there or while another read was in flight is never missed.             *)
NothingMissed == AtRest => \A f \in Folders : id[f] # 0 => Matches(f) \/ Unheard(f)

(* A rescan that resolved has seen all that stood on the disk when it was    *)
(* asked for, also past the limit and where no watch is.                     *)
RescanTold == rescan = "done" /\ ~closed => \A f \in still : id[f] # 0 => Matches(f)
=============================================================================
