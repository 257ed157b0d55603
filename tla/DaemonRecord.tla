---------------------------- MODULE DaemonRecord ---------------------------
(***************************************************************************)
(* Who serves a tree: the starts and stops of daemons over one record file *)
(* (apps/daemon/src/lifecycle/record.ts, run.ts, probe.ts).  A start looks *)
(* for a daemon at the recorded port, binds its own port, and claims the   *)
(* record by a hard link, after it took away a record that names no        *)
(* daemon.  A stop removes the record as its last act.  Any process may    *)
(* die between two steps, and a live daemon may answer a probe too late.   *)
(***************************************************************************)
EXTENDS Integers

CONSTANTS
  Procs,     \* the processes that start, each with a process id of its own
  Ports,
  Nobody,    \* the process that left a record before the first start
  Rounds,    \* CLAIM_ROUNDS
  Budgets    \* sets of bounds, one of which holds: stops, deaths, late answers, calls on a file that fail

Bounded == {"stop", "death", "late", "fault"}

Budget == [Bounded -> Nat]

ASSUME RecordAssumption ==
  /\ Nobody \notin Procs
  /\ Ports \subseteq Nat \ {0}
  /\ Rounds \in Nat \ {0}
  /\ Budgets \subseteq Budget

VARIABLES
  name,    \* what stands under the name of the record
  pc,      \* [Procs -> Pc]: where each process is
  port,    \* [Procs -> Ports]: the port it was asked to serve
  read,    \* [Procs -> Texts]: the text that it judges
  taken,   \* [Procs -> Texts]: what it took away from the name
  round,   \* [Procs -> Nat]: the rounds of its claim that are over
  lost,    \* history: the record of a live daemon was dropped, or a live daemon was judged gone
  left     \* what is left of the one of Budgets that holds

vars == <<name, pc, port, read, taken, round, lost, left>>

(* A record, by its process and port; nothing; what has no text to read, as  *)
(* a folder or a file that is too long.                                      *)
Text == [by: Procs \union {Nobody}, port: Ports]
Absent == [by |-> Nobody, port |-> 0]
Unreadable == [by |-> Nobody, port |-> -1]
Texts == Text \union {Absent, Unreadable}

Own(p) == [by |-> p, port |-> port[p]]

(* Says(t): the record that stands in t, Absent for none. *)
Says(t) == IF t \in Text THEN t ELSE Absent

Pc == {"off",                                                  \* not started yet
       "reads", "probes", "binds",                             \* `startDaemon` up to its bind
       "links", "judges", "asks", "takes", "checks", "returns",  \* `claimRecord`
       "serves",
       "drains", "looks", "removes", "sorts", "restores",      \* `closeServing` and `removeRecord`
       "refused", "failed", "ended", "dead"}

Starting == {"off", "reads", "probes", "binds"}

Claiming == {"links", "judges", "asks", "takes", "checks", "returns"}

Holding == {"checks", "returns", "sorts", "restores"}

Over == {"refused", "failed", "ended", "dead"}

(* The processes that listen on their port. *)
Listens(p) == pc[p] \in Claiming \union {"serves"}

Answers(n) == \E p \in Procs : Listens(p) /\ port[p] = n

Goes(p, next) == pc' = [pc EXCEPT ![p] = next]

Spends(bound) == left[bound] > 0 /\ left' = [left EXCEPT ![bound] = @ - 1]

(* The record of a process that serves, or that just won its claim. *)
Live(text) == \E p \in Procs : text = Own(p) /\ pc[p] = "serves"

Files == <<name, taken>>

-----------------------------------------------------------------------------
Init ==
  /\ name \in {Absent, Unreadable} \union [by: {Nobody}, port: Ports]
  /\ pc = [p \in Procs |-> "off"]
  /\ port \in [Procs -> Ports]
  /\ read = [p \in Procs |-> Absent]
  /\ taken = [p \in Procs |-> Absent]
  /\ round = [p \in Procs |-> 0]
  /\ lost = FALSE
  /\ left \in Budgets

Begins(p) ==
  /\ pc[p] = "off"
  /\ Goes(p, "reads")
  /\ UNCHANGED <<Files, port, read, round, lost, left>>

(* A read that fails reads no record. *)
ReadAs(x, t) ==
  \/ x = Says(t) /\ UNCHANGED left
  \/ x = Absent /\ t \in Text /\ Spends("fault")

Reads(p) ==
  /\ pc[p] = "reads"
  /\ \E x \in {Says(name), Absent} :
       /\ ReadAs(x, name)
       /\ read' = [read EXCEPT ![p] = x]
       /\ Goes(p, IF x \in Text THEN "probes" ELSE "binds")
  /\ UNCHANGED <<Files, port, round, lost>>

(* The probe.  A daemon whose answer comes too late counts as none. *)
Finds(n) == Answers(n) /\ UNCHANGED left
FindsNone(n) == ~Answers(n) /\ UNCHANGED left
FindsLate(n) == Answers(n) /\ Spends("late")

Probes(p) ==
  /\ pc[p] = "probes"
  /\ \/ Finds(read[p].port) /\ Goes(p, "refused")
     \/ (FindsNone(read[p].port) \/ FindsLate(read[p].port)) /\ Goes(p, "binds")
  /\ UNCHANGED <<Files, port, read, round, lost>>

(* A port that is held ends the start, with the word of who holds it. *)
Binds(p) ==
  /\ pc[p] = "binds"
  /\ \/ FindsNone(port[p]) /\ Goes(p, "links")
     \/ Finds(port[p]) /\ Goes(p, "refused")
     \/ FindsLate(port[p]) /\ Goes(p, "failed")
  /\ UNCHANGED <<Files, port, read, round, lost>>

-----------------------------------------------------------------------------
(* `claimRecord` *)

(* A link onto a name that must not exist yet.  The claim of a process that  *)
(* comes while another has the record of a live daemon in its hand leaves    *)
(* that record nowhere to return to.                                         *)
Links(p) ==
  /\ pc[p] = "links"
  /\ IF name = Absent
     THEN /\ name' = Own(p)
          /\ Goes(p, "serves")
          /\ lost' = (lost \/ \E q \in Procs : Live(taken[q]))
     ELSE /\ Goes(p, "judges")
          /\ UNCHANGED <<name, lost>>
  /\ UNCHANGED <<taken, port, read, round, left>>

Judges(p) ==
  /\ pc[p] = "judges"
  /\ \E x \in {Says(name), Absent} :
       /\ ReadAs(x, name)
       /\ read' = [read EXCEPT ![p] = x]
       /\ Goes(p, IF x \in Text THEN "asks" ELSE "takes")
  /\ UNCHANGED <<Files, port, round, lost>>

(* Mutant: probes its own port too. *)
AnyPort(p, n) == FALSE

OwnPort(p, n) == n = port[p]

(* A record that names the port of this process names no other daemon.       *)
Asks(p) ==
  LET n == read[p].port
  IN /\ pc[p] = "asks"
     /\ \/ ~OwnPort(p, n) /\ Finds(n) /\ Goes(p, "refused") /\ UNCHANGED lost
        \/ ~OwnPort(p, n) /\ FindsLate(n) /\ Goes(p, "takes") /\ lost' = (lost \/ Live(read[p]))
        \/ ~OwnPort(p, n) /\ FindsNone(n) /\ Goes(p, "takes") /\ UNCHANGED lost
        \/ OwnPort(p, n) /\ Goes(p, "takes") /\ UNCHANGED <<lost, left>>
     /\ UNCHANGED <<Files, port, read, round>>

NextRound(p) ==
  /\ round' = [round EXCEPT ![p] = @ + 1]
  /\ Goes(p, IF round[p] + 1 < Rounds THEN "links" ELSE "failed")

(* The rename that takes the name away. *)
Takes(p) ==
  /\ pc[p] = "takes"
  /\ IF name = Absent
     THEN NextRound(p) /\ UNCHANGED Files
     ELSE /\ taken' = [taken EXCEPT ![p] = name]
          /\ name' = Absent
          /\ Goes(p, "checks")
          /\ UNCHANGED round
  /\ UNCHANGED <<port, read, lost, left>>

Discards(p) == taken' = [taken EXCEPT ![p] = Absent]

(* Mutant: what it took is what it judged. *)
AnyText(p, x) == TRUE

Judged(p, x) == x = read[p]

(* Two reads that both fail take the same for granted of any file.           *)
Checks(p) ==
  /\ pc[p] = "checks"
  /\ \E x \in {Says(taken[p]), Absent} :
       /\ ReadAs(x, taken[p])
       /\ \/ Judged(p, x) /\ Discards(p) /\ NextRound(p) /\ lost' = (lost \/ (x # taken[p] /\ Live(taken[p])))
          \/ ~Judged(p, x) /\ Goes(p, "returns") /\ UNCHANGED <<taken, round, lost>>
  /\ UNCHANGED <<name, port, read>>

(* Mutant: what it put back is still in its hand. *)
PutBackOnly(p) ==
  /\ name' = IF name = Absent THEN taken[p] ELSE name
  /\ UNCHANGED <<taken, lost>>

(* The link that puts back what it took, unless something stands there.      *)
PutBack(p) ==
  /\ name' = IF name = Absent THEN taken[p] ELSE name
  /\ lost' = (lost \/ (name # Absent /\ Live(taken[p])))
  /\ Discards(p)

Returns(p) ==
  /\ pc[p] = "returns"
  /\ PutBack(p)
  /\ NextRound(p)
  /\ UNCHANGED <<port, read, left>>

(* A call that changes a name fails, and with it the claim or the stop.      *)
(* What was taken is discarded.                                              *)
Fails(p) ==
  /\ pc[p] \in {"links", "takes", "returns", "removes", "restores"}
  /\ Spends("fault")
  /\ lost' = (lost \/ Live(taken[p]))
  /\ Discards(p)
  /\ Goes(p, IF pc[p] \in {"removes", "restores"} THEN "ended" ELSE "failed")
  /\ UNCHANGED <<name, port, read, round>>

-----------------------------------------------------------------------------
(* `closeServing`, `removeRecord` *)

(* The server takes no connection from here on. *)
Stops(p) ==
  /\ pc[p] = "serves"
  /\ Spends("stop")
  /\ Goes(p, "drains")
  /\ UNCHANGED <<Files, port, read, round, lost>>

(* The requests are over, the agents have ended and the indexes are closed.  *)
Drained(p) ==
  /\ pc[p] = "drains"
  /\ Goes(p, "looks")
  /\ UNCHANGED <<Files, port, read, round, lost, left>>

Mine(p, x) == x.by = p

Looks(p) ==
  /\ pc[p] = "looks"
  /\ \E x \in {Says(name), Absent} :
       /\ ReadAs(x, name)
       /\ Goes(p, IF Mine(p, x) THEN "removes" ELSE "ended")
  /\ UNCHANGED <<Files, port, read, round, lost>>

Removes(p) ==
  /\ pc[p] = "removes"
  /\ IF name = Absent
     THEN Goes(p, "ended") /\ UNCHANGED Files
     ELSE /\ taken' = [taken EXCEPT ![p] = name]
          /\ name' = Absent
          /\ Goes(p, "sorts")
  /\ UNCHANGED <<port, read, round, lost, left>>

Sorts(p) ==
  /\ pc[p] = "sorts"
  /\ \E x \in {Says(taken[p]), Absent} :
       /\ ReadAs(x, taken[p])
       /\ \/ Mine(p, x) /\ Discards(p) /\ Goes(p, "ended")
          \/ ~Mine(p, x) /\ Goes(p, "restores") /\ UNCHANGED taken
  /\ UNCHANGED <<name, port, read, round, lost>>

Restores(p) ==
  /\ pc[p] = "restores"
  /\ PutBack(p)
  /\ Goes(p, "ended")
  /\ UNCHANGED <<port, read, round, left>>

-----------------------------------------------------------------------------
(* A process dies.  What it took stands under a name that nobody reads.      *)
Dies(p) ==
  /\ pc[p] \notin Over \union {"off"}
  /\ Spends("death")
  /\ lost' = (lost \/ Live(taken[p]))
  /\ Goes(p, "dead")
  /\ Discards(p)
  /\ UNCHANGED <<name, port, read, round>>

Start(p) == Begins(p) \/ Reads(p) \/ Probes(p) \/ Binds(p)
Claim(p) == Links(p) \/ Judges(p) \/ Asks(p) \/ Takes(p) \/ Checks(p) \/ Returns(p)
Stop(p) == Stops(p) \/ Drained(p) \/ Looks(p) \/ Removes(p) \/ Sorts(p) \/ Restores(p)

Next == \E p \in Procs : Start(p) \/ Claim(p) \/ Stop(p) \/ Fails(p) \/ Dies(p)

Spec == Init /\ [][Next]_vars

-----------------------------------------------------------------------------
(* The shape of the state.  A process has something in its hand only between *)
(* the step that takes it and the one that sorts it, and claims only while   *)
(* it has rounds left.                                                       *)
TypeOK ==
  /\ name \in Texts
  /\ pc \in [Procs -> Pc]
  /\ port \in [Procs -> Ports]
  /\ read \in [Procs -> Texts]
  /\ taken \in [Procs -> Texts]
  /\ \A p \in Procs : taken[p] # Absent <=> pc[p] \in Holding
  /\ round \in [Procs -> 0 .. Rounds]
  /\ \A p \in Procs : pc[p] \in Starting \union Claiming => round[p] < Rounds
  /\ lost \in BOOLEAN
  /\ left \in Budget

(* Two daemons serve one tree only after the record of the first was in the  *)
(* hand of a third process and could not return: the name was claimed, or    *)
(* the process died or failed, between the take and the return; or the first *)
(* answered its probe too late.  In particular the race of two starts for    *)
(* the record of a dead daemon has one winner, and the late stop of a daemon *)
(* never opens the tree of its successor.                                    *)
OneServes == lost \/ \A p, q \in Procs : pc[p] = "serves" /\ pc[q] = "serves" => p = q

(* The record of a daemon that serves stands, or is in the hand of a process *)
(* that is about to put it back: the daemon can be found.                    *)
RecordStands ==
  \A p \in Procs :
    pc[p] = "serves" => lost \/ name = Own(p) \/ \E q \in Procs : taken[q] = Own(p)

(* A start stands down only for a daemon: when all is over, a start that was *)
(* refused means that some process came to serve, failed in its claim or     *)
(* died.  A record that a death left behind never keeps the tree closed.     *)
RefusedForOne ==
  (\A p \in Procs : pc[p] \in Over \union {"off"}) /\ (\E p \in Procs : pc[p] = "refused") =>
    \E p \in Procs : pc[p] \in {"failed", "ended", "dead"}

(* The rule of `startDaemon`: one daemon per tree, where a daemon that takes *)
(* no more connections still ends its requests and its agents.               *)
OneDaemonPerTree ==
  \A p, q \in Procs : pc[p] \in {"serves", "drains"} /\ pc[q] \in {"serves", "drains"} => p = q
=============================================================================
