------------------------- MODULE DaemonRecordServes ------------------------
(***************************************************************************)
(* Proofs about the daemon record: the record of a daemon that serves      *)
(* stands, and two daemons serve one tree only after such a record was     *)
(* lost.                                                                   *)
(***************************************************************************)
EXTENDS DaemonRecord, TLAPS

-----------------------------------------------------------------------------
(* Types. *)

(* The texts that stand for no record are none. *)
LEMMA Texted ==
  /\ Absent \in Texts /\ Unreadable \in Texts
  /\ Absent \notin Text /\ Unreadable \notin Text /\ Absent # Unreadable
  /\ \A t \in Texts : Says(t) \in Text \union {Absent}
  /\ Text \subseteq Texts
<1>1. Absent.port = 0 /\ Unreadable.port = -1
  BY DEF Absent, Unreadable
<1>2. \A t \in Text : t.port \in Ports
  BY DEF Text
<1>3. 0 \notin Ports /\ -1 \notin Ports
  BY RecordAssumption
<1>4. Absent \notin Text /\ Unreadable \notin Text /\ Absent # Unreadable
  BY <1>1, <1>2, <1>3
<1> QED  BY <1>4 DEF Texts, Says

(* The record that a process writes is one, with its own process and port. *)
LEMMA OwnText ==
  ASSUME TypeOK, NEW p \in Procs
  PROVE  Own(p) \in Text /\ Own(p).by = p /\ Own(p).port = port[p]
BY DEF Own, Text, TypeOK

(* The daemon record starts with its types. *)
LEMMA InitTyped == Init => TypeOK
<1> SUFFICES ASSUME Init PROVE TypeOK
  OBVIOUS
<1>1. name \in Texts
  BY Texted DEF Init, Texts, Text
<1>2. pc \in [Procs -> Pc] /\ port \in [Procs -> Ports]
  BY DEF Init, Pc
<1>3. read \in [Procs -> Texts] /\ taken \in [Procs -> Texts]
  BY Texted DEF Init
<1>4. \A p \in Procs : (taken[p] # Absent <=> pc[p] \in Holding) /\ (pc[p] \in Starting \union Claiming => round[p] < Rounds)
  <2>1. 0 < Rounds
    BY RecordAssumption
  <2> QED  BY <2>1 DEF Init, Holding, Starting, Claiming
<1>5. round \in [Procs -> 0 .. Rounds]
  <2>1. 0 \in 0 .. Rounds
    BY RecordAssumption
  <2> QED  BY <2>1 DEF Init
<1>6. lost \in BOOLEAN /\ left \in Budget
  <2>1. lost = FALSE /\ left \in Budgets
    BY DEF Init
  <2>3. left \in Budget
    BY <2>1, RecordAssumption
  <2>4. lost \in BOOLEAN
    BY <2>1
  <2> QED  BY <2>3, <2>4
<1> QED  BY <1>1, <1>2, <1>3, <1>4, <1>5, <1>6 DEF TypeOK

(* What is spent was there. *)
LEMMA SpendsTyped ==
  ASSUME left \in Budget, NEW b \in Bounded, Spends(b)
  PROVE  left' \in Budget
BY DEF Spends, Budget

(* A read of a file reads a record or none. *)
LEMMA ReadTyped ==
  ASSUME left \in Budget, NEW t \in Texts, NEW x \in {Says(t), Absent}, ReadAs(x, t)
  PROVE  x \in Text \union {Absent} /\ left' \in Budget
BY Texted, SpendsTyped DEF ReadAs, Bounded

(* The shape of the state after a step that moves one process: each variable *)
(* keeps its type, and what the process holds fits where it is.              *)
LEMMA MoveTyped ==
  ASSUME TypeOK, NEW p \in Procs, NEW next \in Pc, Goes(p, next),
         name' \in Texts,
         read' = read \/ (\E x \in Texts : read' = [read EXCEPT ![p] = x]),
         taken' = taken \/ (\E x \in Texts : taken' = [taken EXCEPT ![p] = x]),
         taken'[p] # Absent <=> next \in Holding,
         round' = round \/ (\E n \in 0 .. Rounds : round' = [round EXCEPT ![p] = n]),
         next \in Starting \union Claiming => round'[p] < Rounds,
         lost' \in BOOLEAN, left' \in Budget, port' = port
  PROVE  TypeOK'
<1>1. pc' \in [Procs -> Pc] /\ pc'[p] = next /\ \A q \in Procs \ {p} : pc'[q] = pc[q]
  BY DEF Goes, TypeOK
<1>2. read' \in [Procs -> Texts]
  BY DEF TypeOK
<1>3. taken' \in [Procs -> Texts] /\ \A q \in Procs \ {p} : taken'[q] = taken[q]
  BY DEF TypeOK
<1>4. round' \in [Procs -> 0 .. Rounds] /\ \A q \in Procs \ {p} : round'[q] = round[q]
  BY DEF TypeOK
<1>5. \A q \in Procs : taken'[q] # Absent <=> pc'[q] \in Holding
  BY <1>1, <1>3 DEF TypeOK
<1>6. \A q \in Procs : pc'[q] \in Starting \union Claiming => round'[q] < Rounds
  BY <1>1, <1>4 DEF TypeOK
<1> QED  BY <1>1, <1>2, <1>3, <1>4, <1>5, <1>6 DEF TypeOK, Absent

(* Each step of a process keeps the types. *)
LEMMA StartTyped ==
  ASSUME TypeOK, NEW p \in Procs, Start(p)
  PROVE  TypeOK'
<1>1. CASE Begins(p)
  <2>1. Goes(p, "reads") /\ "reads" \in Pc
    BY <1>1 DEF Begins, Pc
  <2> QED  BY <1>1, <2>1, MoveTyped DEF Begins, Files, TypeOK, Holding, Starting, Claiming
<1>2. CASE Reads(p)
  <2>1. PICK x \in {Says(name), Absent} :
          /\ ReadAs(x, name)
          /\ read' = [read EXCEPT ![p] = x]
          /\ Goes(p, IF x \in Text THEN "probes" ELSE "binds")
    BY <1>2 DEF Reads
  <2>2. x \in Texts /\ left' \in Budget
    BY <2>1, ReadTyped, Texted DEF TypeOK
  <2>3. PICK next \in {"probes", "binds"} : Goes(p, next)
    BY <2>1
  <2>4. next \in Pc /\ next \notin Holding /\ next \notin Claiming
    BY <2>3 DEF Pc, Holding, Claiming
  <2> QED  BY <1>2, <2>1, <2>2, <2>3, <2>4, MoveTyped DEF Reads, Files, TypeOK, Holding, Starting, Claiming
<1>3. CASE Probes(p)
  <2>1. PICK next \in {"refused", "binds"} : Goes(p, next)
    BY <1>3 DEF Probes
  <2>2. next \in Pc /\ next \notin Holding /\ next \notin Claiming
    BY <2>1 DEF Pc, Holding, Claiming
  <2>3. left' \in Budget
    BY <1>3, SpendsTyped DEF Probes, Finds, FindsNone, FindsLate, Bounded, TypeOK
  <2> QED  BY <1>3, <2>1, <2>2, <2>3, MoveTyped DEF Probes, Files, TypeOK, Holding, Starting, Claiming
<1>4. CASE Binds(p)
  <2>1. PICK next \in {"links", "refused", "failed"} : Goes(p, next)
    BY <1>4 DEF Binds
  <2>2. next \in Pc /\ next \notin Holding
    BY <2>1 DEF Pc, Holding
  <2>3. left' \in Budget
    BY <1>4, SpendsTyped DEF Binds, Finds, FindsNone, FindsLate, Bounded, TypeOK
  <2> QED  BY <1>4, <2>1, <2>2, <2>3, MoveTyped DEF Binds, Files, TypeOK, Holding, Starting, Claiming
<1> QED  BY <1>1, <1>2, <1>3, <1>4 DEF Start

(* The end of a round keeps the bound on them. *)
LEMMA RoundTyped ==
  ASSUME TypeOK, NEW p \in Procs, pc[p] \in Claiming, NextRound(p)
  PROVE  \E next \in {"links", "failed"}, n \in 0 .. Rounds :
           /\ Goes(p, next)
           /\ round' = [round EXCEPT ![p] = n]
           /\ next = "links" => round'[p] < Rounds
<1> DEFINE n == round[p] + 1
           next == IF n < Rounds THEN "links" ELSE "failed"
<1>1. round[p] \in 0 .. Rounds /\ round[p] < Rounds /\ Rounds \in Nat
  BY RecordAssumption DEF TypeOK
<1>2. n \in 0 .. Rounds
  BY <1>1
<1>3. round' = [round EXCEPT ![p] = n] /\ round'[p] = n
  BY DEF NextRound, TypeOK
<1>4. Goes(p, next) /\ (next = "links" => n < Rounds)
  BY DEF NextRound
<1> QED  BY <1>2, <1>3, <1>4

LEMMA ClaimTyped ==
  ASSUME TypeOK, NEW p \in Procs, Claim(p)
  PROVE  TypeOK'
<1>1. CASE Links(p)
  <2>1. PICK next \in {"serves", "judges"} : Goes(p, next)
    BY <1>1 DEF Links
  <2>2. next \in Pc /\ next \notin Holding
    BY <2>1 DEF Pc, Holding
  <2>3. name' \in Texts /\ lost' \in BOOLEAN
    BY <1>1, OwnText, Texted DEF Links, TypeOK
  <2> QED  BY <1>1, <2>1, <2>2, <2>3, MoveTyped DEF Links, TypeOK, Holding, Starting, Claiming
<1>2. CASE Judges(p)
  <2>1. PICK x \in {Says(name), Absent} :
          /\ ReadAs(x, name)
          /\ read' = [read EXCEPT ![p] = x]
          /\ Goes(p, IF x \in Text THEN "asks" ELSE "takes")
    BY <1>2 DEF Judges
  <2>2. x \in Texts /\ left' \in Budget
    BY <2>1, ReadTyped, Texted DEF TypeOK
  <2>3. PICK next \in {"asks", "takes"} : Goes(p, next)
    BY <2>1
  <2>4. next \in Pc /\ next \notin Holding
    BY <2>3 DEF Pc, Holding
  <2> QED  BY <1>2, <2>1, <2>2, <2>3, <2>4, MoveTyped DEF Judges, Files, TypeOK, Holding, Starting, Claiming
<1>3. CASE Asks(p)
  <2>1. PICK next \in {"refused", "takes"} : Goes(p, next)
    BY <1>3 DEF Asks
  <2>2. next \in Pc /\ next \notin Holding
    BY <2>1 DEF Pc, Holding
  <2>3. left' \in Budget /\ lost' \in BOOLEAN
    BY <1>3, SpendsTyped DEF Asks, Finds, FindsNone, FindsLate, Bounded, TypeOK
  <2> QED  BY <1>3, <2>1, <2>2, <2>3, MoveTyped DEF Asks, Files, TypeOK, Holding, Starting, Claiming
<1>4. CASE Takes(p)
  <2>1. CASE name = Absent
    <3>1. PICK next \in {"links", "failed"}, n \in 0 .. Rounds :
            /\ Goes(p, next)
            /\ round' = [round EXCEPT ![p] = n]
            /\ next = "links" => round'[p] < Rounds
      BY <1>4, <2>1, RoundTyped DEF Takes, Claiming
    <3>2. next \in Pc /\ next \notin Holding /\ (next = "failed" => next \notin Starting \union Claiming)
      BY DEF Pc, Holding, Starting, Claiming
    <3> QED  BY <1>4, <2>1, <3>1, <3>2, MoveTyped DEF Takes, Files, TypeOK, Holding
  <2>2. CASE name # Absent
    <3>1. Goes(p, "checks") /\ "checks" \in Pc /\ "checks" \in Holding
      BY <1>4, <2>2 DEF Takes, Pc, Holding
    <3>2. taken' = [taken EXCEPT ![p] = name] /\ taken'[p] # Absent
      BY <1>4, <2>2 DEF Takes, TypeOK
    <3> QED  BY <1>4, <2>2, <3>1, <3>2, Texted, MoveTyped DEF Takes, TypeOK, Starting, Claiming
  <2> QED  BY <2>1, <2>2
<1>5. CASE Checks(p)
  <2>1. PICK x \in {Says(taken[p]), Absent} :
          /\ ReadAs(x, taken[p])
          /\ \/ /\ Judged(p, x) /\ Discards(p) /\ NextRound(p)
                /\ lost' = (lost \/ (x # taken[p] /\ Live(taken[p])))
             \/ ~Judged(p, x) /\ Goes(p, "returns") /\ UNCHANGED <<taken, round, lost>>
    BY <1>5 DEF Checks
  <2>2. left' \in Budget
    BY <2>1, ReadTyped DEF TypeOK
  <2>3. CASE Judged(p, x) /\ Discards(p) /\ NextRound(p) /\ lost' = (lost \/ (x # taken[p] /\ Live(taken[p])))
    <3>1. PICK next \in {"links", "failed"}, n \in 0 .. Rounds :
            /\ Goes(p, next)
            /\ round' = [round EXCEPT ![p] = n]
            /\ next = "links" => round'[p] < Rounds
      BY <1>5, <2>3, RoundTyped DEF Checks, Claiming
    <3>2. next \in Pc /\ next \notin Holding /\ (next = "failed" => next \notin Starting \union Claiming)
      BY DEF Pc, Holding, Starting, Claiming
    <3>3. taken' = [taken EXCEPT ![p] = Absent] /\ taken'[p] = Absent /\ lost' \in BOOLEAN
      BY <2>3 DEF Discards, TypeOK
    <3> QED  BY <1>5, <2>2, <3>1, <3>2, <3>3, Texted, MoveTyped DEF Checks, TypeOK
  <2>4. CASE ~Judged(p, x) /\ Goes(p, "returns") /\ UNCHANGED <<taken, round, lost>>
    <3>1. "returns" \in Pc /\ "returns" \in Holding /\ pc[p] \in Holding
      BY <1>5 DEF Checks, Pc, Holding
    <3> QED  BY <1>5, <2>2, <2>4, <3>1, MoveTyped DEF Checks, TypeOK, Claiming
  <2> QED  BY <2>1, <2>3, <2>4
<1>6. CASE Returns(p)
  <2>1. PICK next \in {"links", "failed"}, n \in 0 .. Rounds :
          /\ Goes(p, next)
          /\ round' = [round EXCEPT ![p] = n]
          /\ next = "links" => round'[p] < Rounds
    BY <1>6, RoundTyped DEF Returns, Claiming
  <2>2. next \in Pc /\ next \notin Holding /\ (next = "failed" => next \notin Starting \union Claiming)
    BY DEF Pc, Holding, Starting, Claiming
  <2>3. taken' = [taken EXCEPT ![p] = Absent] /\ taken'[p] = Absent /\ lost' \in BOOLEAN /\ name' \in Texts
    BY <1>6 DEF Returns, PutBack, Discards, TypeOK
  <2> QED  BY <1>6, <2>1, <2>2, <2>3, Texted, MoveTyped DEF Returns, TypeOK
<1> QED  BY <1>1, <1>2, <1>3, <1>4, <1>5, <1>6 DEF Claim

LEMMA StopTyped ==
  ASSUME TypeOK, NEW p \in Procs, Stop(p)
  PROVE  TypeOK'
<1>1. CASE Stops(p)
  <2>1. Goes(p, "drains") /\ "drains" \in Pc /\ left' \in Budget
    BY <1>1, SpendsTyped DEF Stops, Pc, Bounded, TypeOK
  <2> QED  BY <1>1, <2>1, MoveTyped DEF Stops, Files, TypeOK, Holding, Starting, Claiming
<1>2. CASE Drained(p)
  <2>1. Goes(p, "looks") /\ "looks" \in Pc
    BY <1>2 DEF Drained, Pc
  <2> QED  BY <1>2, <2>1, MoveTyped DEF Drained, Files, TypeOK, Holding, Starting, Claiming
<1>3. CASE Looks(p)
  <2>1. PICK x \in {Says(name), Absent} : ReadAs(x, name) /\ Goes(p, IF Mine(p, x) THEN "removes" ELSE "ended")
    BY <1>3 DEF Looks
  <2>2. left' \in Budget
    BY <2>1, ReadTyped DEF TypeOK
  <2>3. PICK next \in {"removes", "ended"} : Goes(p, next)
    BY <2>1
  <2>4. next \in Pc /\ next \notin Holding
    BY DEF Pc, Holding
  <2> QED  BY <1>3, <2>2, <2>3, <2>4, MoveTyped DEF Looks, Files, TypeOK, Holding, Starting, Claiming
<1>4. CASE Removes(p)
  <2>1. CASE name = Absent
    <3>1. Goes(p, "ended") /\ "ended" \in Pc
      BY <1>4, <2>1 DEF Removes, Pc
    <3> QED  BY <1>4, <2>1, <3>1, MoveTyped DEF Removes, Files, TypeOK, Holding, Starting, Claiming
  <2>2. CASE name # Absent
    <3>1. Goes(p, "sorts") /\ "sorts" \in Pc /\ "sorts" \in Holding
      BY <1>4, <2>2 DEF Removes, Pc, Holding
    <3>2. taken' = [taken EXCEPT ![p] = name] /\ taken'[p] # Absent
      BY <1>4, <2>2 DEF Removes, TypeOK
    <3> QED  BY <1>4, <2>2, <3>1, <3>2, Texted, MoveTyped DEF Removes, TypeOK, Starting, Claiming
  <2> QED  BY <2>1, <2>2
<1>5. CASE Sorts(p)
  <2>1. PICK x \in {Says(taken[p]), Absent} :
          /\ ReadAs(x, taken[p])
          /\ \/ Mine(p, x) /\ Discards(p) /\ Goes(p, "ended")
             \/ ~Mine(p, x) /\ Goes(p, "restores") /\ UNCHANGED taken
    BY <1>5 DEF Sorts
  <2>2. left' \in Budget
    BY <2>1, ReadTyped DEF TypeOK
  <2>3. CASE Discards(p) /\ Goes(p, "ended")
    <3>1. "ended" \in Pc /\ taken' = [taken EXCEPT ![p] = Absent] /\ taken'[p] = Absent
      BY <2>3 DEF Discards, Pc, TypeOK
    <3> QED  BY <1>5, <2>2, <2>3, <3>1, Texted, MoveTyped DEF Sorts, TypeOK, Holding, Starting, Claiming
  <2>4. CASE Goes(p, "restores") /\ UNCHANGED taken
    <3>1. "restores" \in Pc /\ "restores" \in Holding /\ pc[p] \in Holding
      BY <1>5 DEF Sorts, Pc, Holding
    <3> QED  BY <1>5, <2>2, <2>4, <3>1, MoveTyped DEF Sorts, TypeOK, Starting, Claiming
  <2> QED  BY <2>1, <2>3, <2>4
<1>6. CASE Restores(p)
  <2>1. Goes(p, "ended") /\ "ended" \in Pc
    BY <1>6 DEF Restores, Pc
  <2>2. taken' = [taken EXCEPT ![p] = Absent] /\ taken'[p] = Absent /\ lost' \in BOOLEAN /\ name' \in Texts
    BY <1>6 DEF Restores, PutBack, Discards, TypeOK
  <2> QED  BY <1>6, <2>1, <2>2, Texted, MoveTyped DEF Restores, TypeOK, Holding, Starting, Claiming
<1> QED  BY <1>1, <1>2, <1>3, <1>4, <1>5, <1>6 DEF Stop

LEMMA FaultTyped ==
  ASSUME TypeOK, NEW p \in Procs, Fails(p) \/ Dies(p)
  PROVE  TypeOK'
<1>1. PICK next \in {"ended", "failed", "dead"} : Goes(p, next)
  BY DEF Fails, Dies
<1>2. next \in Pc /\ next \notin Holding /\ next \notin Starting \union Claiming
  BY DEF Pc, Holding, Starting, Claiming
<1>3. taken' = [taken EXCEPT ![p] = Absent] /\ taken'[p] = Absent /\ lost' \in BOOLEAN
  BY DEF Fails, Dies, Discards, TypeOK
<1>4. left' \in Budget
  BY SpendsTyped DEF Fails, Dies, Bounded, TypeOK
<1>5. name' = name /\ read' = read /\ round' = round /\ port' = port
  BY DEF Fails, Dies
<1> QED  BY <1>1, <1>2, <1>3, <1>4, <1>5, Texted, MoveTyped DEF TypeOK

LEMMA NextTyped == TypeOK /\ [Next]_vars => TypeOK'
<1>1. ASSUME TypeOK, Next PROVE TypeOK'
  BY <1>1, StartTyped, ClaimTyped, StopTyped, FaultTyped DEF Next
<1>2. ASSUME TypeOK, UNCHANGED vars PROVE TypeOK'
  BY <1>2 DEF vars, TypeOK
<1> QED  BY <1>1, <1>2

(* Every variable of the starts and stops keeps its type, a process holds a  *)
(* record only between its take and its return, and no claim goes on past    *)
(* its rounds, for any processes, ports and faults.                          *)
THEOREM RecordTypesHold == Spec => []TypeOK
BY InitTyped, NextTyped, PTL DEF Spec

-----------------------------------------------------------------------------
(* Who serves. *)

(* Where a process is once it has claimed the tree.                          *)
Past == {"serves", "drains", "looks", "removes", "sorts", "restores", "ended", "dead"}

(* A record by a process that starts is its own, and its claim is behind it. *)
IsOwned(t, ports, places) ==
  t.by \in Procs => t = [by |-> t.by, port |-> ports[t.by]] /\ places[t.by] \in Past

OwnTexts ==
  /\ IsOwned(name, port, pc)
  /\ \A p \in Procs : IsOwned(read[p], port, pc) /\ IsOwned(taken[p], port, pc)

(* One process listens on a port. *)
PortsHeld == \A p, q \in Procs : Listens(p) /\ Listens(q) /\ port[p] = port[q] => p = q

(* What a process is about to clear names no daemon. *)
JudgedGone == \A p \in Procs : pc[p] \in {"takes", "checks"} /\ Live(read[p]) => lost

ServesInv == TypeOK /\ OwnTexts /\ PortsHeld /\ JudgedGone /\ RecordStands /\ OneServes

(* A step moves one process. *)
LEMMA StepMoves ==
  ASSUME TypeOK, NEW p \in Procs, Start(p) \/ Claim(p) \/ Stop(p) \/ Fails(p) \/ Dies(p)
  PROVE  /\ port' = port
         /\ \A q \in Procs \ {p} : pc'[q] = pc[q] /\ read'[q] = read[q] /\ taken'[q] = taken[q]
         /\ pc'[p] # pc[p]
         /\ lost => lost'
<1>1. CASE Start(p)
  BY <1>1 DEF Start, Begins, Reads, Probes, Binds, Goes, Files, TypeOK
<1>2. CASE Claim(p)
  BY <1>2 DEF Claim, Links, Judges, Asks, Takes, Checks, Returns, PutBack, Discards, NextRound, Goes, Files, TypeOK
<1>3. CASE Stop(p)
  BY <1>3 DEF Stop, Stops, Drained, Looks, Removes, Sorts, Restores, PutBack, Discards, Goes, Files, TypeOK
<1>4. CASE Fails(p) \/ Dies(p)
  BY <1>4 DEF Fails, Dies, Discards, Goes, Files, TypeOK, Over
<1> QED  BY <1>1, <1>2, <1>3, <1>4

(* A process comes to serve by its claim alone, and what is past stays past. *)
LEMMA StepPast ==
  ASSUME TypeOK, NEW p \in Procs, Start(p) \/ Claim(p) \/ Stop(p) \/ Fails(p) \/ Dies(p)
  PROVE  /\ pc[p] \in Past => pc'[p] \in Past
         /\ pc'[p] = "serves" => Links(p) /\ name = Absent
<1>1. CASE Start(p)
  BY <1>1 DEF Start, Begins, Reads, Probes, Binds, Goes, TypeOK, Past
<1>2. CASE Claim(p)
  BY <1>2 DEF Claim, Links, Judges, Asks, Takes, Checks, Returns, NextRound, Goes, TypeOK, Past
<1>3. CASE Stop(p)
  BY <1>3 DEF Stop, Stops, Drained, Looks, Removes, Sorts, Restores, Goes, TypeOK, Past
<1>4. CASE Fails(p) \/ Dies(p)
  BY <1>4 DEF Fails, Dies, Goes, TypeOK, Past
<1> QED  BY <1>1, <1>2, <1>3, <1>4

LEMMA InitServes == Init => ServesInv
<1> SUFFICES ASSUME Init PROVE ServesInv
  OBVIOUS
<1>1. TypeOK
  BY InitTyped
<1>2. name.by = Nobody /\ Absent.by = Nobody /\ Nobody \notin Procs
  BY RecordAssumption DEF Init, Absent, Unreadable
<1>3. \A p \in Procs : pc[p] = "off" /\ read[p] = Absent /\ taken[p] = Absent
  BY DEF Init
<1>4. OwnTexts
  BY <1>2, <1>3 DEF OwnTexts, IsOwned
<1>5. PortsHeld /\ JudgedGone /\ RecordStands /\ OneServes
  BY <1>3 DEF PortsHeld, JudgedGone, RecordStands, OneServes, Listens, Claiming
<1> QED  BY <1>1, <1>4, <1>5 DEF ServesInv

(* Each step writes only texts that were there, none, or the own record of   *)
(* the process that claims.                                                  *)
LEMMA OwnedStep ==
  ASSUME ServesInv, NEW p \in Procs, Start(p) \/ Claim(p) \/ Stop(p) \/ Fails(p) \/ Dies(p)
  PROVE  OwnTexts'
<1> USE DEF ServesInv
<1>1. \A t : IsOwned(t, port, pc) => IsOwned(t, port', pc')
  BY StepMoves, StepPast DEF IsOwned
<1>2. IsOwned(Absent, port, pc)
  BY RecordAssumption DEF IsOwned, Absent
<1>3. name' \in {name, Absent, taken[p]} \/ (name' = Own(p) /\ pc'[p] = "serves")
  <2>1. CASE Start(p)
    BY <2>1 DEF Start, Begins, Reads, Probes, Binds, Files
  <2>2. CASE Claim(p)
    BY <2>2 DEF Claim, Links, Judges, Asks, Takes, Checks, Returns, PutBack, Files, Goes, TypeOK
  <2>3. CASE Stop(p)
    BY <2>3 DEF Stop, Stops, Drained, Looks, Removes, Sorts, Restores, PutBack, Files
  <2>4. CASE Fails(p) \/ Dies(p)
    BY <2>4 DEF Fails, Dies
  <2> QED  BY <2>1, <2>2, <2>3, <2>4
<1>4. taken'[p] \in {taken[p], Absent, name}
  <2>1. CASE Start(p)
    BY <2>1 DEF Start, Begins, Reads, Probes, Binds, Files
  <2>2. CASE Claim(p)
    BY <2>2 DEF Claim, Links, Judges, Asks, Takes, Checks, Returns, PutBack, Discards, Files, TypeOK
  <2>3. CASE Stop(p)
    BY <2>3 DEF Stop, Stops, Drained, Looks, Removes, Sorts, Restores, PutBack, Discards, Files, TypeOK
  <2>4. CASE Fails(p) \/ Dies(p)
    BY <2>4 DEF Fails, Dies, Discards, TypeOK
  <2> QED  BY <2>1, <2>2, <2>3, <2>4
<1>5. read'[p] \in {read[p], Absent, name}
  <2>1. CASE Start(p)
    BY <2>1 DEF Start, Begins, Reads, Probes, Binds, Says, TypeOK
  <2>2. CASE Claim(p)
    BY <2>2 DEF Claim, Links, Judges, Asks, Takes, Checks, Returns, Says, TypeOK
  <2>3. CASE Stop(p)
    BY <2>3 DEF Stop, Stops, Drained, Looks, Removes, Sorts, Restores
  <2>4. CASE Fails(p) \/ Dies(p)
    BY <2>4 DEF Fails, Dies
  <2> QED  BY <2>1, <2>2, <2>3, <2>4
<1>6. IsOwned(name', port', pc')
  <2>1. CASE name' = Own(p) /\ pc'[p] = "serves"
    BY <2>1, StepMoves DEF IsOwned, Own, Past
  <2> QED  BY <1>1, <1>2, <1>3, <2>1 DEF OwnTexts
<1>7. \A q \in Procs : IsOwned(read'[q], port', pc') /\ IsOwned(taken'[q], port', pc')
  BY <1>1, <1>2, <1>4, <1>5, StepMoves DEF OwnTexts
<1> QED  BY <1>6, <1>7 DEF OwnTexts

(* A process that comes to listen found its port free. *)
LEMMA PortsStep ==
  ASSUME ServesInv, NEW p \in Procs, Start(p) \/ Claim(p) \/ Stop(p) \/ Fails(p) \/ Dies(p)
  PROVE  PortsHeld'
<1> USE DEF ServesInv
<1>1. CASE Listens(p)' => Listens(p)
  BY <1>1, StepMoves DEF PortsHeld, Listens
<1>2. CASE Listens(p)' /\ ~Listens(p)
  <2>1. Binds(p) /\ FindsNone(port[p])
    <3>1. CASE Start(p)
      BY <1>2, <3>1 DEF Start, Begins, Reads, Probes, Binds, Goes, Listens, Claiming, TypeOK
    <3>2. CASE Claim(p)
      BY <1>2, <3>2 DEF Claim, Links, Judges, Asks, Takes, Checks, Returns, Listens, Claiming
    <3>3. CASE Stop(p)
      BY <1>2, <3>3 DEF Stop, Stops, Drained, Looks, Removes, Sorts, Restores, Goes, Listens, Claiming, TypeOK
    <3>4. CASE Fails(p) \/ Dies(p)
      BY <1>2, <3>4 DEF Fails, Dies, Goes, Listens, Claiming, TypeOK
    <3> QED  BY <3>1, <3>2, <3>3, <3>4
  <2>2. \A q \in Procs : Listens(q) => port[q] # port[p]
    BY <2>1 DEF FindsNone, Answers
  <2> QED  BY <2>2, StepMoves DEF PortsHeld, Listens
<1> QED  BY <1>1, <1>2

(* The record that a process is about to clear names no daemon: its port was *)
(* probed and no one listened, and no process serves who did not then.       *)
LEMMA JudgedStep ==
  ASSUME ServesInv, NEW p \in Procs, Start(p) \/ Claim(p) \/ Stop(p) \/ Fails(p) \/ Dies(p)
  PROVE  JudgedGone'
<1> USE DEF ServesInv
<1> SUFFICES ASSUME NEW r \in Procs, pc'[r] \in {"takes", "checks"},
                    NEW q \in Procs, read'[r] = [by |-> q, port |-> port'[q]], pc'[q] = "serves", ~lost'
             PROVE  FALSE
  BY DEF JudgedGone, Live, Own
<1>1. ~lost /\ port' = port
  BY StepMoves
<1>2. Own(q) = [by |-> q, port |-> port[q]] /\ Own(q) # Absent
  BY RecordAssumption DEF Own, Absent
<1>3. q # r
  OBVIOUS
<1>4. CASE pc[q] # "serves"
  <2>1. q = p /\ Links(p)
    BY <1>4, StepMoves, StepPast
  <2>2. read[r] = Own(q)
    BY <2>1, <1>1, <1>2 DEF Links
  <2>3. read[r].by = q /\ IsOwned(read[r], port, pc)
    BY <2>2, OwnText DEF OwnTexts
  <2>4. pc[q] \in Past
    BY <2>3 DEF IsOwned
  <2> QED  BY <2>1, <2>4 DEF Links, Past
<1>5. CASE pc[q] = "serves" /\ r # p
  BY <1>1, <1>2, <1>5, StepMoves DEF JudgedGone, Live
<1>6. CASE pc[q] = "serves" /\ r = p
  <2>1. Judges(p) \/ Asks(p) \/ Takes(p)
    <3>1. ~Start(p)
      BY <1>6 DEF Start, Begins, Reads, Probes, Binds, Goes, TypeOK
    <3>2. ~Stop(p)
      BY <1>6 DEF Stop, Stops, Drained, Looks, Removes, Sorts, Restores, Goes, TypeOK
    <3>3. ~(Fails(p) \/ Dies(p))
      BY <1>6 DEF Fails, Dies, Goes, TypeOK
    <3> QED  BY <1>6, <3>1, <3>2, <3>3 DEF Claim, Links, Checks, Returns, NextRound, Goes, TypeOK
  <2>2. CASE Judges(p)
    <3>1. read'[p] = Absent \/ pc'[p] = "asks"
      BY <2>2 DEF Judges, Says, Goes, TypeOK
    <3> QED  BY <3>1, <1>1, <1>2, <1>6
  <2>3. CASE Takes(p)
    BY <2>3, <1>1, <1>2, <1>6 DEF Takes, JudgedGone, Live
  <2>4. CASE Asks(p)
    <3>1. read[p] = Own(q) /\ read[p].port = port[q] /\ Live(read[p])
      BY <2>4, <1>1, <1>2, <1>6 DEF Asks, Live
    <3>2. Listens(q) /\ Listens(p) /\ Answers(port[q])
      BY <2>4, <1>6 DEF Asks, Listens, Claiming, Answers
    <3>3. port[q] # port[p]
      BY <3>2, <1>3, <1>6 DEF PortsHeld
    <3> QED  BY <2>4, <1>6, <3>1, <3>2, <3>3 DEF Asks, OwnPort, FindsNone, Goes, TypeOK
  <2> QED  BY <2>1, <2>2, <2>3, <2>4
<1> QED  BY <1>4, <1>5, <1>6

(* The record of a daemon that serves goes from the name into one hand, and  *)
(* from there back to the name or is lost.                                   *)
LEMMA StandsStep ==
  ASSUME ServesInv, NEW p \in Procs, Start(p) \/ Claim(p) \/ Stop(p) \/ Fails(p) \/ Dies(p)
  PROVE  RecordStands'
<1> USE DEF ServesInv
<1> SUFFICES ASSUME NEW q \in Procs, pc'[q] = "serves", ~lost',
                    name' # [by |-> q, port |-> port'[q]],
                    \A r \in Procs : taken'[r] # [by |-> q, port |-> port'[q]]
             PROVE  FALSE
  BY DEF RecordStands, Own
<1>1. ~lost /\ port' = port /\ Own(q) = [by |-> q, port |-> port'[q]]
  BY StepMoves DEF Own
<1>2. Own(q).by = q /\ Own(q) # Absent /\ Own(q) \in Text
  BY OwnText, Texted
<1>3. p # q /\ pc[q] = "serves"
  <2>1. CASE p = q
    <3>1. Links(q) /\ name = Absent
      BY <2>1, StepPast
    <3> QED  BY <3>1, <1>1 DEF Links
  <2> QED  BY <2>1, StepMoves
<1>4. name' # Own(q) /\ \A r \in Procs : taken'[r] # Own(q)
  BY <1>1
<1>5. CASE name = Own(q)
  <2>1. CASE Start(p)
    BY <1>4, <1>5, <2>1 DEF Start, Begins, Reads, Probes, Binds, Files
  <2>2. CASE Claim(p)
    BY <1>2, <1>4, <1>5, <2>2 DEF Claim, Links, Judges, Asks, Takes, Checks, Returns, PutBack, Files, TypeOK
  <2>3. CASE Stop(p)
    BY <1>2, <1>4, <1>5, <2>3 DEF Stop, Stops, Drained, Looks, Removes, Sorts, Restores, PutBack, Files, TypeOK
  <2>4. CASE Fails(p) \/ Dies(p)
    BY <1>4, <1>5, <2>4 DEF Fails, Dies
  <2> QED  BY <2>1, <2>2, <2>3, <2>4
<1>6. CASE taken[p] = Own(q)
  <2>1. Live(taken[p])
    BY <1>3, <1>6 DEF Live
  <2>2. pc[p] \in Holding
    BY <1>2, <1>6 DEF TypeOK
  <2>3. taken'[p] # taken[p]
    BY <1>4, <1>6
  <2>4. CASE Start(p)
    BY <2>3, <2>4 DEF Start, Begins, Reads, Probes, Binds, Files
  <2>5. CASE Checks(p)
    <3>1. PICK x \in {Says(taken[p]), Absent} : Judged(p, x) /\ lost' = (lost \/ (x # taken[p] /\ Live(taken[p])))
      BY <2>3, <2>5 DEF Checks
    <3>2. read[p] = taken[p]
      BY <3>1, <2>1, <1>1 DEF Judged
    <3> QED  BY <3>2, <2>1, <2>5, <1>1 DEF JudgedGone, Checks
  <2>6. CASE Sorts(p)
    <3>1. PICK x \in {Says(taken[p]), Absent} : Mine(p, x)
      BY <2>3, <2>6 DEF Sorts
    <3>2. x.by = q \/ x.by = Nobody
      BY <1>2, <1>6 DEF Says, Absent
    <3> QED  BY <3>1, <3>2, <1>3, RecordAssumption DEF Mine
  <2>7. CASE Returns(p) \/ Restores(p)
    BY <2>1, <2>7, <1>1, <1>4, <1>6 DEF Returns, Restores, PutBack
  <2>8. CASE Fails(p) \/ Dies(p)
    BY <2>1, <2>8, <1>1 DEF Fails, Dies
  <2>9. CASE Links(p) \/ Judges(p) \/ Asks(p) \/ Takes(p) \/ Stops(p) \/ Drained(p) \/ Looks(p) \/ Removes(p)
    BY <2>2, <2>9 DEF Links, Judges, Asks, Takes, Stops, Drained, Looks, Removes, Holding
  <2> QED  BY <2>4, <2>5, <2>6, <2>7, <2>8, <2>9 DEF Claim, Stop
<1>7. CASE \E r \in Procs \ {p} : taken[r] = Own(q)
  BY <1>4, <1>7, StepMoves
<1> QED  BY <1>1, <1>3, <1>5, <1>6, <1>7 DEF RecordStands

(* A claim finds the name free: then no daemon serves, or one whose record   *)
(* is in a hand and has no name to return to.                                *)
LEMMA OneStep ==
  ASSUME ServesInv, NEW p \in Procs, Start(p) \/ Claim(p) \/ Stop(p) \/ Fails(p) \/ Dies(p)
  PROVE  OneServes'
<1> USE DEF ServesInv
<1> SUFFICES ASSUME ~lost', NEW q \in Procs, NEW r \in Procs,
                    pc'[q] = "serves", pc'[r] = "serves", q # r
             PROVE  FALSE
  BY DEF OneServes
<1>1. ~lost
  BY StepMoves
<1>2. CASE pc[q] = "serves" /\ pc[r] = "serves"
  BY <1>1, <1>2 DEF OneServes
<1>3. ASSUME NEW s \in Procs, s # p, pc[s] = "serves", pc'[p] = "serves"
      PROVE  FALSE
  <2>1. Links(p) /\ name = Absent
    BY <1>3, StepPast
  <2>2. PICK u \in Procs : taken[u] = Own(s)
    BY <1>1, <1>3, <2>1, OwnText, Texted DEF RecordStands
  <2>3. Live(taken[u])
    BY <1>3, <2>2 DEF Live
  <2> QED  BY <2>1, <2>3 DEF Links
<1>4. CASE p = q
  BY <1>3, <1>4, StepMoves
<1>5. CASE p = r
  BY <1>3, <1>5, StepMoves
<1> QED  BY <1>2, <1>4, <1>5, StepMoves

LEMMA NextServes == ServesInv /\ [Next]_vars => ServesInv'
<1> SUFFICES ASSUME ServesInv, [Next]_vars PROVE ServesInv'
  OBVIOUS
<1>1. CASE Next
  <2>1. PICK p \in Procs : Start(p) \/ Claim(p) \/ Stop(p) \/ Fails(p) \/ Dies(p)
    BY <1>1 DEF Next
  <2>2. TypeOK'
    BY <1>1, NextTyped DEF ServesInv
  <2> QED  BY <2>1, <2>2, OwnedStep, PortsStep, JudgedStep, StandsStep, OneStep DEF ServesInv
<1>2. CASE UNCHANGED vars
  <2>1. TypeOK'
    BY <1>2, NextTyped DEF ServesInv
  <2>2. OwnTexts'
    BY <1>2 DEF vars, ServesInv, OwnTexts, IsOwned
  <2>3. PortsHeld' /\ JudgedGone' /\ RecordStands' /\ OneServes'
    BY <1>2 DEF vars, ServesInv, PortsHeld, Listens, JudgedGone, Live, RecordStands, OneServes, Own
  <2> QED  BY <2>1, <2>2, <2>3 DEF ServesInv
<1> QED  BY <1>1, <1>2

(* The inductive invariant of who serves: each text of a process that starts *)
(* is its own record, written by its claim; one process listens on a port;   *)
(* what is about to be cleared names no daemon.                              *)
THEOREM ServesHold == Spec => []ServesInv
BY InitServes, NextServes, PTL DEF Spec

(* The record of a daemon that serves stands, or is in the hand of a process *)
(* that will put it back, until it is lost.                                  *)
THEOREM RecordStandsHolds == Spec => []RecordStands
<1>1. ServesInv => RecordStands
  BY DEF ServesInv
<1> QED  BY <1>1, ServesHold, PTL

(* Two daemons serve one tree only after the record of one was lost, for any *)
(* number of starts, stops, deaths, late answers and failing calls.          *)
THEOREM OneServesHolds == Spec => []OneServes
<1>1. ServesInv => OneServes
  BY DEF ServesInv
<1> QED  BY <1>1, ServesHold, PTL

-----------------------------------------------------------------------------
(* Who was refused. *)

(* What has a port at some time, and what became of it. *)
Came == Claiming \union Past \union {"failed"}

(* The strengthening of RefusedForOne: for a start that was refused there is *)
(* a process that has a port or had one.                                     *)
RefusedForSome == (\E p \in Procs : pc[p] = "refused") => \E q \in Procs : pc[q] \in Came

(* A start is refused by another process, which listens.  A claim asks no    *)
(* port of its own.                                                          *)
LEMMA RefusedByAnother ==
  ASSUME TypeOK, NEW p \in Procs, Start(p) \/ Claim(p) \/ Stop(p) \/ Fails(p) \/ Dies(p), pc'[p] = "refused"
  PROVE  \E q \in Procs \ {p} : Listens(q)
<1>1. CASE Start(p)
  <2>1. pc[p] \in {"probes", "binds"} /\ \E n \in {read[p].port, port[p]} : Answers(n)
    BY <1>1 DEF Start, Begins, Reads, Probes, Binds, Goes, TypeOK, Finds, FindsNone, FindsLate
  <2>2. ~Listens(p)
    BY <2>1 DEF Listens, Claiming
  <2> QED  BY <2>1, <2>2 DEF Answers
<1>2. CASE Claim(p)
  <2>1. ~OwnPort(p, read[p].port) /\ Answers(read[p].port)
    BY <1>2 DEF Claim, Links, Judges, Asks, Takes, Checks, Returns, NextRound, Goes, TypeOK, Finds, FindsNone, FindsLate
  <2> QED  BY <2>1 DEF Answers, OwnPort
<1>3. CASE Stop(p)
  BY <1>3 DEF Stop, Stops, Drained, Looks, Removes, Sorts, Restores, Goes, TypeOK
<1>4. CASE Fails(p) \/ Dies(p)
  BY <1>4 DEF Fails, Dies, Goes, TypeOK
<1> QED  BY <1>1, <1>2, <1>3, <1>4

(* What came goes only where it was refused. *)
LEMMA CameOrRefused ==
  ASSUME TypeOK, NEW p \in Procs, Start(p) \/ Claim(p) \/ Stop(p) \/ Fails(p) \/ Dies(p), pc[p] \in Came
  PROVE  pc'[p] \in Came \union {"refused"}
<1>1. CASE Start(p)
  BY <1>1 DEF Start, Begins, Reads, Probes, Binds, Goes, TypeOK, Came, Claiming, Past
<1>2. CASE Claim(p)
  BY <1>2 DEF Claim, Links, Judges, Asks, Takes, Checks, Returns, NextRound, Goes, TypeOK, Came, Claiming, Past
<1>3. CASE Stop(p)
  BY <1>3 DEF Stop, Stops, Drained, Looks, Removes, Sorts, Restores, Goes, TypeOK, Came, Claiming, Past
<1>4. CASE Fails(p) \/ Dies(p)
  BY <1>4 DEF Fails, Dies, Goes, TypeOK, Came, Claiming, Past
<1> QED  BY <1>1, <1>2, <1>3, <1>4

(* No step leaves a refused start with nobody who came. *)
LEMMA NextRefused == TypeOK /\ RefusedForSome /\ [Next]_vars => RefusedForSome'
<1> SUFFICES ASSUME TypeOK, RefusedForSome, [Next]_vars, \E r \in Procs : pc'[r] = "refused"
             PROVE  \E q \in Procs : pc'[q] \in Came
  BY DEF RefusedForSome
<1>1. CASE Next
  <2>1. PICK p \in Procs : Start(p) \/ Claim(p) \/ Stop(p) \/ Fails(p) \/ Dies(p)
    BY <1>1 DEF Next
  <2>2. \A q \in Procs \ {p} : pc'[q] = pc[q]
    BY <2>1, StepMoves
  <2>3. CASE pc'[p] = "refused"
    <3>1. PICK q \in Procs \ {p} : Listens(q)
      BY <2>1, <2>3, RefusedByAnother
    <3> QED  BY <2>2, <3>1 DEF Listens, Came, Past
  <2>4. CASE pc'[p] # "refused"
    <3>1. PICK q \in Procs : pc[q] \in Came
      BY <2>2, <2>4 DEF RefusedForSome
    <3> QED  BY <2>1, <2>2, <2>4, <3>1, CameOrRefused
  <2> QED  BY <2>3, <2>4
<1>2. CASE UNCHANGED vars
  BY <1>2 DEF vars, RefusedForSome
<1> QED  BY <1>1, <1>2

(* A start stands down only for a process that came to serve, or failed or   *)
(* died on its way: no record that a dead daemon left, and no two starts     *)
(* that meet, keep a tree closed.                                            *)
THEOREM RefusedForOneHolds == Spec => []RefusedForOne
<1>1. Init => RefusedForSome
  BY DEF Init, RefusedForSome
<1>2. RefusedForSome => RefusedForOne
  BY DEF RefusedForSome, RefusedForOne, Came, Claiming, Past, Over
<1> QED  BY <1>1, <1>2, NextRefused, RecordTypesHold, PTL DEF Spec
=============================================================================
