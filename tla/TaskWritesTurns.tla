-------------------------- MODULE TaskWritesTurns --------------------------
(***************************************************************************)
(* Proofs about the write queue: its type invariant, that one write at a   *)
(* time is inside a key, in the order of arrival, that an idle queue holds *)
(* no key, and that the queue implements WriteTurns.  Then proofs about    *)
(* the writes of tasks: they use the queue as WriteQueue says, and no      *)
(* write takes another one away.                                           *)
(***************************************************************************)
EXTENDS TaskWrites, TLAPS

-----------------------------------------------------------------------------
(* The invariant of the queue. *)

(* The turns of a key end in the order of their numbers, and the map holds the *)
(* last one unless all have ended.                                             *)
TurnsOf(k) ==
  /\ turns[k] \in {0, issued[k]}
  /\ ended[k] \subseteq 1 .. issued[k]
  /\ \A n \in ended[k] : \A m \in 1 .. n : m \in ended[k]
  /\ turns[k] = 0 => \A n \in 1 .. issued[k] : n \in ended[k]
  /\ turns[k] \notin ended[k]

(* Each turn that has not ended is the turn of exactly one call. *)
OwnersOf(k) ==
  /\ \A c \in Calls : mine[c][k] # 0 => mine[c][k] \in 1 .. issued[k] /\ mine[c][k] \notin ended[k]
  /\ \A c, d \in Calls : mine[c][k] # 0 /\ mine[c][k] = mine[d][k] => c = d
  /\ \A n \in 1 .. issued[k] : n \notin ended[k] => \E c \in Calls : mine[c][k] = n

EndedBefore(k, n) == \A m \in 1 .. (n - 1) : m \in ended[k]

(* A call that waits awaits the turn right before its own, or none is left. *)
WaitOf(c) ==
  at[c] = "waits" =>
    /\ wait[c].key \in Keys
    /\ mine[c][wait[c].key] # 0
    /\ wait[c].ahead = 0 => EndedBefore(wait[c].key, mine[c][wait[c].key])
    /\ wait[c].ahead # 0 => wait[c].ahead = mine[c][wait[c].key] - 1

KeysOf(c) ==
  /\ at[c] = "out" => \A k \in Keys : mine[c][k] = 0
  /\ \A k \in todo[c] : mine[c][k] = 0

(* The invariant of the proofs. *)
TurnInv ==
  /\ QueueTypeOK
  /\ \A k \in Keys : TurnsOf(k) /\ OwnersOf(k)
  /\ \A c \in Calls : WaitOf(c) /\ KeysOf(c)
  /\ InOrder

(* No turn was taken yet. *)
LEMMA InitTurns == QueueInit => TurnInv
  BY QueueAssumption DEF QueueInit, TurnInv, QueueTypeOK, TurnsOf, OwnersOf, WaitOf, KeysOf, InOrder, Holds, Taken

(* What a call knows once it may go on: every turn before its own has ended. *)
LEMMA AheadEndedMeans ==
  ASSUME TurnInv, NEW c \in Calls, at[c] = "waits", AheadEnded(c)
  PROVE  EndedBefore(wait[c].key, mine[c][wait[c].key])
<1> DEFINE k == wait[c].key
<1> DEFINE n == mine[c][k]
<1>1. k \in Keys /\ n \in Nat /\ n # 0 /\ wait[c].ahead \in Nat
  BY DEF TurnInv, QueueTypeOK, WaitOf
<1>2. CASE wait[c].ahead = 0
  BY <1>2 DEF TurnInv, WaitOf
<1>3. CASE wait[c].ahead # 0
  <2>1. n - 1 \in ended[k]
    BY <1>3 DEF AheadEnded, TurnInv, WaitOf
  <2>2. \A m \in 1 .. (n - 1) : m \in ended[k]
    BY <1>1, <2>1 DEF TurnInv, TurnsOf
  <2> QED  BY <2>2 DEF EndedBefore
<1> QED  BY <1>2, <1>3

(* A call takes a turn: it is free of the key, and every turn that it leaves *)
(* behind in other keys has come.                                            *)
LEMMA RunKeeps ==
  ASSUME TurnInv, NEW c \in Calls, NEW k \in Keys, NEW rest \in SUBSET Keys,
         mine[c][k] = 0, k \notin rest, \A j \in rest : mine[c][j] = 0,
         at[c] = "out" \/ (at[c] = "waits" /\ AheadEnded(c)),
         Run(c, k), todo' = [todo EXCEPT ![c] = rest]
  PROVE  TurnInv'
<1> DEFINE n == issued[k] + 1
<1>0. QueueTypeOK /\ Keys \subseteq Nat
  BY QueueAssumption DEF TurnInv
<1>1. /\ issued' = [issued EXCEPT ![k] = n]
      /\ turns' = [turns EXCEPT ![k] = n]
      /\ mine' = [mine EXCEPT ![c][k] = n]
      /\ wait' = [wait EXCEPT ![c] = [key |-> k, ahead |-> turns[k]]]
      /\ at' = [at EXCEPT ![c] = "waits"]
      /\ ended' = ended
  BY DEF Run
<1>2. n \in Nat /\ n # 0 /\ n \notin ended[k] /\ issued[k] \in Nat
  BY <1>0 DEF QueueTypeOK, TurnInv, TurnsOf
<1>3. QueueTypeOK'
  BY <1>0, <1>1, <1>2 DEF QueueTypeOK
<1>4. mine'[c][k] = n /\ \A d \in Calls : \A j \in Keys : (d # c \/ j # k) => mine'[d][j] = mine[d][j]
  BY <1>0, <1>1 DEF QueueTypeOK
<1>5. /\ issued'[k] = n /\ turns'[k] = n
      /\ \A j \in Keys : j # k => issued'[j] = issued[j] /\ turns'[j] = turns[j]
  BY <1>0, <1>1 DEF QueueTypeOK
<1>6. ASSUME NEW j \in Keys  PROVE TurnsOf(j)'
  <2>1. TurnsOf(j)
    BY DEF TurnInv
  <2>2. CASE j = k
    BY <2>1, <2>2, <1>1, <1>2, <1>5 DEF TurnsOf
  <2>3. CASE j # k
    BY <2>1, <2>3, <1>1, <1>5 DEF TurnsOf
  <2> QED  BY <2>2, <2>3
<1>7. ASSUME NEW j \in Keys  PROVE OwnersOf(j)'
  <2>1. OwnersOf(j)
    BY DEF TurnInv
  <2>2. CASE j # k
    BY <2>1, <2>2, <1>1, <1>4, <1>5 DEF OwnersOf
  <2>3. CASE j = k
    <3>1. \A d \in Calls : mine'[d][k] # 0 => mine'[d][k] \in 1 .. n /\ mine'[d][k] \notin ended[k]
      BY <2>1, <2>3, <1>2, <1>4 DEF OwnersOf
    <3>2. \A d \in Calls : d # c => mine'[d][k] # n
      BY <2>1, <2>3, <1>2, <1>4 DEF OwnersOf
    <3>3. ASSUME NEW m \in 1 .. n, m \notin ended[k]
          PROVE \E d \in Calls : mine'[d][k] = m
      <4>1. CASE m = n
        BY <4>1, <1>4
      <4>2. CASE m # n
        <5>1. m \in 1 .. issued[k]
          BY <4>2, <1>2
        <5>2. PICK d \in Calls : mine[d][k] = m
          BY <5>1, <3>3, <2>1, <2>3 DEF OwnersOf
        <5>3. d # c
          BY <5>1, <5>2
        <5> QED  BY <5>2, <5>3, <1>4
      <4> QED  BY <4>1, <4>2
    <3>4. \A d, e \in Calls : mine'[d][k] # 0 /\ mine'[d][k] = mine'[e][k] => d = e
      BY <3>2, <2>1, <2>3, <1>4 DEF OwnersOf
    <3> QED  BY <3>1, <3>3, <3>4, <2>3, <1>1, <1>5 DEF OwnersOf
  <2> QED  BY <2>2, <2>3
<1>8. ASSUME NEW d \in Calls  PROVE WaitOf(d)'
  <2>1. CASE d = c
    <3>1. wait'[c].key = k /\ wait'[c].ahead = turns[k]
      BY <1>0, <1>1 DEF QueueTypeOK
    <3>2. turns[k] = 0 => \A m \in 1 .. (n - 1) : m \in ended'[k]
      BY <1>1, <1>2 DEF TurnInv, TurnsOf
    <3>3. turns[k] # 0 => turns[k] = n - 1
      BY <1>2 DEF TurnInv, TurnsOf
    <3>4. mine'[c][wait'[c].key] = n
      BY <3>1, <1>4
    <3> QED  BY <2>1, <3>1, <3>2, <3>3, <3>4, <1>2 DEF WaitOf, EndedBefore
  <2>2. CASE d # c
    <3>1. wait'[d] = wait[d] /\ at'[d] = at[d]
      BY <2>2, <1>0, <1>1 DEF QueueTypeOK
    <3>2. \A j \in Keys : mine'[d][j] = mine[d][j]
      BY <2>2, <1>4
    <3> QED  BY <3>1, <3>2, <1>1 DEF TurnInv, WaitOf, EndedBefore
  <2> QED  BY <2>1, <2>2
<1>9. ASSUME NEW d \in Calls  PROVE KeysOf(d)'
  BY <1>0, <1>1, <1>4 DEF TurnInv, QueueTypeOK, KeysOf
<1>10. InOrder'
  <2> SUFFICES ASSUME NEW d \in Calls, NEW j \in Keys, Holds(d, j)'
               PROVE  EndedBefore(j, mine'[d][j])
    BY <1>1 DEF InOrder, EndedBefore
  <2>1. CASE d # c
    <3>1. Holds(d, j)
      BY <2>1, <1>0, <1>1, <1>4 DEF Holds, Taken, Waits, QueueTypeOK
    <3> QED  BY <3>1, <2>1, <1>4 DEF TurnInv, InOrder, EndedBefore
  <2>2. CASE d = c
    <3>1. j # k
      BY <2>2, <1>0, <1>1 DEF Holds, Waits, QueueTypeOK
    <3>2. mine'[c][j] = mine[c][j] /\ mine[c][j] # 0
      BY <3>1, <2>2, <1>4 DEF Holds, Taken
    <3>3. CASE Holds(c, j)
      BY <3>2, <3>3, <2>2 DEF TurnInv, InOrder, EndedBefore
    <3>4. CASE ~Holds(c, j)
      <4>1. at[c] = "waits" /\ wait[c].key = j
        BY <3>2, <3>4 DEF Holds, Taken, Waits
      <4>2. EndedBefore(wait[c].key, mine[c][wait[c].key])
        BY <4>1, AheadEndedMeans
      <4> QED  BY <4>1, <4>2, <3>2, <2>2
    <3> QED  BY <3>3, <3>4
  <2> QED  BY <2>1, <2>2
<1> QED  BY <1>3, <1>6, <1>7, <1>8, <1>9, <1>10 DEF TurnInv

(* The write of the call begins: nothing changes but where it is. *)
LEMMA BeginKeeps ==
  ASSUME TurnInv, NEW c \in Calls,
         at[c] = "out" \/ (at[c] = "waits" /\ AheadEnded(c)),
         at' = [at EXCEPT ![c] = "writes"],
         UNCHANGED <<turns, issued, ended, todo, mine, wait>>
  PROVE  TurnInv'
<1>1. QueueTypeOK'
  BY DEF TurnInv, QueueTypeOK
<1>2. \A k \in Keys : TurnsOf(k)' /\ OwnersOf(k)'
  BY DEF TurnInv, TurnsOf, OwnersOf
<1>3. at'[c] = "writes" /\ \A d \in Calls : d # c => at'[d] = at[d]
  BY DEF TurnInv, QueueTypeOK
<1>4. ASSUME NEW d \in Calls  PROVE WaitOf(d)' /\ KeysOf(d)'
  <2>1. CASE d = c
    BY <2>1, <1>3 DEF TurnInv, WaitOf, KeysOf
  <2>2. CASE d # c
    BY <2>2, <1>3 DEF TurnInv, WaitOf, KeysOf, EndedBefore
  <2> QED  BY <2>1, <2>2
<1>5. InOrder'
  <2> SUFFICES ASSUME NEW d \in Calls, NEW j \in Keys, Holds(d, j)'
               PROVE  EndedBefore(j, mine[d][j])
    BY DEF InOrder, EndedBefore
  <2>1. CASE Holds(d, j)
    BY <2>1 DEF TurnInv, InOrder, EndedBefore
  <2>2. CASE ~Holds(d, j)
    <3>1. d = c /\ at[c] = "waits" /\ wait[c].key = j
      BY <2>2, <1>3 DEF Holds, Taken, Waits
    <3> QED  BY <3>1, AheadEndedMeans
  <2> QED  BY <2>1, <2>2
<1> QED  BY <1>1, <1>2, <1>4, <1>5 DEF TurnInv

(* Both are what the write of a run can be. *)
LEMMA InnerKeeps ==
  ASSUME TurnInv, NEW c \in Calls, NEW keys \in SUBSET Keys,
         \A j \in keys : mine[c][j] = 0,
         at[c] = "out" \/ (at[c] = "waits" /\ AheadEnded(c)),
         Inner(c, keys)
  PROVE  TurnInv'
<1>1. CASE keys = {} /\ at' = [at EXCEPT ![c] = "writes"]
           /\ UNCHANGED <<turns, issued, ended, todo, mine, wait>>
  BY <1>1, BeginKeeps
<1>2. ASSUME NEW k \in Keys, Least(keys, k), todo' = [todo EXCEPT ![c] = keys \ {k}], Run(c, k)
      PROVE  TurnInv'
  <2>1. k \in keys /\ mine[c][k] = 0
    BY <1>2 DEF Least
  <2> DEFINE rest == keys \ {k}
  <2>2. rest \in SUBSET Keys /\ k \notin rest /\ \A j \in rest : mine[c][j] = 0
    OBVIOUS
  <2>3. todo' = [todo EXCEPT ![c] = rest]
    BY <1>2
  <2> HIDE DEF rest
  <2> QED  BY <1>2, <2>1, <2>2, <2>3, RunKeeps
<1> QED  BY <1>1, <1>2 DEF Inner

(* A call begins. *)
LEMMA RunAllKeeps ==
  ASSUME TurnInv, NEW c \in Calls, NEW keys \in SUBSET Keys, RunAll(c, keys)
  PROVE  TurnInv'
<1>1. at[c] = "out" /\ Inner(c, keys)
  BY DEF RunAll
<1>2. \A j \in keys : mine[c][j] = 0
  BY <1>1 DEF TurnInv, KeysOf
<1> QED  BY <1>1, <1>2, InnerKeeps

(* A wait is over. *)
LEMMA EnterKeeps ==
  ASSUME TurnInv, NEW c \in Calls, Enter(c)
  PROVE  TurnInv'
<1>1. at[c] = "waits" /\ AheadEnded(c) /\ Inner(c, todo[c])
  BY DEF Enter
<1>2. todo[c] \in SUBSET Keys /\ \A j \in todo[c] : mine[c][j] = 0
  BY DEF TurnInv, QueueTypeOK, KeysOf
<1> QED  BY <1>1, <1>2, InnerKeeps

(* A write ends; its turns are still taken. *)
LEMMA WriteEndsKeeps ==
  ASSUME TurnInv, NEW c \in Calls, WriteEnds(c)
  PROVE  TurnInv'
<1>1. /\ at[c] = "writes" /\ at'[c] \in {"out", "leaves"} /\ at' \in [Calls -> {"out", "waits", "writes", "leaves"}]
      /\ at'[c] = "out" => Taken(c) = {}
      /\ \A d \in Calls : d # c => at'[d] = at[d]
      /\ UNCHANGED <<turns, issued, ended, todo, mine, wait>>
  BY DEF WriteEnds, TurnInv, QueueTypeOK
<1>2. QueueTypeOK'
  BY <1>1 DEF TurnInv, QueueTypeOK
<1>3. \A k \in Keys : TurnsOf(k)' /\ OwnersOf(k)'
  BY <1>1 DEF TurnInv, TurnsOf, OwnersOf
<1>4. ASSUME NEW d \in Calls  PROVE WaitOf(d)' /\ KeysOf(d)'
  BY <1>1 DEF TurnInv, WaitOf, KeysOf, EndedBefore, Taken
<1>5. InOrder'
  BY <1>1 DEF TurnInv, InOrder, Holds, Taken, Waits
<1> QED  BY <1>2, <1>3, <1>4, <1>5 DEF TurnInv

(* The turn that ends is the first of its key that had not. *)
LEMMA LeaveKeeps ==
  ASSUME TurnInv, NEW c \in Calls, Leave(c)
  PROVE  TurnInv'
<1>1. PICK k \in Keys :
        /\ k \in Taken(c)
        /\ ended' = [ended EXCEPT ![k] = @ \union {mine[c][k]}]
        /\ turns' = WithoutTurn(k, mine[c][k])
        /\ mine' = [mine EXCEPT ![c][k] = 0]
        /\ at' = [at EXCEPT ![c] = IF Taken(c) = {k} THEN "out" ELSE @]
  BY DEF Leave, Greatest
<1> DEFINE n == mine[c][k]
<1>2. QueueTypeOK /\ at[c] = "leaves" /\ UNCHANGED <<issued, todo, wait>>
  BY DEF Leave, TurnInv
<1>3. n \in 1 .. issued[k] /\ n \notin ended[k] /\ n # 0 /\ n \in Nat /\ issued[k] \in Nat
  BY <1>1, <1>2 DEF Taken, TurnInv, OwnersOf, QueueTypeOK
<1>4. EndedBefore(k, n)
  <2>1. Holds(c, k)
    BY <1>1, <1>2 DEF Holds, Waits
  <2> QED  BY <2>1 DEF TurnInv, InOrder, EndedBefore
<1>5. /\ ended'[k] = ended[k] \union {n}
      /\ turns'[k] = (IF turns[k] = n THEN 0 ELSE turns[k])
      /\ \A j \in Keys : j # k => ended'[j] = ended[j] /\ turns'[j] = turns[j]
      /\ turns' \in [Keys -> Nat]
  BY <1>1, <1>2 DEF QueueTypeOK, WithoutTurn
<1>6. mine'[c][k] = 0 /\ \A d \in Calls : \A j \in Keys : (d # c \/ j # k) => mine'[d][j] = mine[d][j]
  BY <1>1, <1>2 DEF QueueTypeOK
<1>7. /\ at'[c] \in {"out", "leaves"}
      /\ at'[c] = "out" => Taken(c) = {k}
      /\ at' \in [Calls -> {"out", "waits", "writes", "leaves"}]
      /\ \A d \in Calls : d # c => at'[d] = at[d]
  BY <1>1, <1>2 DEF QueueTypeOK
<1>8. QueueTypeOK'
  BY <1>1, <1>2, <1>3, <1>5, <1>7 DEF QueueTypeOK
<1>9. ASSUME NEW j \in Keys  PROVE TurnsOf(j)'
  <2>1. TurnsOf(j)
    BY DEF TurnInv
  <2>2. CASE j # k
    BY <2>1, <2>2, <1>2, <1>5 DEF TurnsOf
  <2>3. CASE j = k
    <3>1. \A m \in 1 .. n : m \in ended'[k]
      BY <1>3, <1>4, <1>5 DEF EndedBefore
    <3>2. \A i \in ended'[k] : \A m \in 1 .. i : m \in ended'[k]
      BY <3>1, <1>5, <2>1, <2>3 DEF TurnsOf
    <3>3. CASE turns[k] = n
      <4>1. n = issued[k] /\ turns'[k] = 0
        BY <3>3, <2>1, <2>3, <1>3, <1>5 DEF TurnsOf
      <4>2. 0 \notin ended'[k]
        BY <2>1, <2>3, <1>3, <1>5 DEF TurnsOf
      <4>3. ended'[k] \subseteq 1 .. issued[k]
        BY <2>1, <2>3, <1>3, <1>5 DEF TurnsOf
      <4> QED  BY <4>1, <4>2, <4>3, <3>1, <3>2, <2>3, <1>2 DEF TurnsOf
    <3>4. CASE turns[k] # n
      <4>1. turns'[k] = turns[k] /\ turns[k] # 0
        BY <3>4, <2>1, <2>3, <1>3, <1>5 DEF TurnsOf
      <4> QED  BY <4>1, <3>2, <3>4, <2>1, <2>3, <1>2, <1>3, <1>5 DEF TurnsOf
    <3> QED  BY <3>3, <3>4
  <2> QED  BY <2>2, <2>3
<1>10. ASSUME NEW j \in Keys  PROVE OwnersOf(j)'
  <2>1. OwnersOf(j)
    BY DEF TurnInv
  <2>2. CASE j # k
    BY <2>1, <2>2, <1>2, <1>5, <1>6 DEF OwnersOf
  <2>3. CASE j = k
    <3>1. \A d \in Calls : mine'[d][k] # 0 =>
            d # c /\ mine'[d][k] = mine[d][k] /\ mine[d][k] # n
      BY <2>1, <2>3, <1>3, <1>6 DEF OwnersOf
    <3>2. \A d \in Calls : mine'[d][k] # 0 => mine'[d][k] \in 1 .. issued[k] /\ mine'[d][k] \notin ended'[k]
      BY <3>1, <2>1, <2>3, <1>5 DEF OwnersOf
    <3>3. \A d, e \in Calls : mine'[d][k] # 0 /\ mine'[d][k] = mine'[e][k] => d = e
      BY <3>1, <2>1, <2>3 DEF OwnersOf
    <3>4. ASSUME NEW m \in 1 .. issued[k], m \notin ended'[k]
          PROVE  \E d \in Calls : mine'[d][k] = m
      <4>1. m \notin ended[k] /\ m # n
        BY <3>4, <1>5
      <4>2. PICK d \in Calls : mine[d][k] = m
        BY <4>1, <2>1, <2>3 DEF OwnersOf
      <4> QED  BY <4>1, <4>2, <1>6
    <3> QED  BY <3>2, <3>3, <3>4, <2>3, <1>2 DEF OwnersOf
  <2> QED  BY <2>2, <2>3
<1>11. ASSUME NEW j \in Keys, NEW m \in Nat, EndedBefore(j, m)  PROVE EndedBefore(j, m)'
  BY <1>5, <1>11 DEF EndedBefore
<1>12. ASSUME NEW d \in Calls  PROVE WaitOf(d)' /\ KeysOf(d)'
  <2>1. CASE d = c
    <3>1. WaitOf(d)'
      BY <2>1, <1>7 DEF WaitOf
    <3>2. KeysOf(d)'
      BY <2>1, <1>2, <1>6, <1>7 DEF TurnInv, KeysOf, Taken, QueueTypeOK
    <3> QED  BY <3>1, <3>2
  <2>2. CASE d # c
    <3>1. wait'[d] = wait[d] /\ at'[d] = at[d] /\ \A j \in Keys : mine'[d][j] = mine[d][j] /\ mine[d][j] \in Nat
      BY <2>2, <1>2, <1>6, <1>7 DEF QueueTypeOK
    <3>2. WaitOf(d)'
      BY <3>1, <1>11 DEF TurnInv, WaitOf
    <3>3. KeysOf(d)'
      BY <3>1, <1>2 DEF TurnInv, KeysOf, QueueTypeOK
    <3> QED  BY <3>2, <3>3
  <2> QED  BY <2>1, <2>2
<1>13. InOrder'
  <2> SUFFICES ASSUME NEW d \in Calls, NEW j \in Keys, Holds(d, j)'
               PROVE  \A m \in 1 .. (mine'[d][j] - 1) : m \in ended'[j]
    BY DEF InOrder
  <2>1. mine'[d][j] = mine[d][j] /\ mine[d][j] \in Nat
    BY <1>2, <1>6 DEF Holds, Taken, QueueTypeOK
  <2>2. Holds(d, j)
    BY <2>1, <1>2, <1>7 DEF Holds, Taken, Waits
  <2>3. EndedBefore(j, mine[d][j])
    BY <2>2 DEF TurnInv, InOrder, EndedBefore
  <2> QED  BY <2>1, <2>3, <1>11 DEF EndedBefore
<1> QED  BY <1>8, <1>9, <1>10, <1>12, <1>13 DEF TurnInv

(* The invariant is one. *)
THEOREM TurnsHold == QueueSpec => []TurnInv
<1>1. TurnInv /\ [QueueNext]_queueVars => TurnInv'
  <2> SUFFICES ASSUME TurnInv, [QueueNext]_queueVars  PROVE TurnInv'
    OBVIOUS
  <2>1. CASE UNCHANGED queueVars
    BY <2>1 DEF queueVars, TurnInv, QueueTypeOK, TurnsOf, OwnersOf, WaitOf, KeysOf, EndedBefore, InOrder, Holds, Taken, Waits
  <2>2. ASSUME NEW c \in Calls, Enter(c)  PROVE TurnInv'
    BY <2>2, EnterKeeps
  <2>3. ASSUME NEW c \in Calls, WriteEnds(c)  PROVE TurnInv'
    BY <2>3, WriteEndsKeeps
  <2>4. ASSUME NEW c \in Calls, Leave(c)  PROVE TurnInv'
    BY <2>4, LeaveKeeps
  <2>5. ASSUME NEW c \in Calls, NEW keys \in SUBSET Keys, RunAll(c, keys)  PROVE TurnInv'
    BY <2>5, RunAllKeeps
  <2> QED  BY <2>1, <2>2, <2>3, <2>4, <2>5 DEF QueueNext, QueueStep
<1> QED  BY <1>1, InitTurns, PTL DEF QueueSpec

(* Two calls inside the turn of one key would be the owners of one turn. *)
LEMMA OneWriterOfTurns == TurnInv => OneWriter
<1> SUFFICES ASSUME TurnInv, NEW k \in Keys, NEW c \in Calls, NEW d \in Calls,
                    Holds(c, k), Holds(d, k)
             PROVE  c = d
  BY DEF OneWriter
<1>1. /\ mine[c][k] \in Nat /\ mine[d][k] \in Nat /\ mine[c][k] # 0 /\ mine[d][k] # 0
      /\ mine[c][k] \notin ended[k] /\ mine[d][k] \notin ended[k]
  BY DEF Holds, Taken, TurnInv, QueueTypeOK, OwnersOf
<1>2. ~(mine[c][k] < mine[d][k]) /\ ~(mine[d][k] < mine[c][k])
  BY <1>1 DEF TurnInv, InOrder
<1>3. mine[c][k] = mine[d][k]
  BY <1>1, <1>2
<1> QED  BY <1>1, <1>3 DEF TurnInv, OwnersOf

(* Two calls are never inside the turn of one key. *)
THEOREM OneWriterHolds == QueueSpec => []OneWriter
  BY OneWriterOfTurns, TurnsHold, PTL

(* The writes of a key run in the order of their calls. *)
THEOREM InOrderHolds == QueueSpec => []InOrder
<1>1. TurnInv => InOrder
  BY DEF TurnInv
<1> QED  BY <1>1, TurnsHold, PTL

(* The map holds a key exactly while a call is in a run of it. *)
THEOREM KeysInUseHolds == QueueSpec => []KeysInUse
<1>1. TurnInv => KeysInUse
  <2> SUFFICES ASSUME TurnInv, NEW k \in Keys
               PROVE  turns[k] # 0 <=> \E c \in Calls : k \in Taken(c)
    BY DEF KeysInUse
  <2>1. TurnsOf(k) /\ OwnersOf(k) /\ issued[k] \in Nat
    BY DEF TurnInv, QueueTypeOK
  <2>2. ASSUME turns[k] # 0  PROVE \E c \in Calls : k \in Taken(c)
    <3>1. turns[k] \in 1 .. issued[k] /\ turns[k] \notin ended[k]
      BY <2>1, <2>2 DEF TurnsOf
    <3>2. PICK c \in Calls : mine[c][k] = turns[k]
      BY <3>1, <2>1 DEF OwnersOf
    <3> QED  BY <2>2, <3>2 DEF Taken
  <2>3. ASSUME NEW c \in Calls, k \in Taken(c)  PROVE turns[k] # 0
    BY <2>1, <2>3 DEF Taken, TurnsOf, OwnersOf
  <2> QED  BY <2>2, <2>3
<1> QED  BY <1>1, TurnsHold, PTL

-----------------------------------------------------------------------------
(* The queue implements WriteTurns. *)

(* A call that waits for nothing more is the first in each of its lines. *)
LEMMA FirstInLines ==
  ASSUME TurnInv, NEW c \in Calls,
         at[c] = "out" \/ (at[c] = "waits" /\ AheadEnded(c)),
         NEW k \in Taken(c)
  PROVE  Promise!First(c, k)
<1>1. EndedBefore(k, mine[c][k])
  <2>1. CASE Holds(c, k)
    BY <2>1 DEF TurnInv, InOrder, EndedBefore, Taken
  <2>2. CASE ~Holds(c, k)
    BY <2>2, AheadEndedMeans DEF Holds, Waits
  <2> QED  BY <2>1, <2>2
<1>2. SUFFICES ASSUME NEW d \in Calls, mine[d][k] # 0  PROVE mine[c][k] <= mine[d][k]
  BY DEF Promise!First
<1>3. k \in Keys /\ mine[c][k] \in Nat /\ mine[d][k] \in 1 .. issued[k] /\ issued[k] \in Nat
      /\ mine[d][k] \notin ended[k]
  BY <1>2 DEF Taken, TurnInv, QueueTypeOK, OwnersOf
<1>4. ~(mine[d][k] < mine[c][k])
  BY <1>1, <1>3 DEF EndedBefore
<1> QED  BY <1>3, <1>4

(* A step inward is a step of the promise: one more line, or the write. *)
LEMMA InnerPromised ==
  ASSUME TurnInv, NEW c \in Calls, NEW keys \in SUBSET Keys,
         \A j \in keys : mine[c][j] = 0,
         at[c] = "out" \/ (at[c] = "waits" /\ AheadEnded(c)),
         Inner(c, keys)
  PROVE  Promise!Next
<1>1. CASE at' = [at EXCEPT ![c] = "writes"] /\ UNCHANGED <<turns, issued, ended, todo, mine, wait>>
  <2>1. \A k \in Promise!InLine(c) : Promise!First(c, k)
    BY FirstInLines DEF Promise!InLine, Taken
  <2> QED  BY <1>1, <2>1 DEF Promise!Next, Promise!Write
<1>2. ASSUME NEW k \in Keys, Least(keys, k), Run(c, k)  PROVE Promise!Next
  BY <1>2 DEF Promise!Next, Promise!Join, Run, Least
<1> QED  BY <1>1, <1>2 DEF Inner

(* The queue keeps its promise: a write stands in the line of each of its keys *)
(* and runs while it is the first of all of them.                              *)
THEOREM PromiseKept == QueueSpec => PromiseHolds
<1>1. QueueInit => Promise!Init
  BY DEF QueueInit, Promise!Init
<1>2. TurnInv /\ [QueueNext]_queueVars => [Promise!Next]_(Promise!vars)
  <2> SUFFICES ASSUME TurnInv, [QueueNext]_queueVars  PROVE [Promise!Next]_(Promise!vars)
    OBVIOUS
  <2>1. CASE UNCHANGED queueVars
    BY <2>1 DEF queueVars, Promise!vars
  <2>2. ASSUME NEW c \in Calls, Enter(c)  PROVE Promise!Next
    <3>1. todo[c] \in SUBSET Keys /\ \A j \in todo[c] : mine[c][j] = 0
      BY DEF TurnInv, QueueTypeOK, KeysOf
    <3> QED  BY <2>2, <3>1, InnerPromised DEF Enter
  <2>3. ASSUME NEW c \in Calls, WriteEnds(c)  PROVE Promise!Next
    BY <2>3 DEF WriteEnds, Promise!Next, Promise!Finish, Promise!InLine, Taken
  <2>4. ASSUME NEW c \in Calls, Leave(c)  PROVE Promise!Next
    <3>1. PICK k \in Keys : k \in Taken(c) /\ Promise!Leave(c, k)
      BY <2>4 DEF Leave, Greatest, Promise!Leave, Promise!InLine, Taken
    <3> QED  BY <3>1 DEF Promise!Next
  <2>5. ASSUME NEW c \in Calls, NEW keys \in SUBSET Keys, RunAll(c, keys)  PROVE Promise!Next
    <3>1. at[c] = "out" /\ Inner(c, keys)
      BY <2>5 DEF RunAll
    <3>2. \A j \in keys : mine[c][j] = 0
      BY <3>1 DEF TurnInv, KeysOf
    <3> QED  BY <3>1, <3>2, InnerPromised
  <2> QED  BY <2>1, <2>2, <2>3, <2>4, <2>5 DEF QueueNext, QueueStep
<1> QED  BY <1>1, <1>2, TurnsHold, PTL DEF QueueSpec, PromiseHolds, Promise!Spec

-----------------------------------------------------------------------------
(* The writes of tasks: types. *)

FileTypes ==
  /\ file \in [Tasks -> File]
  /\ index \in [Tasks -> File]
  /\ counter \in Nat
  /\ request \in [Calls -> Request]
  /\ call \in [Calls -> Call]
  /\ faults \in 0 .. MaxFaults
  /\ reported \subseteq Tasks \X Tasks
  /\ loose \subseteq Tasks \X Tasks

DeleteSteps == {"remove", "unlist", "refs", "refsave", "refapply", "missed", "again"}

(* Where a call is fits its request: it works on the task that it was asked for, *)
(* checks only what the request states, and takes the steps of a delete only as  *)
(* a delete.                                                                     *)
Fits(q, x) ==
  /\ q.kind # "create" => q.task \in Tasks
  /\ x.step \notin {"idle", "done"} /\ q.kind # "create" => x.task = q.task
  /\ x.step \in {"check", "walk"} => Stated(q) # {}
  /\ x.step \in {"walk", "refsave", "refapply"} => x.pos \in Tasks
  /\ x.step \in DeleteSteps => q.kind = "delete"

FileInv == FileTypes /\ \A c \in Calls : Fits(request[c], call[c])

(* The files that the operators build are files. *)
LEMMA Built ==
  /\ NoFile \in File /\ NewFile \in File
  /\ \A f \in File : Entry(f) \in File
  /\ \A f \in File : \A u \in Tasks \union {0} : Without(f, u) \in File
  /\ \A f \in File : \A q \in Request : Changed(f, q) \in File
  /\ \A f \in File : Names(f) \subseteq Tasks
  /\ \A q \in Request : Stated(q) \subseteq Tasks
  /\ IdleCall \in Call
<1>1. NoFile \in File /\ NewFile \in File
  BY DEF NoFile, NewFile, File
<1>2. \A f \in File : Entry(f) \in File
  BY <1>1 DEF Entry
<1>3. ASSUME NEW f \in File, NEW u \in Tasks \union {0}  PROVE Without(f, u) \in File
  BY DEF Without, File
<1>4. ASSUME NEW f \in File, NEW q \in Request  PROVE Changed(f, q) \in File
  BY DEF Changed, File, Request
<1>5. \A f \in File : Names(f) \subseteq Tasks
  BY DEF Names, File
<1>6. \A q \in Request : Stated(q) \subseteq Tasks
  BY DEF Stated, Request
<1>7. IdleCall \in Call
  BY <1>1 DEF IdleCall, Call, Steps
<1> QED  BY <1>1, <1>2, <1>3, <1>4, <1>5, <1>6, <1>7

(* Every project starts with files, a counter and requests of their types. *)
LEMMA InitFiles == Init => FileInv
<1> SUFFICES ASSUME Init  PROVE FileInv
  OBVIOUS
<1>1. file \in [Tasks -> File]
  BY TasksAssumption DEF Init
<1>2. index \in [Tasks -> File]
  BY <1>1, Built DEF Init
<1>3. request \in [Calls -> Request] /\ \A c \in Calls : request[c].kind # "create" => request[c].task \in Tasks
  BY TasksAssumption DEF Init
<1>4. call \in [Calls -> Call] /\ \A c \in Calls : call[c].step = "idle"
  BY Built DEF Init, IdleCall
<1>5. counter \in Nat /\ faults \in 0 .. MaxFaults
  BY TasksAssumption DEF Init
<1>6. reported \subseteq Tasks \X Tasks /\ loose \subseteq Tasks \X Tasks
  BY DEF Init, AmissIn
<1> QED  BY <1>1, <1>2, <1>3, <1>4, <1>5, <1>6 DEF FileInv, FileTypes, Fits, DeleteSteps

(* A step of one call that leaves the requests keeps where the others are. *)
LEMMA Moves ==
  ASSUME FileInv, NEW c \in Calls, NEW x \in Call, Goes(c, x), request' = request, Fits(request[c], x)
  PROVE  call' \in [Calls -> Call] /\ \A d \in Calls : Fits(request[d], call[d])'
<1>1. call' \in [Calls -> Call] /\ call'[c] = x /\ \A d \in Calls : d # c => call'[d] = call[d]
  BY DEF Goes, FileInv, FileTypes
<1>2. ASSUME NEW d \in Calls  PROVE Fits(request'[d], call'[d])
  <2>1. CASE d = c
    BY <1>1, <2>1
  <2>2. CASE d # c
    BY <1>1, <2>2 DEF FileInv
  <2> QED  BY <2>1, <2>2
<1> QED  BY <1>1, <1>2

(* A step of the queue between two writes. *)
LEMMA EdgesKeepFiles ==
  ASSUME FileInv, NEW c \in Calls, Begin(c) \/ Again(c) \/ Turn(c) \/ Ends(c)
  PROVE  FileInv'
<1>0. call[c] \in Call /\ request[c] \in Request /\ IdleCall \in Call
  BY Built DEF FileInv, FileTypes
<1>1. CASE Begin(c)
  <2> DEFINE covered == IF request[c].kind = "delete" THEN ReferencesTo(request[c].task) ELSE {}
             x == [IdleCall EXCEPT !.step = "turn", !.task = request[c].task, !.covered = covered,
                                   !.blind = {u \in Stated(request[c]) : ~Listed(u)}]
  <2>1. covered \subseteq Tasks /\ {u \in Stated(request[c]) : ~Listed(u)} \subseteq Tasks
    BY <1>0, Built DEF ReferencesTo
  <2>2. x \in Call /\ Fits(request[c], x)
    BY <1>0, <2>1 DEF Call, Steps, Request, IdleCall, Fits, DeleteSteps, FileInv
  <2>3. Goes(c, x) /\ SameFiles /\ request' = request
    BY <1>1 DEF Begin
  <2> HIDE DEF x
  <2>4. call' \in [Calls -> Call] /\ \A d \in Calls : Fits(request[d], call[d])'
    BY <2>2, <2>3, Moves
  <2> QED  BY <2>3, <2>4 DEF SameFiles, FileInv, FileTypes
<1>2. CASE Again(c)
  <2> DEFINE x == [call[c] EXCEPT !.step = "turn", !.covered = CoveredNext(c), !.rest = {}]
  <2>1. Goes(c, x) /\ SameFiles /\ request' = request /\ call[c].step = "again"
    BY <1>2 DEF Again
  <2>2. x \in Call /\ Fits(request[c], x)
    BY <1>0, <2>1 DEF Call, Steps, CoveredNext, Fits, DeleteSteps, FileInv
  <2> HIDE DEF x
  <2>3. call' \in [Calls -> Call] /\ \A d \in Calls : Fits(request[d], call[d])'
    BY <2>1, <2>2, Moves
  <2> QED  BY <2>1, <2>3 DEF SameFiles, FileInv, FileTypes
<1>3. CASE Turn(c)
  BY <1>3 DEF Turn, taskVars, FileInv, FileTypes
<1>4. CASE Ends(c)
  <2> DEFINE x == IF call[c].step = "missed" THEN [call[c] EXCEPT !.step = "again"]
                  ELSE [IdleCall EXCEPT !.step = "done"]
  <2>1. Goes(c, x) /\ SameFiles /\ request' = request /\ call[c].step \in {"over", "missed"}
    BY <1>4 DEF Ends
  <2>2. x \in Call /\ Fits(request[c], x)
    BY <1>0, <2>1 DEF Call, Steps, Fits, DeleteSteps, FileInv
  <2> HIDE DEF x
  <2>3. call' \in [Calls -> Call] /\ \A d \in Calls : Fits(request[d], call[d])'
    BY <2>1, <2>2, Moves
  <2> QED  BY <2>1, <2>3 DEF SameFiles, FileInv, FileTypes
<1> QED  BY <1>1, <1>2, <1>3, <1>4

(* A step that only moves the call on. *)
LEMMA StepsOn ==
  ASSUME FileInv, NEW c \in Calls, NEW step \in Steps, To(c, step), request' = request,
         call[c].step \notin {"idle", "done"},
         \/ step \in {"save", "apply", "over"}
         \/ step \in {"unlist", "refs"} /\ call[c].step \in DeleteSteps
         \/ step = "refapply" /\ call[c].step = "refsave"
  PROVE  call' \in [Calls -> Call] /\ \A d \in Calls : Fits(request[d], call[d])'
<1> DEFINE x == [call[c] EXCEPT !.step = step]
<1>1. call[c] \in Call
  BY DEF FileInv, FileTypes
<1>2. x \in Call /\ Fits(request[c], x) /\ Goes(c, x)
  BY <1>1 DEF Call, To, Fits, FileInv, DeleteSteps
<1> HIDE DEF x
<1> QED  BY <1>2, Moves

(* A refusal only moves the call on. *)
LEMMA RefusedMoves ==
  ASSUME FileInv, NEW c \in Calls, Refused(c), request' = request, call[c].step \notin {"idle", "done"}
  PROVE  call' \in [Calls -> Call] /\ \A d \in Calls : Fits(request[d], call[d])'
  BY StepsOn, Zenon DEF Refused, Steps

(* An index that reads a file back stays an index. *)
LEMMA ReadBackTyped ==
  ASSUME FileInv, NEW c \in Calls, NEW t, index' = [index EXCEPT ![t] = ReadBack(c, t)]
  PROVE  index' \in [Tasks -> File]
<1>1. CASE t \in Tasks
  BY <1>1, Built DEF FileInv, FileTypes, ReadBack
<1>2. CASE t \notin Tasks
  BY <1>2 DEF FileInv, FileTypes
<1> QED  BY <1>1, <1>2

(* The steps of a create, an update or a comment. *)
LEMMA WriteKeepsFiles ==
  ASSUME FileInv, NEW c \in Calls, WriteStep(c)
  PROVE  FileInv'
<1> DEFINE q == request[c]
<1> DEFINE moved == call' \in [Calls -> Call] /\ \A d \in Calls : Fits(request[d], call[d])'
<1>0. call[c] \in Call /\ request[c] \in Request /\ Fits(q, call[c]) /\ Stated(q) \subseteq Tasks
  BY Built DEF FileInv, FileTypes
<1>1. CASE Opens(c)
  <2>1. SameFiles /\ request' = request /\ call[c].step = "turn"
    BY <1>1 DEF Opens, Within
  <2>2. CASE Refused(c)
    BY <2>1, <2>2, RefusedMoves DEF SameFiles, FileInv, FileTypes
  <2>3. CASE ~Refused(c)
    <3> DEFINE f == IF IsCreate(c) THEN NewFile ELSE file[call[c].task]
               x == [call[c] EXCEPT !.step = IF Stated(q) = {} THEN "save" ELSE "check",
                                    !.snap = f, !.rest = Stated(q)]
    <3>1. f \in File
      BY <1>0, <2>1, Built DEF FileInv, FileTypes, Fits, IsCreate
    <3>2. Goes(c, x)
      BY <1>1, <2>3 DEF Opens
    <3>3. x \in Call /\ Fits(q, x)
      BY <1>0, <2>1, <3>1 DEF Call, Steps, Fits, DeleteSteps
    <3> HIDE DEF x
    <3>4. moved
      BY <2>1, <3>2, <3>3, Moves
    <3> QED  BY <2>1, <3>4 DEF SameFiles, FileInv, FileTypes
  <2> QED  BY <2>2, <2>3
<1>2. CASE ChecksBlocker(c)
  <2>1. SameFiles /\ request' = request /\ call[c].step = "check"
    BY <1>2 DEF ChecksBlocker, Within
  <2>2. CASE Refused(c)
    BY <2>1, <2>2, RefusedMoves DEF SameFiles, FileInv, FileTypes
  <2>3. CASE ~Refused(c)
    <3> PICK u \in call[c].rest :
          Goes(c, [call[c] EXCEPT !.rest = @ \ {u}, !.step = IF call[c].rest = {u} THEN "save" ELSE @])
      BY <1>2, <2>3 DEF ChecksBlocker
    <3> DEFINE x == [call[c] EXCEPT !.rest = @ \ {u}, !.step = IF call[c].rest = {u} THEN "save" ELSE @]
    <3>1. x \in Call /\ Fits(q, x) /\ Goes(c, x)
      BY <1>0, <2>1 DEF Call, Steps, Fits, DeleteSteps
    <3> HIDE DEF x
    <3>2. moved
      BY <2>1, <3>1, Moves
    <3> QED  BY <2>1, <3>2 DEF SameFiles, FileInv, FileTypes
  <2> QED  BY <2>2, <2>3
<1>3. CASE ChecksParent(c)
  <2>1. SameFiles /\ request' = request /\ call[c].step = "check"
    BY <1>3 DEF ChecksParent, Within
  <2>2. CASE Refused(c)
    BY <2>1, <2>2, RefusedMoves DEF SameFiles, FileInv, FileTypes
  <2>3. CASE To(c, "save")
    BY <2>1, <2>3, StepsOn DEF SameFiles, FileInv, FileTypes, Steps
  <2>4. CASE ~Refused(c) /\ ~To(c, "save")
    <3> DEFINE x == [call[c] EXCEPT !.step = "walk", !.pos = q.parent, !.chain = {q.parent, call[c].task}]
    <3>1. Goes(c, x) /\ q.field = "parent" /\ ~IsCreate(c)
      BY <1>3, <2>4 DEF ChecksParent
    <3>2. q.parent \in Tasks /\ call[c].task \in Tasks
      BY <1>0, <2>1, <3>1 DEF Fits, Stated, Request, IsCreate
    <3>3. x \in Call /\ Fits(q, x)
      BY <1>0, <2>1, <3>2 DEF Call, Steps, Fits, DeleteSteps
    <3> HIDE DEF x
    <3>4. moved
      BY <2>1, <3>1, <3>3, Moves
    <3> QED  BY <2>1, <3>4 DEF SameFiles, FileInv, FileTypes
  <2> QED  BY <2>2, <2>3, <2>4
<1>4. CASE WalksUp(c)
  <2>1. SameFiles /\ request' = request /\ call[c].step = "walk"
    BY <1>4 DEF WalksUp, Within
  <2>2. CASE Refused(c)
    BY <2>1, <2>2, RefusedMoves DEF SameFiles, FileInv, FileTypes
  <2>3. CASE To(c, "save")
    BY <2>1, <2>3, StepsOn DEF SameFiles, FileInv, FileTypes, Steps
  <2>4. CASE ~Refused(c) /\ ~To(c, "save")
    <3> DEFINE up == Entry(file[call[c].pos]).parent
               x == [call[c] EXCEPT !.pos = up, !.chain = @ \union {up}]
    <3>1. Goes(c, x) /\ up # 0
      BY <1>4, <2>4 DEF WalksUp
    <3>2. up \in Tasks
      <4>1. Entry(file[call[c].pos]) \in File
        BY <1>0, <2>1, Built DEF FileInv, FileTypes, Fits
      <4> QED  BY <3>1, <4>1 DEF File
    <3> HIDE DEF up
    <3>3. x \in Call /\ Fits(q, x)
      BY <1>0, <2>1, <3>2 DEF Call, Steps, Fits, DeleteSteps
    <3> HIDE DEF x
    <3>4. moved
      BY <2>1, <3>1, <3>3, Moves
    <3> QED  BY <2>1, <3>4 DEF SameFiles, FileInv, FileTypes
  <2> QED  BY <2>2, <2>3, <2>4
<1>5. CASE Saves(c)
  <2>1. /\ request' = request /\ call[c].step = "save" /\ ~IsCreate(c) /\ To(c, "apply")
        /\ UNCHANGED <<index, counter, faults, reported>>
    BY <1>5 DEF Saves, Within
  <2>2. moved
    BY <2>1, StepsOn DEF Steps
  <2>3. Changed(call[c].snap, q) \in File /\ call[c].task \in Tasks
    BY <1>0, <2>1, Built DEF Call, Fits, IsCreate
  <2>4. file' \in [Tasks -> File]
    BY <1>5, <2>3 DEF Saves, FileInv, FileTypes
  <2>5. loose' \subseteq Tasks \X Tasks
    BY <1>5, <1>0, <2>3, Built DEF Saves, Loose, FileInv, FileTypes
  <2> QED  BY <2>1, <2>2, <2>4, <2>5 DEF FileInv, FileTypes
<1>6. CASE Creates(c)
  <2> DEFINE x == [call[c] EXCEPT !.step = "apply", !.task = counter]
  <2>1. /\ request' = request /\ call[c].step = "save" /\ IsCreate(c) /\ Goes(c, x) /\ counter \in Tasks
        /\ counter' = counter + 1 /\ UNCHANGED <<index, faults, reported>>
    BY <1>6 DEF Creates, Within
  <2>2. x \in Call /\ Fits(q, x)
    BY <1>0, <2>1 DEF Call, Steps, Fits, DeleteSteps, IsCreate
  <2>3. moved
    <3> HIDE DEF x
    <3> QED  BY <2>1, <2>2, Moves
  <2>4. Changed(NewFile, q) \in File
    BY <1>0, Built
  <2>5. file' \in [Tasks -> File]
    BY <1>6, <2>4 DEF Creates, FileInv, FileTypes
  <2>6. loose' \subseteq Tasks \X Tasks
    BY <1>6, <1>0, <2>1, <2>4, Built DEF Creates, Loose, FileInv, FileTypes
  <2>7. counter' \in Nat
    BY <2>1 DEF FileInv, FileTypes
  <2> QED  BY <2>1, <2>3, <2>5, <2>6, <2>7 DEF FileInv, FileTypes
<1>7. CASE SaveFails(c)
  <2>1. /\ request' = request /\ call[c].step = "save" /\ Refused(c) /\ faults < MaxFaults
        /\ faults' = faults + 1 /\ UNCHANGED <<file, index, counter, reported, loose>>
    BY <1>7 DEF SaveFails, Within
  <2>2. moved
    BY <2>1, RefusedMoves
  <2>3. faults' \in 0 .. MaxFaults
    BY <2>1, TasksAssumption DEF FileInv, FileTypes
  <2> QED  BY <2>1, <2>2, <2>3 DEF FileInv, FileTypes
<1>8. CASE Applies(c)
  <2>1. /\ request' = request /\ call[c].step = "apply" /\ To(c, "over")
        /\ UNCHANGED <<file, counter, faults, reported, loose>>
    BY <1>8 DEF Applies, Within
  <2>2. moved
    BY <2>1, StepsOn DEF Steps
  <2>3. index' \in [Tasks -> File]
    BY <1>8, ReadBackTyped DEF Applies
  <2> QED  BY <2>1, <2>2, <2>3 DEF FileInv, FileTypes
<1> QED  BY <1>1, <1>2, <1>3, <1>4, <1>5, <1>6, <1>7, <1>8 DEF WriteStep

(* The steps of a delete. *)
LEMMA DeleteKeepsFiles ==
  ASSUME FileInv, NEW c \in Calls, DeleteStep(c)
  PROVE  FileInv'
<1> DEFINE q == request[c]
<1> DEFINE moved == call' \in [Calls -> Call] /\ \A d \in Calls : Fits(request[d], call[d])'
<1>0. call[c] \in Call /\ request[c] \in Request /\ Fits(q, call[c])
  BY DEF FileInv, FileTypes
<1>1. CASE Looks(c)
  <2> DEFINE now == ReferencesTo(call[c].task)
             x == [call[c] EXCEPT !.rest = now, !.step = IF Missed(now, call[c].covered) THEN "missed" ELSE "remove"]
  <2>1. SameFiles /\ request' = request /\ call[c].step = "turn" /\ q.kind = "delete" /\ Goes(c, x)
    BY <1>1 DEF Looks, Within
  <2>2. x \in Call /\ Fits(q, x)
    <3>1. now \subseteq Tasks
      BY DEF ReferencesTo
    <3> HIDE DEF now
    <3> QED  BY <1>0, <2>1, <3>1 DEF Call, Steps, Fits, DeleteSteps
  <2> HIDE DEF x
  <2>3. moved
    BY <2>1, <2>2, Moves
  <2> QED  BY <2>1, <2>3 DEF SameFiles, FileInv, FileTypes
<1>2. CASE Removes(c)
  <2>1. request' = request /\ call[c].step = "remove" /\ UNCHANGED <<index, counter, reported, loose>>
    BY <1>2 DEF Removes, Within
  <2>2. file' \in [Tasks -> File] /\ faults' \in 0 .. MaxFaults
    BY <1>2, Built, TasksAssumption DEF Removes, FileInv, FileTypes
  <2>3. CASE To(c, "unlist")
    <3>1. moved
      BY <2>1, <2>3, StepsOn DEF Steps, DeleteSteps
    <3> QED  BY <2>1, <2>2, <3>1 DEF FileInv, FileTypes
  <2>4. CASE ~To(c, "unlist")
    <3> DEFINE x == [call[c] EXCEPT !.step = "unlist", !.rest = {}]
    <3>1. Goes(c, x)
      BY <1>2, <2>4 DEF Removes
    <3>2. x \in Call /\ Fits(q, x)
      BY <1>0, <2>1 DEF Call, Steps, Fits, DeleteSteps
    <3> HIDE DEF x
    <3>3. moved
      BY <2>1, <3>1, <3>2, Moves
    <3> QED  BY <2>1, <2>2, <3>3 DEF FileInv, FileTypes
  <2> QED  BY <2>3, <2>4
<1>3. CASE Unlists(c)
  <2>1. /\ request' = request /\ call[c].step = "unlist" /\ To(c, AfterRefs(call[c].rest))
        /\ UNCHANGED <<file, counter, faults, reported, loose>>
    BY <1>3 DEF Unlists, Within
  <2>2. moved
    BY <2>1, StepsOn DEF Steps, DeleteSteps, AfterRefs
  <2>3. index' \in [Tasks -> File]
    BY <1>3, ReadBackTyped DEF Unlists
  <2> QED  BY <2>1, <2>2, <2>3 DEF FileInv, FileTypes
<1>4. CASE OpensReference(c)
  <2>1. request' = request /\ call[c].step = "refs" /\ UNCHANGED <<file, index, counter, faults, loose>>
    BY <1>4 DEF OpensReference, Within
  <2> PICK r \in Tasks :
        /\ Goes(c, [call[c] EXCEPT !.pos = r, !.snap = file[r],
             !.step = IF file[r].st = "good" /\ call[c].task \in Names(file[r]) THEN "refsave" ELSE "refapply"])
        /\ reported' = IF file[r].st = "broken" THEN reported \union {<<r, call[c].task>>} ELSE reported
    BY <1>4 DEF OpensReference
  <2> DEFINE x == [call[c] EXCEPT !.pos = r, !.snap = file[r],
               !.step = IF file[r].st = "good" /\ call[c].task \in Names(file[r]) THEN "refsave" ELSE "refapply"]
  <2>2. x \in Call /\ Fits(q, x) /\ Goes(c, x)
    BY <1>0, <2>1 DEF Call, Steps, Fits, DeleteSteps, FileInv, FileTypes
  <2> HIDE DEF x
  <2>3. moved
    BY <2>1, <2>2, Moves
  <2>4. call[c].task \in Tasks
    BY <1>0, <2>1 DEF Fits, DeleteSteps
  <2>5. reported' \subseteq Tasks \X Tasks
    BY <2>4 DEF FileInv, FileTypes
  <2> QED  BY <2>1, <2>3, <2>5 DEF FileInv, FileTypes
<1>5. CASE SavesReference(c)
  <2>1. /\ request' = request /\ call[c].step = "refsave" /\ To(c, "refapply")
        /\ UNCHANGED <<index, counter, loose>>
    BY <1>5 DEF SavesReference, Within
  <2>2. moved
    BY <2>1, StepsOn DEF Steps, DeleteSteps
  <2>3. Without(call[c].snap, call[c].task) \in File
    BY <1>0, Built DEF Call
  <2>4. file' \in [Tasks -> File]
    BY <1>5, <2>3 DEF SavesReference, FileInv, FileTypes
  <2>5. faults' \in 0 .. MaxFaults
    BY <1>5, TasksAssumption DEF SavesReference, FileInv, FileTypes
  <2>6. reported' \subseteq Tasks \X Tasks
    BY <1>0, <1>5, <2>1 DEF SavesReference, FileInv, FileTypes, Fits, DeleteSteps
  <2> QED  BY <2>1, <2>2, <2>4, <2>5, <2>6 DEF FileInv, FileTypes
<1>6. CASE AppliesReference(c)
  <2> DEFINE x == [call[c] EXCEPT !.rest = @ \ {call[c].pos}, !.step = AfterRefs(call[c].rest \ {call[c].pos})]
  <2>1. /\ request' = request /\ call[c].step = "refapply" /\ Goes(c, x)
        /\ UNCHANGED <<file, counter, faults, reported, loose>>
    BY <1>6 DEF AppliesReference, Within
  <2>2. x \in Call /\ Fits(q, x)
    BY <1>0, <2>1 DEF Call, Steps, Fits, DeleteSteps, AfterRefs
  <2> HIDE DEF x
  <2>3. moved
    BY <2>1, <2>2, Moves
  <2>4. index' \in [Tasks -> File]
    BY <1>6, ReadBackTyped DEF AppliesReference
  <2> QED  BY <2>1, <2>3, <2>4 DEF FileInv, FileTypes
<1> QED  BY <1>1, <1>2, <1>3, <1>4, <1>5, <1>6 DEF DeleteStep

(* Every step keeps the files, and what the calls do, in their types. *)
LEMMA NextKeepsFiles == FileInv /\ [Next]_vars => FileInv'
<1> SUFFICES ASSUME FileInv, [Next]_vars  PROVE FileInv'
  OBVIOUS
<1>1. ASSUME NEW c \in Calls, Begin(c) \/ CallStep(c)  PROVE FileInv'
  BY <1>1, EdgesKeepFiles, WriteKeepsFiles, DeleteKeepsFiles DEF CallStep
<1>2. ASSUME NEW t \in Tasks, Watches(t)  PROVE FileInv'
  BY <1>2, Built DEF Watches, FileInv, FileTypes
<1>3. CASE UNCHANGED vars
  BY <1>3 DEF vars, taskVars, FileInv, FileTypes
<1> QED  BY <1>1, <1>2, <1>3 DEF Next

-----------------------------------------------------------------------------
(* The queue. *)

(* The keys that a write asks for are keys of the queue. *)
LEMMA KeysKnown ==
  ASSUME FileInv, NEW c \in Calls
  PROVE  /\ request[c].kind # "delete" => WriteKeys(request[c]) \in SUBSET Keys
         /\ \A t \in Tasks : \A covered \in SUBSET Tasks : DeleteKeys(t, covered) \in SUBSET Keys
<1>1. request[c] \in Request /\ Stated(request[c]) \subseteq Tasks /\ Fits(request[c], call[c])
  BY Built DEF FileInv, FileTypes
<1>2. StatedKeys(request[c]) \subseteq Keys
  BY <1>1, TasksAssumption DEF StatedKeys
<1>3. WriteKeys(request[c]) \subseteq Keys
  BY <1>1, <1>2, TasksAssumption DEF WriteKeys, Request, Kinds, Fits
<1>4. \A t \in Tasks : \A covered \in SUBSET Tasks : DeleteKeys(t, covered) \subseteq Keys
  BY TasksAssumption DEF DeleteKeys
<1> QED  BY <1>3, <1>4

(* To the queue every step of the task writes is one of its own or none. *)
LEMMA NextIsQueueStep == FileInv /\ [Next]_vars => [QueueNext]_queueVars
<1> SUFFICES ASSUME FileInv, [Next]_vars  PROVE [QueueNext]_queueVars
  OBVIOUS
<1>1. ASSUME NEW c \in Calls, Begin(c)  PROVE QueueNext
  <2> DEFINE q == request[c]
             covered == IF q.kind = "delete" THEN ReferencesTo(q.task) ELSE {}
             keys == IF q.kind = "delete" THEN DeleteKeys(q.task, covered) ELSE WriteKeys(q)
  <2>1. RunAll(c, keys)
    BY <1>1 DEF Begin
  <2>2. covered \in SUBSET Tasks
    BY DEF ReferencesTo
  <2>3. Fits(q, call[c])
    BY DEF FileInv
  <2>4. keys \in SUBSET Keys
    <3> HIDE DEF covered
    <3> QED  BY <2>2, <2>3, KeysKnown DEF Fits
  <2> HIDE DEF keys
  <2> QED  BY <2>1, <2>4 DEF QueueNext
<1>2. ASSUME NEW c \in Calls, Again(c)  PROVE QueueNext
  <2> DEFINE keys == DeleteKeys(call[c].task, CoveredNext(c))
  <2>1. RunAll(c, keys) /\ call[c].step = "again"
    BY <1>2 DEF Again
  <2>2. call[c] \in Call /\ Fits(request[c], call[c])
    BY DEF FileInv, FileTypes
  <2>3. call[c].task \in Tasks /\ CoveredNext(c) \in SUBSET Tasks
    BY <2>1, <2>2 DEF Fits, DeleteSteps, Call, CoveredNext
  <2>4. keys \in SUBSET Keys
    BY <2>3, KeysKnown
  <2> HIDE DEF keys
  <2> QED  BY <2>1, <2>4 DEF QueueNext
<1>3. ASSUME NEW c \in Calls, Turn(c) \/ Ends(c)  PROVE QueueNext
  BY <1>3 DEF Turn, Ends, QueueNext, QueueStep
<1>4. ASSUME NEW c \in Calls, WriteStep(c) \/ DeleteStep(c)  PROVE UNCHANGED queueVars
  BY <1>4 DEF WriteStep, DeleteStep, Opens, ChecksBlocker, ChecksParent, WalksUp, Saves, Creates, SaveFails, Applies,
              Looks, Removes, Unlists, OpensReference, SavesReference, AppliesReference, Within
<1>5. ASSUME NEW t \in Tasks, Watches(t)  PROVE UNCHANGED queueVars
  BY <1>5 DEF Watches
<1>6. CASE UNCHANGED vars
  BY <1>6 DEF vars
<1> QED  BY <1>1, <1>2, <1>3, <1>4, <1>5, <1>6 DEF Next, CallStep

(* The files and what the calls do keep their types. *)
THEOREM FilesHold == Spec => []FileInv
<1>1. Init => FileInv
  BY InitFiles
<1>2. FileInv /\ [Next]_vars => FileInv'
  BY NextKeepsFiles
<1> QED  BY <1>1, <1>2, PTL DEF Spec

(* The writes of tasks use the queue as its module says, so that what is proved *)
(* of the queue holds of them: one writer in each turn, in the order of arrival *)
(* (`runAll` and the handlers that call it).                                    *)
THEOREM WritesUseTheQueue == Spec => QueueSpec
<1>1. Init => QueueInit
  BY DEF Init
<1>2. FileInv /\ [Next]_vars => [QueueNext]_queueVars
  BY NextIsQueueStep
<1> QED  BY <1>1, <1>2, FilesHold, PTL DEF Spec, QueueSpec

(* The type invariant of the task writes. *)
THEOREM TaskTypesHold == Spec => []TypeOK
<1>1. FileInv /\ TurnInv => TypeOK
  BY DEF FileInv, FileTypes, TurnInv, TypeOK
<1> QED  BY <1>1, FilesHold, WritesUseTheQueue, TurnsHold, PTL

-----------------------------------------------------------------------------
(* No write takes another one away. *)

(* The tasks that a create or an update states and whose turns it could name. *)
Firm(q, x) == IF q.kind \in {"create", "update"} THEN Stated(q) \ x.blind ELSE {}

FirmKeys(q, x) == {TaskKey(u) : u \in Firm(q, x)}

(* The keys of the files that a write changes, and of the tasks that it states. *)
Needs(q, x) ==
  CASE q.kind = "create" -> {CreateKey} \union FirmKeys(q, x)
    [] q.kind = "delete" -> DeleteKeys(x.task, x.covered)
    [] OTHER -> {TaskKey(q.task)} \union FirmKeys(q, x)

(* A step that leaves the task and the keys of a call leaves what it needs. *)
LEMMA NeedsStay ==
  ASSUME NEW q, NEW x, NEW y, x.blind = y.blind, q.kind = "delete" => x.task = y.task /\ x.covered = y.covered
  PROVE  Needs(q, x) = Needs(q, y)
<1>1. FirmKeys(q, x) = FirmKeys(q, y)
  BY DEF FirmKeys, Firm
<1> QED  BY <1>1 DEF Needs

BodySteps == Steps \ {"idle", "turn", "again", "done"}

(* A call that waits for its turns has asked for all that it needs, and inside *)
(* its write it holds them.                                                    *)
Asked(c, q, x) ==
  /\ x.step = "turn" => at[c] \in {"waits", "writes"} /\ Needs(q, x) \subseteq Taken(c) \union todo[c]
  /\ x.step \in BodySteps => at[c] = "writes"
  /\ x.step = "turn" \/ x.step \in BodySteps => (at[c] = "writes" => Needs(q, x) \subseteq Taken(c))

(* What a write read is what the file still holds, and a delete rewrites only *)
(* files whose turns it took.                                                 *)
Fresh(q, x) ==
  /\ x.step \in {"check", "walk", "save"} => q.kind # "delete"
  /\ x.step \in {"check", "walk", "save"} /\ q.kind # "create" => file[x.task] = x.snap /\ x.snap.st = "good"
  /\ x.step = "refsave" => file[x.pos] = x.snap /\ x.snap.st = "good"
  /\ x.step \in {"remove", "unlist", "refs", "refsave", "refapply"} => x.rest \subseteq x.covered
  /\ x.step \in {"refsave", "refapply"} => x.pos \in x.rest

(* No file has the number of a task that is still to come. *)
Numbered == \A t \in Tasks : file[t].st # "none" => t < counter

(* The invariant of the proof. *)
WriteInv ==
  /\ \A c \in Calls : Asked(c, request[c], call[c])
  /\ \A c \in Calls : Fresh(request[c], call[c])
  /\ Numbered

(* No call has begun. *)
LEMMA InitWrites == Init => WriteInv
<1> SUFFICES ASSUME Init  PROVE WriteInv
  OBVIOUS
<1>1. \A c \in Calls : call[c].step = "idle"
  BY DEF Init, IdleCall
<1>2. Numbered
  BY TasksAssumption DEF Init, Numbered
<1> QED  BY <1>1, <1>2 DEF WriteInv, Asked, Fresh, BodySteps

(* A rewrite leaves the state of a file. *)
LEMMA RewritesStand ==
  ASSUME NEW f \in File
  PROVE  /\ \A q \in Request : Changed(f, q).st = f.st
         /\ \A t : Without(f, t).st = f.st
  BY DEF File, Changed, Without

(* Two writes that change files never need the same key. *)
LEMMA WritersDiffer ==
  ASSUME TurnInv, WriteInv, NEW c \in Calls, NEW d \in Calls, c # d, NEW k \in Keys,
         at[c] = "writes", call[c].step \in BodySteps \union {"turn"}, k \in Needs(request[c], call[c]),
         call[d].step \in BodySteps, k \in Needs(request[d], call[d])
  PROVE  FALSE
<1>1. k \in Taken(c) /\ k \in Taken(d) /\ at[d] = "writes"
  BY DEF WriteInv, Asked
<1>2. Holds(c, k) /\ Holds(d, k)
  BY <1>1 DEF Holds, Waits
<1>3. OneWriter
  BY OneWriterOfTurns
<1> QED  BY <1>2, <1>3 DEF OneWriter

(* What a step of one call leaves of another one that does not move. *)
LEMMA OthersStay ==
  ASSUME FileInv, TurnInv, WriteInv, NEW d \in Calls,
         call'[d] = call[d], request' = request,
         at'[d] = at[d], todo'[d] = todo[d], mine'[d] = mine[d]
  PROVE  Asked(d, request[d], call[d])'
<1>1. Asked(d, request[d], call[d]) /\ Taken(d)' = Taken(d)
  BY DEF WriteInv, Taken
<1> QED  BY <1>1 DEF Asked

(* Taking turns: all the keys that were asked for are taken or still to take. *)
LEMMA InnerAsks ==
  ASSUME TurnInv, NEW c \in Calls, NEW keys \in SUBSET Keys, NEW needs, needs \subseteq Taken(c) \union keys,
         Inner(c, keys)
  PROVE  /\ at'[c] \in {"waits", "writes"}
         /\ needs \subseteq Taken(c)' \union todo'[c]
         /\ at'[c] = "writes" => needs \subseteq Taken(c)'
         /\ \A d \in Calls : d # c => at'[d] = at[d] /\ todo'[d] = todo[d] /\ mine'[d] = mine[d]
<1>0. QueueTypeOK
  BY DEF TurnInv
<1>1. CASE keys = {} /\ at' = [at EXCEPT ![c] = "writes"] /\ UNCHANGED <<turns, issued, ended, todo, mine, wait>>
  <2>1. Taken(c)' = Taken(c)
    BY <1>1 DEF Taken
  <2> QED  BY <1>0, <1>1, <2>1 DEF QueueTypeOK
<1>2. ASSUME NEW k \in Keys, Least(keys, k), todo' = [todo EXCEPT ![c] = keys \ {k}], Run(c, k)
      PROVE  /\ at'[c] = "waits"
             /\ needs \subseteq Taken(c)' \union todo'[c]
             /\ \A d \in Calls : d # c => at'[d] = at[d] /\ todo'[d] = todo[d] /\ mine'[d] = mine[d]
  <2>1. /\ at' = [at EXCEPT ![c] = "waits"] /\ mine' = [mine EXCEPT ![c][k] = issued[k] + 1]
        /\ issued[k] + 1 # 0
    BY <1>0, <1>2 DEF Run, QueueTypeOK
  <2>2. todo'[c] = keys \ {k} /\ at'[c] = "waits"
    BY <1>0, <1>2, <2>1 DEF QueueTypeOK
  <2>3. mine'[c] = [mine[c] EXCEPT ![k] = issued[k] + 1] /\ mine[c] \in [Keys -> Nat]
    BY <1>0, <2>1 DEF QueueTypeOK
  <2>4. Taken(c) \union {k} \subseteq Taken(c)'
    BY <2>1, <2>3 DEF Taken
  <2> QED  BY <1>0, <1>2, <2>1, <2>2, <2>4 DEF QueueTypeOK
<1> QED  BY <1>1, <1>2 DEF Inner

(* A call takes its turns and enters its write. *)
LEMMA AskingKeeps ==
  ASSUME FileInv, TurnInv, WriteInv, NEW c \in Calls, Begin(c) \/ Again(c) \/ Turn(c) \/ Ends(c)
  PROVE  WriteInv'
<1> DEFINE q == request[c]
<1>0. /\ request \in [Calls -> Request] /\ call \in [Calls -> Call] /\ request' = request
      /\ Asked(c, q, call[c]) /\ Fresh(q, call[c]) /\ Fits(q, call[c]) /\ QueueTypeOK
      /\ file' = file /\ counter' = counter
  BY DEF FileInv, FileTypes, WriteInv, TurnInv, Begin, Again, Turn, Ends, SameFiles, taskVars
<1>1. ASSUME NEW x, Goes(c, x), Asked(c, q, x)', Fresh(q, x),
             \A d \in Calls : d # c => at'[d] = at[d] /\ todo'[d] = todo[d] /\ mine'[d] = mine[d]
      PROVE  WriteInv'
  <2>1. call'[c] = x /\ \A d \in Calls : d # c => call'[d] = call[d]
    BY <1>0, <1>1 DEF Goes
  <2>2. ASSUME NEW d \in Calls  PROVE Asked(d, request[d], call[d])' /\ Fresh(request[d], call[d])'
    <3>1. CASE d = c
      BY <1>0, <1>1, <2>1, <3>1 DEF Fresh, Asked, Taken
    <3>2. CASE d # c
      <4>1. Asked(d, request[d], call[d])'
        BY <1>0, <1>1, <2>1, <3>2, OthersStay
      <4>2. Fresh(request[d], call[d])'
        BY <1>0, <2>1, <3>2 DEF WriteInv, Fresh
      <4> QED  BY <4>1, <4>2
    <3> QED  BY <3>1, <3>2
  <2> QED  BY <1>0, <2>2 DEF WriteInv, Numbered
<1>2. CASE Begin(c)
  <2> DEFINE covered == IF q.kind = "delete" THEN ReferencesTo(q.task) ELSE {}
             keys == IF q.kind = "delete" THEN DeleteKeys(q.task, covered) ELSE WriteKeys(q)
  <2> PICK x : x = [IdleCall EXCEPT !.step = "turn", !.task = q.task, !.covered = covered,
                                    !.blind = {u \in Stated(q) : ~Listed(u)}]
    OBVIOUS
  <2>1. at[c] = "out" /\ Inner(c, keys) /\ Goes(c, x)
    BY <1>2 DEF Begin, RunAll
  <2>2. covered \in SUBSET Tasks
    BY DEF ReferencesTo
  <2>3. x.step = "turn" /\ x.task = q.task /\ x.covered = covered /\ x.blind = {u \in Stated(q) : ~Listed(u)}
    BY DEF IdleCall
  <2> HIDE DEF covered
  <2>4. keys \in SUBSET Keys
    BY <1>0, <2>2, KeysKnown DEF Fits
  <2>5. Needs(q, x) \subseteq Taken(c) \union keys
    <3>1. FirmKeys(q, x) \subseteq StatedKeys(q)
      BY <2>3 DEF FirmKeys, Firm, StatedKeys
    <3>2. q.kind \notin {"create", "update"} => FirmKeys(q, x) = {}
      BY DEF FirmKeys, Firm
    <3> QED  BY <1>0, <2>3, <3>1, <3>2 DEF Needs, WriteKeys
  <2> HIDE DEF keys
  <2>6. /\ at'[c] \in {"waits", "writes"}
        /\ Needs(q, x) \subseteq Taken(c)' \union todo'[c]
        /\ at'[c] = "writes" => Needs(q, x) \subseteq Taken(c)'
        /\ \A d \in Calls : d # c => at'[d] = at[d] /\ todo'[d] = todo[d] /\ mine'[d] = mine[d]
    BY <2>1, <2>4, <2>5, InnerAsks
  <2>7. Asked(c, q, x)' /\ Fresh(q, x)
    BY <1>0, <2>3, <2>6 DEF Asked, Fresh, BodySteps
  <2> QED  BY <1>1, <2>1, <2>6, <2>7
<1>3. CASE Again(c)
  <2> DEFINE keys == DeleteKeys(call[c].task, CoveredNext(c))
  <2> PICK x : x = [call[c] EXCEPT !.step = "turn", !.covered = CoveredNext(c), !.rest = {}]
    OBVIOUS
  <2>1. at[c] = "out" /\ Inner(c, keys) /\ Goes(c, x) /\ call[c].step = "again"
    BY <1>3 DEF Again, RunAll
  <2>2. q.kind = "delete" /\ call[c].task \in Tasks /\ CoveredNext(c) \in SUBSET Tasks /\ call[c] \in Call
    BY <1>0, <2>1 DEF Fits, DeleteSteps, Call, CoveredNext
  <2>3. x.step = "turn" /\ x.task = call[c].task /\ x.covered = CoveredNext(c)
    BY <2>2 DEF Call
  <2>4. keys \in SUBSET Keys
    BY <2>2, KeysKnown
  <2>5. Needs(q, x) \subseteq Taken(c) \union keys
    BY <2>2, <2>3 DEF Needs
  <2> HIDE DEF keys
  <2>6. /\ at'[c] \in {"waits", "writes"}
        /\ Needs(q, x) \subseteq Taken(c)' \union todo'[c]
        /\ at'[c] = "writes" => Needs(q, x) \subseteq Taken(c)'
        /\ \A d \in Calls : d # c => at'[d] = at[d] /\ todo'[d] = todo[d] /\ mine'[d] = mine[d]
    BY <2>1, <2>4, <2>5, InnerAsks
  <2>7. Asked(c, q, x)' /\ Fresh(q, x)
    BY <1>0, <2>3, <2>6 DEF Asked, Fresh, BodySteps
  <2> QED  BY <1>1, <2>1, <2>6, <2>7
<1>4. CASE Turn(c) /\ Enter(c)
  <2> DEFINE needs == Needs(q, call[c])
  <2>1. at[c] = "waits" /\ Inner(c, todo[c]) /\ call' = call
    BY <1>4 DEF Turn, Enter, taskVars
  <2>2. call[c].step \notin BodySteps /\ todo[c] \in SUBSET Keys
    BY <1>0, <2>1 DEF Asked, QueueTypeOK
  <2>3. CASE call[c].step = "turn"
    <3>1. needs \subseteq Taken(c) \union todo[c]
      BY <1>0, <2>3 DEF Asked
    <3> HIDE DEF needs
    <3>2. /\ at'[c] \in {"waits", "writes"}
          /\ needs \subseteq Taken(c)' \union todo'[c]
          /\ at'[c] = "writes" => needs \subseteq Taken(c)'
          /\ \A d \in Calls : d # c => at'[d] = at[d] /\ todo'[d] = todo[d] /\ mine'[d] = mine[d]
      BY <2>1, <2>2, <3>1, InnerAsks
    <3>3. Asked(c, q, call[c])'
      BY <1>0, <2>1, <2>3, <3>2 DEF Asked, BodySteps, needs
    <3> QED  BY <1>0, <2>1, <3>2, <3>3, OthersStay DEF WriteInv, Fresh, Numbered
  <2>4. CASE call[c].step # "turn"
    <3>1. Asked(c, q, call[c])'
      BY <1>0, <2>1, <2>2, <2>4 DEF Asked
    <3>2. \A d \in Calls : d # c => at'[d] = at[d] /\ todo'[d] = todo[d] /\ mine'[d] = mine[d]
      <4>1. {} \subseteq Taken(c) \union todo[c]
        OBVIOUS
      <4> QED  BY <2>1, <2>2, <4>1, InnerAsks
    <3> QED  BY <1>0, <2>1, <3>1, <3>2, OthersStay DEF WriteInv, Fresh, Numbered
  <2> QED  BY <2>3, <2>4
<1>5. CASE Turn(c) /\ Leave(c)
  <2>1. at[c] = "leaves" /\ call' = call /\ todo' = todo
    BY <1>5 DEF Turn, Leave, taskVars
  <2> PICK k \in Keys : /\ mine' = [mine EXCEPT ![c][k] = 0]
                        /\ at' = [at EXCEPT ![c] = IF Taken(c) = {k} THEN "out" ELSE @]
    BY <1>5 DEF Leave
  <2>2. \A d \in Calls : d # c => at'[d] = at[d] /\ todo'[d] = todo[d] /\ mine'[d] = mine[d]
    BY <1>0, <2>1 DEF QueueTypeOK
  <2>3. call[c].step # "turn" /\ call[c].step \notin BodySteps
    BY <1>0, <2>1 DEF Asked
  <2>4. Asked(c, q, call[c])'
    BY <1>0, <2>1, <2>3 DEF Asked
  <2> QED  BY <1>0, <2>1, <2>2, <2>4, OthersStay DEF WriteInv, Fresh, Numbered
<1>6. CASE Ends(c)
  <2> PICK x : x = IF call[c].step = "missed" THEN [call[c] EXCEPT !.step = "again"] ELSE [IdleCall EXCEPT !.step = "done"]
    OBVIOUS
  <2>1. Goes(c, x) /\ WriteEnds(c)
    BY <1>6 DEF Ends
  <2>2. x.step \in {"again", "done"}
    BY <1>0 DEF Call, IdleCall
  <2>3. \A d \in Calls : d # c => at'[d] = at[d] /\ todo'[d] = todo[d] /\ mine'[d] = mine[d]
    BY <1>0, <2>1 DEF WriteEnds, QueueTypeOK
  <2>4. Asked(c, q, x)' /\ Fresh(q, x)
    BY <2>2 DEF Asked, Fresh, BodySteps
  <2> QED  BY <1>1, <2>1, <2>3, <2>4
<1> QED  BY <1>2, <1>3, <1>4, <1>5, <1>6 DEF Turn

(* The file that a write read, or a delete is about to rewrite, has a key that *)
(* the call needs.                                                             *)
LEMMA ReadIsNeeded ==
  ASSUME FileInv, WriteInv, NEW d \in Calls
  PROVE  /\ call[d].step \in {"check", "walk", "save"} /\ request[d].kind # "create" =>
              call[d].task \in Tasks /\ TaskKey(call[d].task) \in Needs(request[d], call[d])
         /\ call[d].step = "refsave" =>
              call[d].pos \in Tasks /\ TaskKey(call[d].pos) \in Needs(request[d], call[d])
<1>1. /\ Fits(request[d], call[d]) /\ Fresh(request[d], call[d])
      /\ call[d] \in Call /\ request[d] \in Request
  BY DEF FileInv, FileTypes, WriteInv
<1>2. CASE call[d].step \in {"check", "walk", "save"} /\ request[d].kind # "create"
  BY <1>1, <1>2 DEF Fits, Fresh, Needs, Request, Kinds
<1>3. CASE call[d].step = "refsave"
  BY <1>1, <1>3 DEF Fits, Fresh, Needs, DeleteKeys, DeleteSteps, Call
<1> QED  BY <1>2, <1>3

(* A step within a write that changes no file but one whose turn it holds, or *)
(* one that was not there.                                                    *)
LEMMA BodyMoves ==
  ASSUME FileInv, TurnInv, WriteInv, NEW c \in Calls, NEW x, Goes(c, x), UNCHANGED <<queueVars, request>>,
         at[c] = "writes", call[c].step \in BodySteps \union {"turn"},
         x.step \in BodySteps, Needs(request[c], x) = Needs(request[c], call[c]),
         \A t \in Tasks : \/ file'[t] = file[t]
                          \/ TaskKey(t) \in Needs(request[c], call[c])
                          \/ file[t].st = "none",
         Fresh(request[c], x)', Numbered'
  PROVE  WriteInv'
<1>0. call \in [Calls -> Call] /\ at' = at /\ mine' = mine /\ todo' = todo /\ request' = request
  BY DEF queueVars, FileInv, FileTypes
<1>1. call'[c] = x /\ \A d \in Calls : d # c => call'[d] = call[d]
  BY <1>0 DEF Goes
<1>2. Asked(c, request[c], call[c])'
  <2>1. Asked(c, request[c], call[c])
    BY DEF WriteInv
  <2>2. Taken(c)' = Taken(c)
    BY <1>0 DEF Taken
  <2> QED  BY <1>0, <1>1, <2>1, <2>2 DEF Asked, BodySteps
<1>3. ASSUME NEW d \in Calls, d # c  PROVE Fresh(request[d], call[d])'
  <2>1. Fresh(request[d], call[d]) /\ call'[d] = call[d]
    BY <1>1, <1>3 DEF WriteInv
  <2>2. ASSUME NEW t \in Tasks, TaskKey(t) \in Needs(request[d], call[d]), call[d].step \in BodySteps,
               file[t].st = "good"
        PROVE  file'[t] = file[t]
    <3>1. TaskKey(t) \in Keys
      BY TasksAssumption
    <3> QED  BY <1>3, <2>2, <3>1, WritersDiffer
  <2>3. CASE call[d].step \in {"check", "walk", "save"} /\ request[d].kind # "create"
    <3>1. file'[call[d].task] = file[call[d].task]
      BY <2>1, <2>2, <2>3, ReadIsNeeded DEF Fresh, BodySteps, Steps
    <3> QED  BY <1>0, <2>1, <2>3, <3>1 DEF Fresh
  <2>4. CASE call[d].step = "refsave"
    <3>1. file'[call[d].pos] = file[call[d].pos]
      BY <2>1, <2>2, <2>4, ReadIsNeeded DEF Fresh, BodySteps, Steps
    <3> QED  BY <1>0, <2>1, <2>4, <3>1 DEF Fresh
  <2>5. CASE ~(call[d].step \in {"check", "walk", "save"} /\ request[d].kind # "create") /\ call[d].step # "refsave"
    BY <1>0, <2>1, <2>5 DEF Fresh
  <2> QED  BY <2>3, <2>4, <2>5
<1>4. \A d \in Calls : Fresh(request[d], call[d])'
  BY <1>0, <1>1, <1>3
<1>5. \A d \in Calls : Asked(d, request[d], call[d])'
  BY <1>0, <1>1, <1>2, OthersStay
<1> QED  BY <1>4, <1>5 DEF WriteInv

(* The steps of a create, an update or a comment. *)
LEMMA WriteKeeps ==
  ASSUME FileInv, TurnInv, WriteInv, NEW c \in Calls, WriteStep(c)
  PROVE  WriteInv'
<1> DEFINE q == request[c]
<1>0. /\ call[c] \in Call /\ q \in Request /\ Fits(q, call[c]) /\ Fresh(q, call[c]) /\ Numbered
      /\ request' = request
  BY DEF FileInv, FileTypes, WriteInv, WriteStep, Opens, ChecksBlocker, ChecksParent, WalksUp, Saves, Creates,
         SaveFails, Applies, Within
<1>1. ASSUME NEW x, Goes(c, x), UNCHANGED <<queueVars, request>>, at[c] = "writes",
             call[c].step \in BodySteps \union {"turn"}, x.step \in BodySteps,
             x.task = call[c].task, x.covered = call[c].covered /\ x.blind = call[c].blind,
             file' = file, counter' = counter, Fresh(q, x)
      PROVE  WriteInv'
  <2>1. Fresh(q, x)' /\ Numbered'
    BY <1>0, <1>1 DEF Fresh, Numbered
  <2>2. Needs(q, x) = Needs(q, call[c])
    BY <1>1, NeedsStay
  <2> QED  BY <1>1, <2>1, <2>2, BodyMoves
<1>2. ASSUME Refused(c), UNCHANGED <<queueVars, request>>, at[c] = "writes",
             call[c].step \in BodySteps \union {"turn"}, file' = file, counter' = counter
      PROVE  WriteInv'
  <2> PICK x : x = [call[c] EXCEPT !.step = IF IsCreate(c) THEN "over" ELSE "apply"]
    OBVIOUS
  <2>1. Goes(c, x) /\ x.step \in {"over", "apply"} /\ x.task = call[c].task /\ x.covered = call[c].covered /\ x.blind = call[c].blind
    BY <1>0, <1>2 DEF Refused, To, Call
  <2>2. Fresh(q, x)
    BY <2>1 DEF Fresh
  <2> QED  BY <1>1, <1>2, <2>1, <2>2 DEF BodySteps, Steps
<1>3. ASSUME To(c, "save"), UNCHANGED <<queueVars, request>>, at[c] = "writes",
             call[c].step \in {"check", "walk"}, file' = file, counter' = counter
      PROVE  WriteInv'
  <2> PICK x : x = [call[c] EXCEPT !.step = "save"]
    OBVIOUS
  <2>1. Goes(c, x) /\ x.step = "save" /\ x.task = call[c].task /\ x.covered = call[c].covered /\ x.blind = call[c].blind /\ x.snap = call[c].snap
    BY <1>0, <1>3 DEF To, Call
  <2>2. Fresh(q, x)
    BY <1>0, <1>3, <2>1 DEF Fresh
  <2> QED  BY <1>1, <1>3, <2>1, <2>2 DEF BodySteps, Steps
<1>4. CASE Opens(c)
  <2>1. /\ UNCHANGED <<queueVars, request>> /\ at[c] = "writes" /\ call[c].step = "turn"
        /\ file' = file /\ counter' = counter /\ q.kind # "delete"
    BY <1>4 DEF Opens, Within, SameFiles
  <2>2. CASE Refused(c)
    BY <1>2, <2>1, <2>2
  <2>3. CASE ~Refused(c)
    <3> DEFINE f == IF IsCreate(c) THEN NewFile ELSE file[call[c].task]
    <3> PICK x : x = [call[c] EXCEPT !.step = IF Stated(q) = {} THEN "save" ELSE "check", !.snap = f, !.rest = Stated(q)]
      OBVIOUS
    <3>1. Goes(c, x) /\ f.st = "good"
      BY <1>4, <2>3 DEF Opens
    <3>2. /\ x.step \in {"save", "check"} /\ x.task = call[c].task /\ x.covered = call[c].covered /\ x.blind = call[c].blind
          /\ x.snap = f
      BY <1>0 DEF Call
    <3>3. Fresh(q, x)
      BY <2>1, <3>1, <3>2 DEF Fresh, IsCreate
    <3> QED  BY <1>1, <2>1, <3>1, <3>2, <3>3 DEF BodySteps, Steps
  <2> QED  BY <2>2, <2>3
<1>5. CASE ChecksBlocker(c)
  <2>1. /\ UNCHANGED <<queueVars, request>> /\ at[c] = "writes" /\ call[c].step = "check"
        /\ file' = file /\ counter' = counter
    BY <1>5 DEF ChecksBlocker, Within, SameFiles
  <2>2. CASE Refused(c)
    BY <1>2, <2>1, <2>2 DEF BodySteps, Steps
  <2>3. CASE ~Refused(c)
    <3> PICK u \in call[c].rest :
          Goes(c, [call[c] EXCEPT !.rest = @ \ {u}, !.step = IF call[c].rest = {u} THEN "save" ELSE @])
      BY <1>5, <2>3 DEF ChecksBlocker
    <3> PICK x : x = [call[c] EXCEPT !.rest = @ \ {u}, !.step = IF call[c].rest = {u} THEN "save" ELSE @]
      OBVIOUS
    <3>1. /\ Goes(c, x) /\ x.step \in {"save", "check"} /\ x.task = call[c].task /\ x.covered = call[c].covered /\ x.blind = call[c].blind
          /\ x.snap = call[c].snap
      BY <1>0, <2>1 DEF Call
    <3>2. Fresh(q, x)
      BY <1>0, <2>1, <3>1 DEF Fresh
    <3> QED  BY <1>1, <2>1, <3>1, <3>2 DEF BodySteps, Steps
  <2> QED  BY <2>2, <2>3
<1>6. CASE ChecksParent(c)
  <2>1. /\ UNCHANGED <<queueVars, request>> /\ at[c] = "writes" /\ call[c].step = "check"
        /\ file' = file /\ counter' = counter
    BY <1>6 DEF ChecksParent, Within, SameFiles
  <2>2. CASE Refused(c)
    BY <1>2, <2>1, <2>2 DEF BodySteps, Steps
  <2>3. CASE To(c, "save")
    BY <1>3, <2>1, <2>3
  <2>4. CASE ~Refused(c) /\ ~To(c, "save")
    <3> PICK x : x = [call[c] EXCEPT !.step = "walk", !.pos = q.parent, !.chain = {q.parent, call[c].task}]
      OBVIOUS
    <3>1. Goes(c, x)
      BY <1>6, <2>4 DEF ChecksParent
    <3>2. /\ x.step = "walk" /\ x.task = call[c].task /\ x.covered = call[c].covered /\ x.blind = call[c].blind
          /\ x.snap = call[c].snap
      BY <1>0 DEF Call
    <3>3. Fresh(q, x)
      BY <1>0, <2>1, <3>2 DEF Fresh
    <3> QED  BY <1>1, <2>1, <3>1, <3>2, <3>3 DEF BodySteps, Steps
  <2> QED  BY <2>2, <2>3, <2>4
<1>7. CASE WalksUp(c)
  <2>1. /\ UNCHANGED <<queueVars, request>> /\ at[c] = "writes" /\ call[c].step = "walk"
        /\ file' = file /\ counter' = counter
    BY <1>7 DEF WalksUp, Within, SameFiles
  <2>2. CASE Refused(c)
    BY <1>2, <2>1, <2>2 DEF BodySteps, Steps
  <2>3. CASE To(c, "save")
    BY <1>3, <2>1, <2>3
  <2>4. CASE ~Refused(c) /\ ~To(c, "save")
    <3> DEFINE up == Entry(file[call[c].pos]).parent
    <3> PICK x : x = [call[c] EXCEPT !.pos = up, !.chain = @ \union {up}]
      OBVIOUS
    <3>1. Goes(c, x)
      BY <1>7, <2>4 DEF WalksUp
    <3>2. /\ x.step = "walk" /\ x.task = call[c].task /\ x.covered = call[c].covered /\ x.blind = call[c].blind
          /\ x.snap = call[c].snap
      BY <1>0, <2>1 DEF Call
    <3>3. Fresh(q, x)
      BY <1>0, <2>1, <3>2 DEF Fresh
    <3> QED  BY <1>1, <2>1, <3>1, <3>2, <3>3 DEF BodySteps, Steps
  <2> QED  BY <2>2, <2>3, <2>4
<1>8. CASE Saves(c)
  <2> DEFINE t == call[c].task
             new == Changed(call[c].snap, q)
  <2> PICK x : x = [call[c] EXCEPT !.step = "apply"]
    OBVIOUS
  <2>1. /\ UNCHANGED <<queueVars, request>> /\ at[c] = "writes" /\ call[c].step = "save" /\ counter' = counter
        /\ q.kind # "create" /\ Goes(c, x) /\ (file' = file \/ file' = [file EXCEPT ![t] = new])
    BY <1>8 DEF Saves, Within, To, IsCreate
  <2>2. x.step = "apply" /\ x.task = t /\ x.covered = call[c].covered /\ x.blind = call[c].blind
    BY <1>0 DEF Call
  <2>3. t \in Tasks /\ TaskKey(t) \in Needs(q, call[c])
    BY <2>1, ReadIsNeeded
  <2>4. file[t].st = "good" /\ new.st = "good" /\ new \in File /\ file \in [Tasks -> File]
    BY <1>0, <2>1, Built, RewritesStand DEF Fresh, Call, FileInv, FileTypes
  <2> HIDE DEF new, t
  <2>5. Numbered'
    BY <1>0, <2>1, <2>3, <2>4 DEF Numbered
  <2>6. \A u \in Tasks : file'[u] = file[u] \/ TaskKey(u) \in Needs(q, call[c])
    BY <2>1, <2>3, <2>4
  <2>7. Fresh(q, x)' /\ Needs(q, x) = Needs(q, call[c])
    BY <2>2, NeedsStay DEF Fresh, t
  <2> QED  BY <2>1, <2>2, <2>5, <2>6, <2>7, BodyMoves DEF BodySteps, Steps
<1>9. CASE Creates(c)
  <2> DEFINE new == Changed(NewFile, q)
  <2> PICK x : x = [call[c] EXCEPT !.step = "apply", !.task = counter]
    OBVIOUS
  <2>1. /\ UNCHANGED <<queueVars, request>> /\ at[c] = "writes" /\ call[c].step = "save" /\ counter' = counter + 1
        /\ q.kind = "create" /\ Goes(c, x) /\ file' = [file EXCEPT ![counter] = new] /\ counter \in Tasks
    BY <1>9 DEF Creates, Within, IsCreate
  <2>2. x.step = "apply" /\ x.blind = call[c].blind
    BY <1>0 DEF Call
  <2>3. file \in [Tasks -> File] /\ counter \in Nat /\ Tasks \subseteq Nat
    BY TasksAssumption DEF FileInv, FileTypes
  <2> HIDE DEF new
  <2>4. Numbered'
    BY <1>0, <2>1, <2>3 DEF Numbered
  <2>5. file[counter].st = "none"
    <3>1. file[counter].st # "none" => counter < counter
      BY <1>0, <2>1 DEF Numbered
    <3> QED  BY <2>3, <3>1
  <2>6. \A u \in Tasks : file'[u] = file[u] \/ file[u].st = "none"
    BY <2>1, <2>3, <2>5
  <2>7. Fresh(q, x)' /\ Needs(q, x) = Needs(q, call[c])
    BY <2>1, <2>2, NeedsStay DEF Fresh
  <2> QED  BY <2>1, <2>2, <2>4, <2>6, <2>7, BodyMoves DEF BodySteps, Steps
<1>10. CASE SaveFails(c)
  BY <1>2, <1>10 DEF SaveFails, Within, BodySteps, Steps
<1>11. CASE Applies(c)
  <2> PICK x : x = [call[c] EXCEPT !.step = "over"]
    OBVIOUS
  <2>1. /\ UNCHANGED <<queueVars, request>> /\ at[c] = "writes" /\ call[c].step = "apply"
        /\ file' = file /\ counter' = counter /\ Goes(c, x)
    BY <1>11 DEF Applies, Within, To
  <2>2. x.step = "over" /\ x.task = call[c].task /\ x.covered = call[c].covered /\ x.blind = call[c].blind
    BY <1>0 DEF Call
  <2>3. Fresh(q, x)
    BY <2>2 DEF Fresh
  <2> QED  BY <1>1, <2>1, <2>2, <2>3 DEF BodySteps, Steps
<1> QED  BY <1>4, <1>5, <1>6, <1>7, <1>8, <1>9, <1>10, <1>11 DEF WriteStep

(* The steps of a delete. *)
LEMMA DeleteKeeps ==
  ASSUME FileInv, TurnInv, WriteInv, NEW c \in Calls, DeleteStep(c)
  PROVE  WriteInv'
<1> DEFINE q == request[c]
<1>0. /\ call[c] \in Call /\ Fits(q, call[c]) /\ Fresh(q, call[c]) /\ Numbered
      /\ UNCHANGED <<queueVars, request>> /\ counter' = counter /\ at[c] = "writes"
  BY DEF FileInv, FileTypes, WriteInv, DeleteStep, Looks, Removes, Unlists, OpensReference, SavesReference,
         AppliesReference, Within, SameFiles
<1>1. ASSUME NEW x, Goes(c, x), call[c].step \in BodySteps \union {"turn"}, x.step \in BodySteps,
             x.task = call[c].task, x.covered = call[c].covered /\ x.blind = call[c].blind, file' = file, Fresh(q, x)
      PROVE  WriteInv'
  <2>1. Fresh(q, x)' /\ Numbered'
    BY <1>0, <1>1 DEF Fresh, Numbered
  <2>2. Needs(q, x) = Needs(q, call[c])
    BY <1>1, NeedsStay
  <2> QED  BY <1>0, <1>1, <2>1, <2>2, BodyMoves
<1>2. ASSUME NEW x, Goes(c, x), NEW t \in Tasks, TaskKey(t) \in DeleteKeys(call[c].task, call[c].covered),
             call[c].step \in BodySteps \intersect DeleteSteps, x.step \in BodySteps,
             x.task = call[c].task, x.covered = call[c].covered /\ x.blind = call[c].blind,
             NEW f \in File, file' = [file EXCEPT ![t] = f], f.st = "none" \/ f.st = file[t].st, Fresh(q, x)'
      PROVE  WriteInv'
  <2>1. q.kind = "delete" /\ Needs(q, x) = Needs(q, call[c]) /\ TaskKey(t) \in Needs(q, call[c])
    BY <1>0, <1>2 DEF Fits, Needs
  <2>2. file \in [Tasks -> File]
    BY DEF FileInv, FileTypes
  <2>3. Numbered'
    BY <1>0, <1>2, <2>2 DEF Numbered
  <2>4. \A u \in Tasks : file'[u] = file[u] \/ TaskKey(u) \in Needs(q, call[c])
    BY <1>2, <2>1, <2>2
  <2> QED  BY <1>0, <1>2, <2>1, <2>3, <2>4, BodyMoves
<1>3. CASE Looks(c)
  <2> DEFINE now == ReferencesTo(call[c].task)
  <2> PICK x : x = [call[c] EXCEPT !.rest = now, !.step = IF Missed(now, call[c].covered) THEN "missed" ELSE "remove"]
    OBVIOUS
  <2>1. Goes(c, x) /\ call[c].step = "turn" /\ file' = file
    BY <1>3 DEF Looks, Within, SameFiles
  <2>2. /\ x.task = call[c].task /\ x.covered = call[c].covered /\ x.blind = call[c].blind /\ x.rest = now
        /\ x.step = "missed" \/ (x.step = "remove" /\ ~Missed(now, call[c].covered))
    BY <1>0 DEF Call
  <2>3. Fresh(q, x)
    BY <2>2 DEF Fresh, Missed
  <2> QED  BY <1>1, <2>1, <2>2, <2>3 DEF BodySteps, Steps
<1>4. CASE Removes(c)
  <2>1. call[c].step = "remove" /\ call[c].task \in Tasks
    BY <1>0, <1>4 DEF Removes, Within, Fits, DeleteSteps
  <2>2. CASE To(c, "unlist") /\ file' = [file EXCEPT ![call[c].task] = NoFile]
    <3> PICK x : x = [call[c] EXCEPT !.step = "unlist"]
      OBVIOUS
    <3>1. Goes(c, x) /\ x.step = "unlist" /\ x.task = call[c].task /\ x.covered = call[c].covered /\ x.blind = call[c].blind /\ x.rest = call[c].rest
      BY <1>0, <2>2 DEF To, Call
    <3>2. Fresh(q, x)'
      BY <1>0, <2>1, <3>1 DEF Fresh
    <3>3. NoFile \in File /\ NoFile.st = "none"
      BY DEF NoFile, File
    <3>4. TaskKey(call[c].task) \in DeleteKeys(call[c].task, call[c].covered)
      BY DEF DeleteKeys
    <3> QED  BY <1>2, <2>1, <2>2, <3>1, <3>2, <3>3, <3>4 DEF BodySteps, Steps, DeleteSteps
  <2>3. CASE Goes(c, [call[c] EXCEPT !.step = "unlist", !.rest = {}]) /\ file' = file
    <3> PICK x : x = [call[c] EXCEPT !.step = "unlist", !.rest = {}]
      OBVIOUS
    <3>1. Goes(c, x) /\ x.step = "unlist" /\ x.task = call[c].task /\ x.covered = call[c].covered /\ x.blind = call[c].blind /\ x.rest = {}
      BY <1>0, <2>3 DEF Call
    <3>2. Fresh(q, x)
      BY <3>1 DEF Fresh
    <3> QED  BY <1>1, <2>1, <2>3, <3>1, <3>2 DEF BodySteps, Steps
  <2> QED  BY <1>4, <2>2, <2>3 DEF Removes
<1>5. CASE Unlists(c)
  <2> PICK x : x = [call[c] EXCEPT !.step = AfterRefs(call[c].rest)]
    OBVIOUS
  <2>1. Goes(c, x) /\ call[c].step = "unlist" /\ file' = file
    BY <1>5 DEF Unlists, Within, To
  <2>2. x.step \in {"over", "refs"} /\ x.task = call[c].task /\ x.covered = call[c].covered /\ x.blind = call[c].blind /\ x.rest = call[c].rest
    BY <1>0 DEF Call, AfterRefs
  <2>3. Fresh(q, x)
    BY <1>0, <2>1, <2>2 DEF Fresh
  <2> QED  BY <1>1, <2>1, <2>2, <2>3 DEF BodySteps, Steps
<1>6. CASE OpensReference(c)
  <2>1. call[c].step = "refs" /\ file' = file
    BY <1>6 DEF OpensReference, Within
  <2> PICK r \in Tasks :
        /\ Least(call[c].rest, r)
        /\ Goes(c, [call[c] EXCEPT !.pos = r, !.snap = file[r],
             !.step = IF file[r].st = "good" /\ call[c].task \in Names(file[r]) THEN "refsave" ELSE "refapply"])
    BY <1>6 DEF OpensReference
  <2> PICK x : x = [call[c] EXCEPT !.pos = r, !.snap = file[r],
               !.step = IF file[r].st = "good" /\ call[c].task \in Names(file[r]) THEN "refsave" ELSE "refapply"]
    OBVIOUS
  <2>2. /\ Goes(c, x) /\ x.task = call[c].task /\ x.covered = call[c].covered /\ x.blind = call[c].blind /\ x.rest = call[c].rest
        /\ x.pos = r /\ x.snap = file[r] /\ (x.step = "refapply" \/ (x.step = "refsave" /\ file[r].st = "good"))
    BY <1>0 DEF Call
  <2>3. Fresh(q, x)
    BY <1>0, <2>1, <2>2 DEF Fresh, Least
  <2> QED  BY <1>1, <2>1, <2>2, <2>3 DEF BodySteps, Steps
<1>7. CASE SavesReference(c)
  <2> DEFINE new == Without(call[c].snap, call[c].task)
  <2> PICK x : x = [call[c] EXCEPT !.step = "refapply"]
    OBVIOUS
  <2>1. /\ call[c].step = "refsave" /\ Goes(c, x)
        /\ file' = file \/ file' = [file EXCEPT ![call[c].pos] = new]
    BY <1>7 DEF SavesReference, Within, To
  <2>2. /\ x.step = "refapply" /\ x.task = call[c].task /\ x.covered = call[c].covered /\ x.blind = call[c].blind
        /\ x.rest = call[c].rest /\ x.pos = call[c].pos
    BY <1>0 DEF Call
  <2>3. /\ call[c].pos \in Tasks /\ call[c].pos \in call[c].covered
        /\ new \in File /\ new.st = file[call[c].pos].st
    BY <1>0, <2>1, Built, RewritesStand DEF Fits, Fresh, DeleteSteps, Call
  <2>4. TaskKey(call[c].pos) \in DeleteKeys(call[c].task, call[c].covered)
    BY <2>3 DEF DeleteKeys
  <2> HIDE DEF new
  <2>5. Fresh(q, x) /\ Fresh(q, x)'
    BY <1>0, <2>1, <2>2 DEF Fresh
  <2>6. CASE file' = file
    BY <1>1, <2>1, <2>2, <2>5, <2>6 DEF BodySteps, Steps
  <2>7. CASE file' = [file EXCEPT ![call[c].pos] = new]
    BY <1>2, <2>1, <2>2, <2>3, <2>4, <2>5, <2>7 DEF BodySteps, Steps, DeleteSteps
  <2> QED  BY <2>1, <2>6, <2>7
<1>8. CASE AppliesReference(c)
  <2> PICK x : x = [call[c] EXCEPT !.rest = @ \ {call[c].pos}, !.step = AfterRefs(call[c].rest \ {call[c].pos})]
    OBVIOUS
  <2>1. Goes(c, x) /\ call[c].step = "refapply" /\ file' = file
    BY <1>8 DEF AppliesReference, Within
  <2>2. /\ x.step \in {"over", "refs"} /\ x.task = call[c].task /\ x.covered = call[c].covered /\ x.blind = call[c].blind
        /\ x.rest = call[c].rest \ {call[c].pos}
    BY <1>0 DEF Call, AfterRefs
  <2>3. Fresh(q, x)
    BY <1>0, <2>1, <2>2 DEF Fresh
  <2> QED  BY <1>1, <2>1, <2>2, <2>3 DEF BodySteps, Steps
<1> QED  BY <1>3, <1>4, <1>5, <1>6, <1>7, <1>8 DEF DeleteStep

(* The invariant of the proof holds in every state. *)
THEOREM WritesHold == Spec => []WriteInv
<1>1. FileInv /\ TurnInv /\ WriteInv /\ [Next]_vars => WriteInv'
  <2> SUFFICES ASSUME FileInv, TurnInv, WriteInv, [Next]_vars  PROVE WriteInv'
    OBVIOUS
  <2>1. ASSUME NEW c \in Calls, Begin(c) \/ CallStep(c)  PROVE WriteInv'
    BY <2>1, AskingKeeps, WriteKeeps, DeleteKeeps DEF CallStep
  <2>2. ASSUME NEW t \in Tasks, Watches(t)  PROVE WriteInv'
    BY <2>2 DEF Watches, queueVars, WriteInv, Asked, Fresh, Numbered, Taken
  <2>3. CASE UNCHANGED vars
    BY <2>3 DEF vars, queueVars, taskVars, WriteInv, Asked, Fresh, Numbered, Taken
  <2> QED  BY <2>1, <2>2, <2>3 DEF Next
<1> QED  BY <1>1, InitWrites, FilesHold, WritesUseTheQueue, TurnsHold, PTL DEF Spec

(* No write takes another one away: what a save replaces is what its writer *)
(* read, and a create never meets a file (`updateTask`, `addComment`,       *)
(* `removeReference` and `createTaskFile` under the turns of the routes).   *)
THEOREM SavesFitHolds == Spec => SavesFit
<1> DEFINE Fit(c) == /\ Saves(c) => file[call[c].task] = call[c].snap
                     /\ SavesReference(c) => file[call[c].pos] = call[c].snap
                     /\ Creates(c) => file[counter].st = "none"
<1>1. FileInv /\ WriteInv => [\A c \in Calls : Fit(c)]_vars
  <2> SUFFICES ASSUME FileInv, WriteInv, NEW c \in Calls  PROVE Fit(c)
    OBVIOUS
  <2>1. Fresh(request[c], call[c]) /\ Numbered /\ counter \in Nat
    BY DEF WriteInv, FileInv, FileTypes
  <2>2. Saves(c) => file[call[c].task] = call[c].snap
    BY <2>1 DEF Saves, Within, IsCreate, Fresh
  <2>3. SavesReference(c) => file[call[c].pos] = call[c].snap
    BY <2>1 DEF SavesReference, Within, Fresh
  <2>4. Creates(c) => file[counter].st = "none"
    BY <2>1 DEF Creates, Numbered
  <2> QED  BY <2>2, <2>3, <2>4
<1> QED  BY <1>1, FilesHold, WritesHold, PTL DEF SavesFit

-----------------------------------------------------------------------------
(* The index. *)

(* A call that is about to have a file read back into the index. *)
ReadsBack(x, t) == (x.step \in {"apply", "unlist"} /\ x.task = t) \/ (x.step = "refapply" /\ x.pos = t)

(* Wherever the index is not the disk, a call will read the file back. *)
ReadBackInv == \A t \in Tasks : index[t] = Entry(file[t]) \/ \E c \in Calls : ReadsBack(call[c], t)

(* A step of a call that reads nothing back and leaves the files and the index. *)
LEMMA NothingReadBack ==
  ASSUME FileInv, ReadBackInv, NEW c \in Calls, file' = file, index' = index,
         \A d \in Calls : d # c => call'[d] = call[d],
         call[c].step \notin {"apply", "unlist", "refapply"} \/ call'[c] = call[c]
  PROVE  ReadBackInv'
<1> SUFFICES ASSUME NEW t \in Tasks, index[t] # Entry(file[t])
             PROVE  \E d \in Calls : ReadsBack(call'[d], t)
  BY DEF ReadBackInv
<1>1. PICK d \in Calls : ReadsBack(call[d], t)
  BY DEF ReadBackInv
<1>2. call'[d] = call[d]
  BY <1>1 DEF ReadsBack
<1> QED  BY <1>1, <1>2

(* A step of a call that changes one file and goes on to read it back. *)
LEMMA ChangeReadBack ==
  ASSUME FileInv, ReadBackInv, NEW c \in Calls, index' = index,
         \A d \in Calls : d # c => call'[d] = call[d],
         call[c].step \notin {"apply", "unlist", "refapply"},
         NEW u, \A t \in Tasks : t # u => file'[t] = file[t], ReadsBack(call'[c], u)
  PROVE  ReadBackInv'
<1> SUFFICES ASSUME NEW t \in Tasks, index[t] # Entry(file'[t])
             PROVE  \E d \in Calls : ReadsBack(call'[d], t)
  BY DEF ReadBackInv
<1>1. CASE t = u
  BY <1>1
<1>2. CASE t # u
  <2>1. PICK d \in Calls : ReadsBack(call[d], t)
    BY <1>2 DEF ReadBackInv
  <2>2. call'[d] = call[d]
    BY <2>1 DEF ReadsBack
  <2> QED  BY <2>1, <2>2
<1> QED  BY <1>1, <1>2

(* The step that reads the file back. *)
LEMMA ReadBackDone ==
  ASSUME FileInv, ReadBackInv, NEW c \in Calls, NEW u, file' = file,
         index' = [index EXCEPT ![u] = ReadBack(c, u)],
         \A d \in Calls : d # c => call'[d] = call[d],
         \A t \in Tasks : ReadsBack(call[c], t) => t = u
  PROVE  ReadBackInv'
<1> SUFFICES ASSUME NEW t \in Tasks, index'[t] # Entry(file[t])
             PROVE  \E d \in Calls : ReadsBack(call'[d], t)
  BY DEF ReadBackInv
<1>1. t # u /\ index'[t] = index[t]
  BY DEF FileInv, FileTypes, ReadBack
<1>2. PICK d \in Calls : ReadsBack(call[d], t)
  BY <1>1 DEF ReadBackInv
<1>3. d # c
  BY <1>1, <1>2
<1> QED  BY <1>2, <1>3

(* Every step keeps what is still to be read back. *)
LEMMA NextReadsBack == FileInv /\ ReadBackInv /\ [Next]_vars => ReadBackInv'
<1> SUFFICES ASSUME FileInv, ReadBackInv, [Next]_vars  PROVE ReadBackInv'
  OBVIOUS
<1>1. ASSUME NEW c \in Calls, NEW x, Goes(c, x)
      PROVE  call'[c] = x /\ \A d \in Calls : d # c => call'[d] = call[d]
  BY <1>1 DEF Goes, FileInv, FileTypes
<1>2. ASSUME NEW c \in Calls, NEW step, To(c, step)
      PROVE  /\ call'[c] = [call[c] EXCEPT !.step = step] /\ call'[c].step = step /\ call'[c].task = call[c].task
             /\ call'[c].pos = call[c].pos /\ \A d \in Calls : d # c => call'[d] = call[d]
  <2>1. call[c] \in Call
    BY DEF FileInv, FileTypes
  <2> QED  BY <1>1, <1>2, <2>1 DEF To, Call
<1>3. ASSUME NEW c \in Calls, Begin(c) \/ Again(c) \/ Ends(c) \/ Opens(c) \/ ChecksBlocker(c) \/ ChecksParent(c)
                             \/ WalksUp(c) \/ SaveFails(c) \/ Looks(c) \/ OpensReference(c)
      PROVE  ReadBackInv'
  <2>1. \A d \in Calls : d # c => call'[d] = call[d]
    BY <1>3 DEF Begin, Again, Ends, Opens, ChecksBlocker, ChecksParent, WalksUp, SaveFails, Looks, OpensReference,
                Refused, To, Goes, FileInv, FileTypes
  <2>2. file' = file /\ index' = index /\ call[c].step \notin {"apply", "unlist", "refapply"}
    BY <1>3 DEF Begin, Again, Ends, Opens, ChecksBlocker, ChecksParent, WalksUp, SaveFails, Looks, OpensReference,
                Within, SameFiles
  <2> QED  BY <2>1, <2>2, NothingReadBack
<1>4. ASSUME NEW c \in Calls, Turn(c)  PROVE ReadBackInv'
  BY <1>4 DEF Turn, taskVars, ReadBackInv
<1>5. ASSUME NEW c \in Calls, Saves(c)  PROVE ReadBackInv'
  <2> PICK u : u = call[c].task
    OBVIOUS
  <2>1. /\ To(c, "apply") /\ index' = index /\ call[c].step = "save"
        /\ \A t \in Tasks : t # u => file'[t] = file[t]
    BY <1>5 DEF Saves, Within, FileInv, FileTypes
  <2>2. ReadsBack(call'[c], u) /\ \A d \in Calls : d # c => call'[d] = call[d]
    BY <1>2, <2>1 DEF ReadsBack
  <2>3. call[c].step \notin {"apply", "unlist", "refapply"}
    BY <2>1
  <2> QED  BY <2>1, <2>2, <2>3, ChangeReadBack
<1>6. ASSUME NEW c \in Calls, Creates(c)  PROVE ReadBackInv'
  <2> PICK x : x = [call[c] EXCEPT !.step = "apply", !.task = counter]
    OBVIOUS
  <2>1. /\ Goes(c, x) /\ index' = index /\ call[c].step = "save"
        /\ \A t \in Tasks : t # counter => file'[t] = file[t]
    BY <1>6 DEF Creates, Within, FileInv, FileTypes
  <2>2. x.step = "apply" /\ x.task = counter
    BY DEF FileInv, FileTypes, Call
  <2>3. ReadsBack(call'[c], counter)
    BY <1>1, <2>1, <2>2 DEF ReadsBack
  <2> QED  BY <1>1, <2>1, <2>3, ChangeReadBack
<1>7. ASSUME NEW c \in Calls, Removes(c)  PROVE ReadBackInv'
  <2>1. index' = index /\ call[c].step = "remove"
    BY <1>7 DEF Removes, Within
  <2>2. CASE To(c, "unlist") /\ file' = [file EXCEPT ![call[c].task] = NoFile]
    <3> PICK u : u = call[c].task
      OBVIOUS
    <3>1. ReadsBack(call'[c], u) /\ \A d \in Calls : d # c => call'[d] = call[d]
      BY <1>2, <2>2 DEF ReadsBack
    <3>2. \A t \in Tasks : t # u => file'[t] = file[t]
      BY <2>2 DEF FileInv, FileTypes
    <3>3. call[c].step \notin {"apply", "unlist", "refapply"}
      BY <2>1
    <3> QED  BY <2>1, <3>1, <3>2, <3>3, ChangeReadBack
  <2>3. CASE Goes(c, [call[c] EXCEPT !.step = "unlist", !.rest = {}]) /\ file' = file
    <3>1. \A d \in Calls : d # c => call'[d] = call[d]
      BY <2>3 DEF Goes, FileInv, FileTypes
    <3> QED  BY <2>1, <2>3, <3>1, NothingReadBack
  <2> QED  BY <1>7, <2>2, <2>3 DEF Removes
<1>8. ASSUME NEW c \in Calls, SavesReference(c)  PROVE ReadBackInv'
  <2> PICK u : u = call[c].pos
    OBVIOUS
  <2>1. /\ To(c, "refapply") /\ index' = index /\ call[c].step = "refsave"
        /\ \A t \in Tasks : t # u => file'[t] = file[t]
    BY <1>8 DEF SavesReference, Within, FileInv, FileTypes
  <2>2. ReadsBack(call'[c], u) /\ \A d \in Calls : d # c => call'[d] = call[d]
    BY <1>2, <2>1 DEF ReadsBack
  <2>3. call[c].step \notin {"apply", "unlist", "refapply"}
    BY <2>1
  <2> QED  BY <2>1, <2>2, <2>3, ChangeReadBack
<1>9. ASSUME NEW c \in Calls, Applies(c) \/ Unlists(c)  PROVE ReadBackInv'
  <2>1. /\ index' = [index EXCEPT ![call[c].task] = ReadBack(c, call[c].task)] /\ file' = file
        /\ call[c].step \in {"apply", "unlist"}
    BY <1>9 DEF Applies, Unlists, Within
  <2>2. \A d \in Calls : d # c => call'[d] = call[d]
    BY <1>9 DEF Applies, Unlists, To, Goes, FileInv, FileTypes
  <2>3. \A t \in Tasks : ReadsBack(call[c], t) => t = call[c].task
    BY <2>1 DEF ReadsBack
  <2> QED  BY <2>1, <2>2, <2>3, ReadBackDone
<1>10. ASSUME NEW c \in Calls, AppliesReference(c)  PROVE ReadBackInv'
  <2>1. /\ index' = [index EXCEPT ![call[c].pos] = ReadBack(c, call[c].pos)] /\ file' = file
        /\ call[c].step = "refapply"
    BY <1>10 DEF AppliesReference, Within
  <2>2. \A d \in Calls : d # c => call'[d] = call[d]
    BY <1>10 DEF AppliesReference, Goes, FileInv, FileTypes
  <2>3. \A t \in Tasks : ReadsBack(call[c], t) => t = call[c].pos
    BY <2>1 DEF ReadsBack
  <2> QED  BY <2>1, <2>2, <2>3, ReadBackDone
<1>11. ASSUME NEW t \in Tasks, Watches(t)  PROVE ReadBackInv'
  BY <1>11 DEF Watches, ReadBackInv, FileInv, FileTypes
<1>12. CASE UNCHANGED vars
  BY <1>12 DEF vars, taskVars, ReadBackInv
<1> QED  BY <1>3, <1>4, <1>5, <1>6, <1>7, <1>8, <1>9, <1>10, <1>11, <1>12 DEF Next, CallStep, WriteStep, DeleteStep

(* A call that will read a file back is inside the turn of its task, or has just *)
(* created it.                                                                   *)
LEMMA ReadBackInTurn ==
  ASSUME FileInv, WriteInv, NEW c \in Calls, NEW t \in Tasks, ReadsBack(call[c], t)
  PROVE  at[c] = "writes" /\ (TaskKey(t) \in Taken(c) \/ (IsCreate(c) /\ call[c].task = t))
<1>1. /\ Fits(request[c], call[c]) /\ Fresh(request[c], call[c]) /\ Asked(c, request[c], call[c])
      /\ call[c] \in Call /\ request[c] \in Request
  BY DEF FileInv, FileTypes, WriteInv
<1>2. at[c] = "writes" /\ Needs(request[c], call[c]) \subseteq Taken(c)
  BY <1>1 DEF ReadsBack, Asked, BodySteps, Steps
<1>3. CASE call[c].step \in {"apply", "unlist"} /\ call[c].task = t
  <2>1. CASE IsCreate(c)
    BY <1>2, <1>3, <2>1
  <2>2. CASE ~IsCreate(c)
    <3>1. TaskKey(t) \in Needs(request[c], call[c])
      BY <1>1, <1>3, <2>2 DEF Fits, Needs, DeleteKeys, Request, Kinds, IsCreate
    <3> QED  BY <1>2, <3>1
  <2> QED  BY <2>1, <2>2
<1>4. CASE call[c].step = "refapply" /\ call[c].pos = t
  <2>1. TaskKey(t) \in Needs(request[c], call[c])
    BY <1>1, <1>4 DEF Fits, Fresh, Needs, DeleteKeys, DeleteSteps
  <2> QED  BY <1>2, <2>1
<1> QED  BY <1>3, <1>4 DEF ReadsBack

(* Of the writes of tasks too, each stands in the lines of all its keys and  *)
(* runs as the first of them (`run` and `runAll` of serialize.ts).           *)
THEOREM WritesKeepPromise == Spec => PromiseHolds
BY WritesUseTheQueue, PromiseKept

(* The index is the disk wherever no write is inside the turn of the task, or *)
(* has just created it (`#write` and `#applied` of the indexed project).      *)
THEOREM IndexAgreesHolds == Spec => []IndexAgrees
<1>1. Init => ReadBackInv
  BY DEF Init, ReadBackInv
<1>2. FileInv /\ ReadBackInv /\ [Next]_vars => ReadBackInv'
  BY NextReadsBack
<1>3. FileInv /\ WriteInv /\ ReadBackInv => IndexAgrees
  BY ReadBackInTurn DEF ReadBackInv, IndexAgrees
<1> QED  BY <1>1, <1>2, <1>3, FilesHold, WritesHold, PTL DEF Spec

-----------------------------------------------------------------------------
(* The references between tasks. *)

(* What a change names, it named before or the request states. *)
LEMMA ChangedNames ==
  ASSUME NEW f \in File, NEW q \in Request
  PROVE  /\ \A u \in Names(Changed(f, q)) : u \in Names(f) \/ (q.kind # "comment" /\ u \in Stated(q))
         /\ \/ Changed(f, q).parent = f.parent
            \/ q.kind # "comment" /\ q.field = "parent" /\ Changed(f, q).parent = q.parent
         /\ Changed(f, q).st = f.st
<1>1. CASE q.kind = "comment"
  <2>1. Changed(f, q) = [f EXCEPT !.notes = @ + 1]
    BY <1>1 DEF Changed
  <2>2. Changed(f, q).parent = f.parent /\ Changed(f, q).blockers = f.blockers /\ Changed(f, q).st = f.st
    BY <2>1 DEF File
  <2> QED  BY <2>2 DEF Names
<1>2. CASE q.kind # "comment" /\ q.field = "parent"
  <2>1. Changed(f, q) = [f EXCEPT !.parent = q.parent] /\ Stated(q) = {q.parent} \ {0}
    BY <1>2 DEF Changed, Stated
  <2> QED  BY <1>2, <2>1 DEF File, Names
<1>3. CASE q.kind # "comment" /\ q.field = "blocked_by"
  BY <1>3 DEF Changed, File, Names, Stated
<1>4. CASE q.kind # "comment" /\ q.field \notin {"parent", "blocked_by"}
  BY <1>4 DEF Changed
<1> QED  BY <1>1, <1>2, <1>3, <1>4

(* A file without a task names the others. *)
LEMMA WithoutNames ==
  ASSUME NEW f \in File, NEW v \in Tasks
  PROVE  /\ Names(Without(f, v)) \subseteq Names(f) \ {v}
         /\ Without(f, v).parent \in {f.parent, 0}
         /\ Without(f, v).st = f.st
<1>1. 0 \notin Tasks
  BY TasksAssumption
<1> QED  BY <1>1 DEF Without, File, Names

(* A save of a write puts the change at the task that the call read. *)
LEMMA SavesIs ==
  ASSUME FileInv, WriteInv, NEW c \in Calls, Saves(c)
  PROVE  /\ call[c].step = "save" /\ at[c] = "writes" /\ request[c].kind \in {"update", "comment"}
         /\ call[c].task \in Tasks /\ file[call[c].task].st = "good"
         /\ file'[call[c].task] = Changed(file[call[c].task], request[c])
         /\ \A s \in Tasks : s # call[c].task => file'[s] = file[s]
         /\ loose' = loose \union Loose(c, call[c].task, Changed(file[call[c].task], request[c]))
         /\ call'[c] = [call[c] EXCEPT !.step = "apply"]
         /\ UNCHANGED <<index, counter, reported>>
<1>0. /\ call \in [Calls -> Call] /\ file \in [Tasks -> File] /\ request[c] \in Request
      /\ Fits(request[c], call[c]) /\ Fresh(request[c], call[c])
  BY DEF FileInv, FileTypes, WriteInv
<1>1. call[c].step = "save" /\ at[c] = "writes" /\ request[c].kind # "create" /\ request[c].kind # "delete"
  BY <1>0 DEF Saves, Within, IsCreate, Fresh
<1>2. request[c].kind \in {"update", "comment"}
  BY <1>0, <1>1 DEF Request, Kinds
<1>3. call[c].task \in Tasks /\ file[call[c].task] = call[c].snap /\ file[call[c].task].st = "good"
  BY <1>0, <1>1 DEF Fits, Fresh
<1>4. /\ file' = IF Changed(call[c].snap, request[c]) = call[c].snap THEN file
                 ELSE [file EXCEPT ![call[c].task] = Changed(call[c].snap, request[c])]
      /\ loose' = loose \union Loose(c, call[c].task, Changed(call[c].snap, request[c]))
      /\ UNCHANGED <<index, counter, reported>>
  BY DEF Saves
<1>5. call'[c] = [call[c] EXCEPT !.step = "apply"]
  BY <1>0 DEF Saves, To, Goes
<1> QED  BY <1>0, <1>1, <1>2, <1>3, <1>4, <1>5

(* A create puts its file at a number that had none. *)
LEMMA CreatesIs ==
  ASSUME FileInv, WriteInv, NEW c \in Calls, Creates(c)
  PROVE  /\ call[c].step = "save" /\ at[c] = "writes" /\ request[c].kind = "create"
         /\ counter \in Tasks /\ file[counter].st = "none" /\ counter' = counter + 1
         /\ file'[counter] = Changed(NewFile, request[c])
         /\ \A s \in Tasks : s # counter => file'[s] = file[s]
         /\ loose' = loose \union Loose(c, counter, Changed(NewFile, request[c]))
         /\ call'[c] = [call[c] EXCEPT !.step = "apply", !.task = counter]
         /\ UNCHANGED <<index, reported>>
<1>0. call \in [Calls -> Call] /\ file \in [Tasks -> File] /\ Numbered /\ counter \in Nat
  BY DEF FileInv, FileTypes, WriteInv
<1>1. file[counter].st = "none"
  <2>1. counter \in Tasks /\ ~(counter < counter)
    BY <1>0 DEF Creates
  <2> QED  BY <1>0, <2>1 DEF Numbered
<1>2. call'[c] = [call[c] EXCEPT !.step = "apply", !.task = counter]
  BY <1>0 DEF Creates, Goes
<1> QED  BY <1>0, <1>1, <1>2 DEF Creates, Within, IsCreate

(* A delete writes a file back without the task that it deletes, or reports *)
(* that it did not.                                                         *)
LEMMA SavesReferenceIs ==
  ASSUME FileInv, WriteInv, NEW c \in Calls, SavesReference(c)
  PROVE  /\ call[c].step = "refsave" /\ at[c] = "writes" /\ request[c].kind = "delete"
         /\ call[c].pos \in Tasks /\ call[c].task \in Tasks /\ file[call[c].pos].st = "good"
         /\ \/ file'[call[c].pos] = Without(file[call[c].pos], call[c].task) /\ reported' = reported
            \/ file' = file /\ reported' = reported \union {<<call[c].pos, call[c].task>>}
         /\ \A s \in Tasks : s # call[c].pos => file'[s] = file[s]
         /\ call'[c] = [call[c] EXCEPT !.step = "refapply"]
         /\ UNCHANGED <<index, counter, loose>>
<1>0. /\ call \in [Calls -> Call] /\ file \in [Tasks -> File]
      /\ Fits(request[c], call[c]) /\ Fresh(request[c], call[c])
  BY DEF FileInv, FileTypes, WriteInv
<1>1. call[c].step = "refsave" /\ at[c] = "writes"
  BY DEF SavesReference, Within
<1>2. request[c].kind = "delete" /\ call[c].pos \in Tasks /\ call[c].task \in Tasks
  BY <1>0, <1>1 DEF Fits, DeleteSteps
<1>3. file[call[c].pos] = call[c].snap /\ file[call[c].pos].st = "good"
  BY <1>0, <1>1 DEF Fresh
<1>4. call'[c] = [call[c] EXCEPT !.step = "refapply"]
  BY <1>0 DEF SavesReference, To, Goes
<1>5. \/ file' = [file EXCEPT ![call[c].pos] = Without(call[c].snap, call[c].task)] /\ reported' = reported
      \/ file' = file /\ reported' = reported \union {<<call[c].pos, call[c].task>>}
  BY DEF SavesReference
<1> QED  BY <1>0, <1>1, <1>2, <1>3, <1>4, <1>5 DEF SavesReference

(* A delete takes its file away, or drops what it would have rewritten. *)
LEMMA RemovesIs ==
  ASSUME FileInv, WriteInv, NEW c \in Calls, Removes(c)
  PROVE  /\ call[c].step = "remove" /\ at[c] = "writes" /\ request[c].kind = "delete" /\ call[c].task \in Tasks
         /\ \/ /\ file[call[c].task].st # "none" /\ file'[call[c].task] = NoFile
               /\ \A s \in Tasks : s # call[c].task => file'[s] = file[s]
               /\ call'[c] = [call[c] EXCEPT !.step = "unlist"]
            \/ file' = file /\ call'[c] = [call[c] EXCEPT !.step = "unlist", !.rest = {}]
         /\ UNCHANGED <<index, counter, reported, loose>>
<1>0. /\ call \in [Calls -> Call] /\ file \in [Tasks -> File] /\ Fits(request[c], call[c])
  BY DEF FileInv, FileTypes
<1>1. call[c].step = "remove" /\ at[c] = "writes"
  BY DEF Removes, Within
<1>2. request[c].kind = "delete" /\ call[c].task \in Tasks
  BY <1>0, <1>1 DEF Fits, DeleteSteps
<1>3. CASE /\ file[call[c].task].st # "none" /\ file' = [file EXCEPT ![call[c].task] = NoFile]
           /\ To(c, "unlist")
  <2>1. call'[c] = [call[c] EXCEPT !.step = "unlist"]
    BY <1>0, <1>3 DEF To, Goes
  <2> QED  BY <1>0, <1>1, <1>2, <1>3, <2>1 DEF Removes
<1>4. CASE file' = file /\ Goes(c, [call[c] EXCEPT !.step = "unlist", !.rest = {}])
  <2>1. call'[c] = [call[c] EXCEPT !.step = "unlist", !.rest = {}]
    BY <1>0, <1>4 DEF Goes
  <2> QED  BY <1>0, <1>1, <1>2, <1>4, <2>1 DEF Removes
<1> QED  BY <1>3, <1>4 DEF Removes

(* Every other step of a call leaves the files and what is loose. *)
LEMMA OtherFiles ==
  ASSUME FileInv, NEW c \in Calls, Begin(c) \/ CallStep(c),
         ~Saves(c), ~Creates(c), ~SavesReference(c), ~Removes(c)
  PROVE  file' = file /\ loose' = loose /\ counter' = counter
  BY DEF CallStep, Begin, Again, Turn, Ends, taskVars, SameFiles, WriteStep, Opens, ChecksBlocker, ChecksParent,
         WalksUp, SaveFails, Applies, DeleteStep, Looks, Unlists, OpensReference, AppliesReference

(* A step of a call moves no other call and no request. *)
LEMMA OneMoves ==
  ASSUME FileInv, NEW c \in Calls, Begin(c) \/ CallStep(c)
  PROVE  /\ request' = request /\ \A d \in Calls : d # c => call'[d] = call[d]
         /\ loose \subseteq loose' /\ reported \subseteq reported'
<1>0. call \in [Calls -> Call]
  BY DEF FileInv, FileTypes
<1>1. ASSUME NEW x, Goes(c, x)  PROVE \A d \in Calls : d # c => call'[d] = call[d]
  BY <1>0, <1>1 DEF Goes
<1>2. CASE Begin(c) \/ Again(c) \/ Turn(c) \/ Ends(c)
  BY <1>1, <1>2 DEF Begin, Again, Turn, Ends, taskVars, SameFiles
<1>3. CASE WriteStep(c)
  BY <1>1, <1>3 DEF WriteStep, Opens, ChecksBlocker, ChecksParent, WalksUp, Saves, Creates, SaveFails, Applies,
                    Within, Refused, To, SameFiles
<1>4. CASE DeleteStep(c)
  BY <1>1, <1>4 DEF DeleteStep, Looks, Removes, Unlists, OpensReference, SavesReference, AppliesReference,
                    Within, To, SameFiles
<1> QED  BY <1>2, <1>3, <1>4 DEF CallStep

(* What a check has still to look at. *)
Unchecked(q, x) ==
  CASE x.step = "check" /\ q.field = "blocked_by" -> x.rest
    [] x.step = "check" /\ q.field # "blocked_by" -> Stated(q)
    [] OTHER -> {}

(* The stated tasks whose turns a write has, and which it checked, stand. *)
FirmStands(q, x) ==
  x.step \in {"check", "walk", "save"} => \A u \in Firm(q, x) \ Unchecked(q, x) : file[u].st # "none"

Refers(t, u) == file[t].st = "good" /\ u \in Names(file[t])

(* A write saves a reference to a task that stands and whose turn it has. *)
NewBy(c, t, u) ==
  /\ call[c].step = "save" /\ at[c] = "writes" /\ u \in Firm(request[c], call[c]) /\ file[u].st # "none"
  /\ call'[c].step = "apply" /\ call'[c].task = t /\ call'[c].blind = call[c].blind

(* What a save names that was not named is loose, or a task whose turn the *)
(* write has.                                                              *)
LEMMA SavedNames ==
  ASSUME FileInv, WriteInv, NEW c \in Calls, FirmStands(request[c], call[c]), Saves(c) \/ Creates(c),
         NEW t \in Tasks, file'[t] # file[t], NEW u \in Names(file'[t]),
         ~Refers(t, u) \/ (request[c].kind # "comment" /\ u \in Stated(request[c]))
  PROVE  <<t, u>> \in loose' \/ NewBy(c, t, u)
<1> DEFINE q == request[c]
<1>0. q \in Request /\ call[c] \in Call /\ file \in [Tasks -> File]
  BY DEF FileInv, FileTypes
<1>1. CASE Saves(c)
  <2>1. t = call[c].task
    BY <1>1, SavesIs
  <2>2. /\ call[c].step = "save" /\ at[c] = "writes" /\ q.kind \in {"update", "comment"} /\ file[t].st = "good"
        /\ file'[t] = Changed(file[t], q) /\ loose' = loose \union Loose(c, t, file'[t])
        /\ call'[c] = [call[c] EXCEPT !.step = "apply"]
    BY <1>1, <2>1, SavesIs
  <2>3. q.kind = "update" /\ u \in Stated(q)
    BY <1>0, <2>2, ChangedNames DEF Refers
  <2>4. call'[c].step = "apply" /\ call'[c].task = t /\ call'[c].blind = call[c].blind
    BY <1>0, <2>1, <2>2 DEF Call
  <2>5. u \in call[c].blind => <<t, u>> \in loose'
    BY <2>2 DEF Loose
  <2>6. u \notin call[c].blind => u \in Firm(q, call[c])
    BY <2>3 DEF Firm
  <2>7. u \in Firm(q, call[c]) => file[u].st # "none"
    BY <2>2 DEF FirmStands, Unchecked
  <2> QED  BY <2>2, <2>4, <2>5, <2>6, <2>7 DEF NewBy
<1>2. CASE Creates(c)
  <2>1. t = counter
    BY <1>2, CreatesIs
  <2>2. /\ call[c].step = "save" /\ at[c] = "writes" /\ q.kind = "create"
        /\ file'[t] = Changed(NewFile, q) /\ loose' = loose \union Loose(c, t, file'[t])
        /\ call'[c] = [call[c] EXCEPT !.step = "apply", !.task = t]
    BY <1>2, <2>1, CreatesIs
  <2>3. u \in Stated(q)
    <3>1. NewFile \in File /\ Names(NewFile) = {}
      BY Built DEF NewFile, NoFile, Names
    <3> QED  BY <1>0, <2>2, <3>1, ChangedNames
  <2>4. call'[c].step = "apply" /\ call'[c].task = t /\ call'[c].blind = call[c].blind
    BY <1>0, <2>1, <2>2 DEF Call
  <2>5. u \in call[c].blind => <<t, u>> \in loose'
    BY <2>2 DEF Loose
  <2>6. u \notin call[c].blind => u \in Firm(q, call[c])
    BY <2>2, <2>3 DEF Firm
  <2>7. u \in Firm(q, call[c]) => file[u].st # "none"
    BY <2>2 DEF FirmStands, Unchecked
  <2> QED  BY <2>2, <2>4, <2>5, <2>6, <2>7 DEF NewBy
<1> QED  BY <1>1, <1>2

(* The same of any step. *)
LEMMA NewNames ==
  ASSUME FileInv, WriteInv, NEW c \in Calls, FirmStands(request[c], call[c]), Begin(c) \/ CallStep(c),
         NEW t \in Tasks, NEW u \in Tasks, Refers(t, u)', ~Refers(t, u)
  PROVE  <<t, u>> \in loose' \/ NewBy(c, t, u)
<1>0. file[t] \in File /\ file'[t].st = "good" /\ u \in Names(file'[t]) /\ file'[t] # file[t]
  BY DEF FileInv, FileTypes, Refers
<1>1. CASE Saves(c) \/ Creates(c)
  BY <1>0, <1>1, SavedNames
<1>2. CASE SavesReference(c)
  <2>0. /\ call[c].task \in Tasks /\ file[call[c].pos].st = "good"
        /\ file'[call[c].pos] = Without(file[call[c].pos], call[c].task) \/ file' = file
        /\ \A s \in Tasks : s # call[c].pos => file'[s] = file[s]
    BY <1>2, SavesReferenceIs
  <2>1. t = call[c].pos /\ file'[t] = Without(file[t], call[c].task) /\ file[t].st = "good" /\ call[c].task \in Tasks
    BY <1>0, <2>0
  <2> QED  BY <1>0, <2>1, WithoutNames DEF Refers
<1>3. CASE Removes(c)
  <2>1. file'[t] = NoFile
    BY <1>0, <1>3, RemovesIs
  <2> QED  BY <1>0, <2>1 DEF NoFile
<1> QED  BY <1>0, <1>1, <1>2, <1>3, OtherFiles

(* A new parent is loose, or one that the write states and whose turn it has. *)
LEMMA NewParent ==
  ASSUME FileInv, WriteInv, NEW c \in Calls, FirmStands(request[c], call[c]), Begin(c) \/ CallStep(c),
         NEW t \in Tasks, NEW u \in Tasks, Entry(file'[t]).parent = u, Entry(file[t]).parent # u
  PROVE  \/ <<t, u>> \in loose'
         \/ NewBy(c, t, u) /\ request[c].field = "parent" /\ request[c].parent = u
<1> DEFINE q == request[c]
<1>0. /\ file[t] \in File /\ q \in Request /\ NoFile.parent = 0 /\ 0 \notin Tasks /\ NoFile.st = "none"
      /\ NewFile.parent = 0 /\ NewFile \in File
  BY TasksAssumption, Built DEF FileInv, FileTypes, NoFile, NewFile
<1>1. file'[t].st = "good" /\ file'[t].parent = u /\ file'[t] # file[t] /\ u \in Names(file'[t])
  BY <1>0 DEF Entry, Names
<1>2. CASE Saves(c)
  <2>1. t = call[c].task /\ file'[t] = Changed(file[t], q) /\ file[t].st = "good"
    BY <1>1, <1>2, SavesIs
  <2>2. q.kind # "comment" /\ q.field = "parent" /\ q.parent = u
    BY <1>0, <1>1, <2>1, ChangedNames DEF Entry
  <2>3. u \in Stated(q)
    BY <1>0, <2>2 DEF Stated
  <2> QED  BY <1>1, <1>2, <2>2, <2>3, SavedNames
<1>3. CASE Creates(c)
  <2>1. t = counter /\ file'[t] = Changed(NewFile, q) /\ q.kind = "create"
    BY <1>1, <1>3, CreatesIs
  <2>2. q.field = "parent" /\ q.parent = u
    BY <1>0, <1>1, <2>1, ChangedNames
  <2>3. u \in Stated(q)
    BY <1>0, <2>2 DEF Stated
  <2> QED  BY <1>1, <1>3, <2>1, <2>2, <2>3, SavedNames
<1>4. CASE SavesReference(c)
  <2>0. /\ call[c].task \in Tasks /\ file[call[c].pos].st = "good"
        /\ file'[call[c].pos] = Without(file[call[c].pos], call[c].task) \/ file' = file
        /\ \A s \in Tasks : s # call[c].pos => file'[s] = file[s]
    BY <1>4, SavesReferenceIs
  <2>1. t = call[c].pos /\ file'[t] = Without(file[t], call[c].task) /\ file[t].st = "good" /\ call[c].task \in Tasks
    BY <1>1, <2>0
  <2> QED  BY <1>0, <1>1, <2>1, WithoutNames DEF Entry
<1>5. CASE Removes(c)
  <2>1. file'[t] = NoFile
    BY <1>1, <1>5, RemovesIs
  <2> QED  BY <1>0, <1>1, <2>1
<1> QED  BY <1>1, <1>2, <1>3, <1>4, <1>5, OtherFiles

(* Only a delete takes a file away. *)
LEMMA GoneByDelete ==
  ASSUME FileInv, WriteInv, NEW c \in Calls, Begin(c) \/ CallStep(c),
         NEW u \in Tasks, file[u].st # "none", file'[u].st = "none"
  PROVE  /\ Removes(c) /\ call[c].step = "remove" /\ at[c] = "writes" /\ call[c].task = u
         /\ call'[c] = [call[c] EXCEPT !.step = "unlist"]
<1>0. file[u] \in File /\ file'[u] # file[u] /\ request[c] \in Request
  BY DEF FileInv, FileTypes
<1>1. ASSUME Saves(c)  PROVE FALSE
  <2>1. u = call[c].task /\ file'[u] = Changed(file[u], request[c])
    BY <1>0, <1>1, SavesIs
  <2> QED  BY <1>0, <2>1, ChangedNames
<1>2. ~Creates(c)
  <2>1. NewFile.st = "good" /\ NewFile \in File
    BY Built DEF NewFile, NoFile
  <2> QED  BY <1>0, <2>1, CreatesIs, ChangedNames
<1>3. ASSUME SavesReference(c)  PROVE FALSE
  <2>0. /\ call[c].task \in Tasks
        /\ file'[call[c].pos] = Without(file[call[c].pos], call[c].task) \/ file' = file
        /\ \A s \in Tasks : s # call[c].pos => file'[s] = file[s]
    BY <1>3, SavesReferenceIs
  <2>1. u = call[c].pos /\ file'[u] = Without(file[u], call[c].task) /\ call[c].task \in Tasks
    BY <1>0, <2>0
  <2> QED  BY <1>0, <2>1, WithoutNames
<1>4. Removes(c)
  BY <1>0, <1>1, <1>2, <1>3, OtherFiles
<1> QED  BY <1>0, <1>4, RemovesIs

(* A file that stands changes only in the hands of a write that has its turn. *)
LEMMA ChangeIsNeeded ==
  ASSUME FileInv, WriteInv, NEW c \in Calls, Begin(c) \/ CallStep(c), NEW s \in Tasks, file'[s] # file[s],
         file[s].st # "none"
  PROVE  /\ at[c] = "writes" /\ call[c].step \in BodySteps /\ TaskKey(s) \in Needs(request[c], call[c])
<1>0. /\ Fits(request[c], call[c]) /\ Fresh(request[c], call[c]) /\ call[c] \in Call
  BY DEF FileInv, FileTypes, WriteInv
<1>1. CASE Saves(c)
  <2>1. s = call[c].task /\ call[c].step = "save" /\ at[c] = "writes" /\ request[c].kind # "create"
    BY <1>1, SavesIs
  <2> QED  BY <2>1, ReadIsNeeded DEF BodySteps, Steps
<1>2. CASE Creates(c)
  BY <1>2, CreatesIs
<1>3. CASE SavesReference(c)
  <2>1. s = call[c].pos /\ call[c].step = "refsave" /\ at[c] = "writes"
    BY <1>3, SavesReferenceIs
  <2> QED  BY <2>1, ReadIsNeeded DEF BodySteps, Steps
<1>4. CASE Removes(c)
  <2>1. s = call[c].task /\ call[c].step = "remove" /\ at[c] = "writes" /\ request[c].kind = "delete"
    BY <1>4, RemovesIs
  <2> QED  BY <2>1 DEF BodySteps, Steps, Needs, DeleteKeys
<1> QED  BY <1>1, <1>2, <1>3, <1>4, OtherFiles

(* The keys that a write of each kind needs. *)
LEMMA NeededKeys ==
  ASSUME FileInv, NEW c \in Calls
  PROVE  /\ \A u \in Firm(request[c], call[c]) : u \in Tasks /\ TaskKey(u) \in Needs(request[c], call[c])
         /\ request[c].kind = "delete" => TaskKey(call[c].task) \in Needs(request[c], call[c])
         /\ request[c].kind = "update" => TaskKey(request[c].task) \in Needs(request[c], call[c])
<1>1. request[c] \in Request /\ Stated(request[c]) \subseteq Tasks
  BY Built DEF FileInv, FileTypes
<1>2. Firm(request[c], call[c]) \subseteq Tasks /\ (request[c].kind \notin {"create", "update"} => Firm(request[c], call[c]) = {})
  BY <1>1 DEF Firm
<1>3. \A u \in Firm(request[c], call[c]) : TaskKey(u) \in FirmKeys(request[c], call[c])
  BY DEF FirmKeys
<1> QED  BY <1>2, <1>3 DEF Needs, DeleteKeys

(* What another write holds, no step changes. *)
LEMMA HeldStays ==
  ASSUME FileInv, TurnInv, WriteInv, NEW c \in Calls, Begin(c) \/ CallStep(c),
         NEW d \in Calls, d # c, call[d].step \in BodySteps,
         NEW s \in Tasks, TaskKey(s) \in Needs(request[d], call[d]), file[s].st # "none"
  PROVE  file'[s] = file[s]
<1> SUFFICES ASSUME file'[s] # file[s]  PROVE FALSE
  OBVIOUS
<1>1. at[c] = "writes" /\ call[c].step \in BodySteps /\ TaskKey(s) \in Needs(request[c], call[c])
  BY ChangeIsNeeded
<1>2. TaskKey(s) \in Keys
  BY TasksAssumption
<1> QED  BY <1>1, <1>2, WritersDiffer

(* No other write that has the turn of a task saves a reference to it. *)
LEMMA HeldIsNotNamed ==
  ASSUME FileInv, TurnInv, WriteInv, NEW c \in Calls, NEW d \in Calls, d # c,
         call[d].step \in BodySteps, NEW t \in Tasks, NEW u \in Tasks, TaskKey(u) \in Needs(request[d], call[d])
  PROVE  ~NewBy(c, t, u)
<1> SUFFICES ASSUME NewBy(c, t, u)  PROVE FALSE
  OBVIOUS
<1>1. at[c] = "writes" /\ call[c].step \in BodySteps /\ TaskKey(u) \in Needs(request[c], call[c])
  BY NeededKeys DEF NewBy, BodySteps, Steps
<1>2. TaskKey(u) \in Keys
  BY TasksAssumption
<1> QED  BY <1>1, <1>2, WritersDiffer

(* Where a call goes in a step of its own, without the files. *)
LEMMA OwnMoves ==
  ASSUME FileInv, NEW c \in Calls, Begin(c) \/ CallStep(c)
  PROVE  /\ call'[c].step \in {"check", "walk"} =>
               Opens(c) \/ ChecksBlocker(c) \/ ChecksParent(c) \/ WalksUp(c) \/ call'[c] = call[c]
         /\ call'[c].step = "save" =>
               Opens(c) \/ ChecksBlocker(c) \/ ChecksParent(c) \/ WalksUp(c) \/ call'[c] = call[c]
         /\ call'[c].step = "remove" => Looks(c) \/ call'[c] = call[c]
         /\ call'[c].step = "refapply" => OpensReference(c) \/ SavesReference(c) \/ call'[c] = call[c]
         /\ call[c].step = "apply" => Applies(c) \/ call'[c] = call[c]
         /\ call[c].step \in {"unlist", "refs", "refsave", "refapply"} =>
               Unlists(c) \/ OpensReference(c) \/ SavesReference(c) \/ AppliesReference(c) \/ call'[c] = call[c]
<1>0. call \in [Calls -> Call]
  BY DEF FileInv, FileTypes
<1>1. ASSUME NEW x, Goes(c, x)  PROVE call'[c] = x
  BY <1>0, <1>1 DEF Goes
<1>2. ASSUME NEW step, To(c, step)  PROVE call'[c].step = step
  BY <1>0, <1>2 DEF To, Goes, Call
<1>3. CASE Turn(c)
  BY <1>3 DEF Turn, taskVars
<1>4. CASE Begin(c)
  <2>1. call[c].step = "idle" /\ call'[c].step = "turn"
    BY <1>1, <1>4 DEF Begin, IdleCall
  <2> QED  BY <2>1
<1>5. CASE Again(c)
  <2>1. call[c].step = "again" /\ call'[c].step = "turn"
    BY <1>0, <1>1, <1>5 DEF Again, Call
  <2> QED  BY <2>1
<1>6. CASE Ends(c)
  <2>1. call[c].step \in {"over", "missed"} /\ call'[c].step \in {"again", "done"}
    BY <1>0, <1>1, <1>6 DEF Ends, Call, IdleCall
  <2> QED  BY <2>1
<1>7. CASE Opens(c) \/ ChecksBlocker(c) \/ ChecksParent(c) \/ WalksUp(c)
  <2>1. call[c].step \in {"turn", "check", "walk"}
    BY <1>7 DEF Opens, ChecksBlocker, ChecksParent, WalksUp, Within
  <2>2. call'[c].step \in {"check", "walk", "save", "over", "apply"}
    BY <1>0, <1>1, <1>2, <1>7 DEF Opens, ChecksBlocker, ChecksParent, WalksUp, Refused, Call, Within
  <2> QED  BY <1>7, <2>1, <2>2
<1>8. CASE Saves(c) \/ Creates(c) \/ SaveFails(c) \/ Applies(c)
  <2>1. call[c].step \in {"save", "apply"} /\ (call[c].step = "apply" => Applies(c))
    BY <1>8 DEF Saves, Creates, SaveFails, Applies, Within
  <2>2. call'[c].step \in {"over", "apply"}
    BY <1>0, <1>1, <1>2, <1>8 DEF Saves, Creates, SaveFails, Applies, Refused, Call
  <2> QED  BY <2>1, <2>2
<1>9. CASE Looks(c) \/ Removes(c)
  <2>1. call[c].step \in {"turn", "remove"} /\ (call[c].step = "turn" => Looks(c))
    BY <1>9 DEF Looks, Removes, Within
  <2>2. call'[c].step \in {"missed", "remove", "unlist"} /\ (Removes(c) => call'[c].step = "unlist")
    BY <1>0, <1>1, <1>2, <1>9 DEF Looks, Removes, Call
  <2> QED  BY <1>9, <2>1, <2>2
<1>10. CASE Unlists(c) \/ OpensReference(c) \/ SavesReference(c) \/ AppliesReference(c)
  <2>1. call[c].step \in {"unlist", "refs", "refsave", "refapply"}
    BY <1>10 DEF Unlists, OpensReference, SavesReference, AppliesReference, Within
  <2>2. /\ call'[c].step \in {"over", "refs", "refsave", "refapply"}
        /\ Unlists(c) \/ AppliesReference(c) => call'[c].step \in {"over", "refs"}
    BY <1>0, <1>1, <1>2, <1>10 DEF Unlists, OpensReference, SavesReference, AppliesReference, AfterRefs, Call
  <2> QED  BY <1>10, <2>1, <2>2
<1> QED  BY <1>3, <1>4, <1>5, <1>6, <1>7, <1>8, <1>9, <1>10 DEF CallStep, WriteStep, DeleteStep

(* A call that only moves on keeps what it has. *)
LEMMA MovesTo ==
  ASSUME FileInv, NEW c \in Calls, NEW step, To(c, step)
  PROVE  /\ call'[c].step = step /\ call'[c].task = call[c].task /\ call'[c].pos = call[c].pos
         /\ call'[c].rest = call[c].rest /\ call'[c].blind = call[c].blind /\ call'[c].covered = call[c].covered
<1>1. call'[c] = [call[c] EXCEPT !.step = step] /\ call[c] \in Call
  BY DEF To, Goes, FileInv, FileTypes
<1> QED  BY <1>1 DEF Call

(* What a check has passed stands until the save. *)
LEMMA FirmKept ==
  ASSUME FileInv, TurnInv, WriteInv, NEW c \in Calls, Begin(c) \/ CallStep(c),
         \A d \in Calls : FirmStands(request[d], call[d])
  PROVE  \A d \in Calls : FirmStands(request[d], call[d])'
<1> SUFFICES ASSUME NEW d \in Calls, call'[d].step \in {"check", "walk", "save"},
                    NEW u \in Firm(request[d], call'[d]) \ Unchecked(request[d], call'[d])
             PROVE  file'[u].st # "none"
  BY OneMoves DEF FirmStands
<1>0. call \in [Calls -> Call] /\ call[c] \in Call /\ request[c] \in Request /\ Fits(request[c], call[c])
  BY DEF FileInv, FileTypes
<1>1. CASE d # c
  <2>1. call'[d] = call[d]
    BY <1>1, OneMoves
  <2>2. call[d].step \in BodySteps /\ u \in Tasks /\ TaskKey(u) \in Needs(request[d], call[d]) /\ file[u].st # "none"
    BY <2>1, NeededKeys DEF FirmStands, BodySteps, Steps
  <2> QED  BY <1>1, <2>2, HeldStays
<1>2. CASE d = c /\ call'[c] = call[c]
  <2>1. file[u].st # "none" /\ u \in Tasks
    BY <1>2, NeededKeys DEF FirmStands
  <2>2. ASSUME file'[u].st = "none"  PROVE FALSE
    <3>1. call[c].step = "remove"
      BY <2>1, <2>2, GoneByDelete
    <3> QED  BY <1>2, <3>1
  <2> QED  BY <2>2
<1>3. CASE d = c /\ Opens(c)
  <2> PICK f : f = IF IsCreate(c) THEN NewFile ELSE file[call[c].task]
    OBVIOUS
  <2> PICK stated : stated = Stated(request[c])
    OBVIOUS
  <2>1. ~Refused(c)
    BY <1>3, MovesTo DEF Refused
  <2>2. Goes(c, [call[c] EXCEPT !.step = IF stated = {} THEN "save" ELSE "check", !.snap = f, !.rest = stated])
    BY <1>3, <2>1 DEF Opens
  <2>4. call'[c] = [call[c] EXCEPT !.step = IF stated = {} THEN "save" ELSE "check", !.snap = f, !.rest = stated]
    BY <1>0, <2>2 DEF Goes
  <2>5. call'[c].step \in {"save", "check"} /\ call'[c].rest = stated /\ (stated # {} => call'[c].step = "check")
    BY <1>0, <2>4 DEF Call
  <2>3. Firm(request[c], call'[c]) \subseteq Stated(request[c])
    BY DEF Firm
  <2> QED  BY <1>3, <2>3, <2>5 DEF Unchecked
<1>4. CASE d = c /\ ChecksBlocker(c)
  <2>0. /\ call[c].step = "check" /\ request[c].field = "blocked_by" /\ file' = file
    BY <1>4 DEF ChecksBlocker, Within, SameFiles
  <2>1. PICK v \in call[c].rest :
          IF call[c].task \in request[c].blockers \/ file[v].st = "none"
          THEN Refused(c)
          ELSE Goes(c, [call[c] EXCEPT !.rest = @ \ {v}, !.step = IF call[c].rest = {v} THEN "save" ELSE @])
    BY <1>4 DEF ChecksBlocker
  <2>2. ~Refused(c)
    BY <1>0, <1>4 DEF Refused, To, Goes, Call
  <2>3. /\ file[v].st # "none"
        /\ call'[c] = [call[c] EXCEPT !.rest = @ \ {v}, !.step = IF call[c].rest = {v} THEN "save" ELSE @]
    BY <1>0, <2>1, <2>2 DEF Goes
  <2>4. /\ call'[c].rest = call[c].rest \ {v} /\ call'[c].blind = call[c].blind
        /\ call'[c].step = IF call[c].rest = {v} THEN "save" ELSE "check"
    BY <1>0, <2>0, <2>3 DEF Call
  <2>5. Firm(request[c], call'[c]) = Firm(request[c], call[c])
    BY <2>4 DEF Firm
  <2>6. u = v \/ u \notin call[c].rest
    BY <1>4, <2>0, <2>4 DEF Unchecked
  <2>7. u \notin call[c].rest => file[u].st # "none"
    BY <1>4, <2>0, <2>5 DEF FirmStands, Unchecked
  <2> QED  BY <2>0, <2>3, <2>6, <2>7
<1>5. CASE d = c /\ ChecksParent(c)
  <2>1. request[c].field = "parent" /\ file' = file
    BY <1>5 DEF ChecksParent, SameFiles
  <2>2. ~Refused(c)
    BY <1>0, <1>5 DEF Refused, To, Goes, Call
  <2>3. file[request[c].parent].st # "none"
    BY <1>5, <2>2 DEF ChecksParent
  <2>4. u = request[c].parent
    BY <1>5, <2>1 DEF Firm, Stated
  <2> QED  BY <2>1, <2>3, <2>4
<1>6. CASE d = c /\ WalksUp(c)
  <2>1. call[c].step = "walk" /\ file' = file
    BY <1>6 DEF WalksUp, Within, SameFiles
  <2>2. call'[c].blind = call[c].blind
    <3>1. CASE Refused(c) \/ To(c, "save")
      BY <3>1, MovesTo DEF Refused
    <3>2. ASSUME NEW up, Goes(c, [call[c] EXCEPT !.pos = up, !.chain = @ \union {up}])
          PROVE  call'[c].blind = call[c].blind
      BY <1>0, <3>2 DEF Goes, Call
    <3> QED  BY <1>6, <3>1, <3>2 DEF WalksUp
  <2>3. u \in Firm(request[c], call[c])
    BY <1>6, <2>2 DEF Firm
  <2> QED  BY <2>1, <2>3 DEF FirmStands, Unchecked
<1> QED  BY <1>1, <1>2, <1>3, <1>4, <1>5, <1>6, OwnMoves

(* Every reference of a file is in the index, but for one that was just saved *)
(* by a write that has the turn of the named task, and loose ones.            *)
Applying(q, x, t, u) == x.step = "apply" /\ x.task = t /\ u \in Firm(q, x)

InIndex ==
  \A t, u \in Tasks :
    Refers(t, u) =>
      u \in Names(index[t]) \/ <<t, u>> \in loose \/ \E c \in Calls : Applying(request[c], call[c], t, u)

(* The index changes where it reads a file back. *)
LEMMA IndexMoves ==
  ASSUME FileInv, NEW c \in Calls, Begin(c) \/ CallStep(c), NEW t \in Tasks, index'[t] # index[t]
  PROVE  file' = file /\ index'[t] = Entry(file[t])
<1>0. index \in [Tasks -> File]
  BY DEF FileInv, FileTypes
<1>1. ASSUME NEW u, index' = [index EXCEPT ![u] = ReadBack(c, u)]  PROVE index'[t] = Entry(file[t])
  BY <1>0, <1>1 DEF ReadBack
<1>2. CASE Applies(c) \/ Unlists(c) \/ AppliesReference(c)
  BY <1>1, <1>2 DEF Applies, Unlists, AppliesReference
<1>3. CASE ~(Applies(c) \/ Unlists(c) \/ AppliesReference(c))
  BY <1>3 DEF CallStep, Begin, Again, Turn, Ends, taskVars, SameFiles, WriteStep, Opens, ChecksBlocker, ChecksParent,
              WalksUp, Saves, Creates, SaveFails, DeleteStep, Looks, Removes, OpensReference, SavesReference
<1> QED  BY <1>2, <1>3

(* A reference that was saved comes into the index. *)
LEMMA InIndexKept ==
  ASSUME FileInv, TurnInv, WriteInv, NEW c \in Calls, Begin(c) \/ CallStep(c), InIndex,
         \A d \in Calls : FirmStands(request[d], call[d])
  PROVE  InIndex'
<1> SUFFICES ASSUME NEW t \in Tasks, NEW u \in Tasks, Refers(t, u)', u \notin Names(index'[t]), <<t, u>> \notin loose'
             PROVE  \E d \in Calls : Applying(request'[d], call'[d], t, u)
  BY DEF InIndex
<1>0. /\ request' = request /\ \A d \in Calls : d # c => call'[d] = call[d]
      /\ loose \subseteq loose'
  BY OneMoves
<1>1. CASE ~Refers(t, u)
  <2>1. NewBy(c, t, u)
    BY <1>1, NewNames
  <2>2. Applying(request[c], call'[c], t, u)
    BY <2>1 DEF NewBy, Applying, Firm
  <2> QED  BY <1>0, <2>2
<1>2. CASE Refers(t, u)
  <2>1. index'[t] = index[t]
    <3>1. ASSUME file' = file, index'[t] = Entry(file[t])  PROVE FALSE
      BY <1>2, <3>1 DEF Refers, Entry
    <3> QED  BY <3>1, IndexMoves
  <2>2. PICK d \in Calls : Applying(request[d], call[d], t, u)
    BY <1>0, <1>2, <2>1 DEF InIndex
  <2>3. CASE d # c
    BY <1>0, <2>2, <2>3
  <2>4. CASE d = c /\ call'[c] = call[c]
    BY <1>0, <2>2, <2>4
  <2>5. CASE d = c /\ Applies(c)
    <3>1. index'[t] = Entry(file[t])
      BY <2>2, <2>5 DEF Applies, ReadBack, Applying, FileInv, FileTypes
    <3>2. file' = file
      BY <2>5 DEF Applies
    <3> QED  BY <1>2, <3>1, <3>2 DEF Refers, Entry
  <2> QED  BY <2>2, <2>3, <2>4, <2>5, OwnMoves DEF Applying
<1> QED  BY <1>1, <1>2

Known(t, u) == <<t, u>> \in reported \union loose

(* A delete that is about to remove its task knows who names it. *)
FoundBy(x) ==
  x.step = "remove" => \A t \in Tasks \ {x.task} : Refers(t, x.task) => t \in x.rest \/ Known(t, x.task)

(* A delete lets go of a file that no longer names its task, or that it *)
(* reported.                                                            *)
ClearedBy(x) == x.step = "refapply" /\ Refers(x.pos, x.task) => Known(x.pos, x.task)

Rewriting == {"unlist", "refs", "refsave", "refapply"}

(* A reference to a task that is gone is in the hands of a delete that took *)
(* the task away, was reported, or is loose.                                *)
Dealt(t, u) ==
  Known(t, u) \/ \E c \in Calls : call[c].step \in Rewriting /\ call[c].task = u /\ t \in call[c].rest

AllDealt == \A t, u \in Tasks : Refers(t, u) /\ file[u].st = "none" => Dealt(t, u)

(* The tasks that a step finds, where it is not the delete's own. *)
LEMMA OthersFind ==
  ASSUME FileInv, TurnInv, WriteInv, NEW c \in Calls, Begin(c) \/ CallStep(c),
         \A d \in Calls : FirmStands(request[d], call[d]),
         NEW d \in Calls, d # c, FoundBy(call[d]), ClearedBy(call[d])
  PROVE  FoundBy(call[d])' /\ ClearedBy(call[d])'
<1>0. /\ call'[d] = call[d] /\ loose \subseteq loose' /\ reported \subseteq reported'
      /\ Fits(request[d], call[d])
  BY OneMoves DEF FileInv
<1>1. \A t, u \in Tasks : Known(t, u) => Known(t, u)'
  BY <1>0 DEF Known
<1>2. ASSUME NEW t \in Tasks, call[d].step \in {"remove", "refapply"}, call[d].task \in Tasks,
             Refers(t, call[d].task)'
      PROVE  Refers(t, call[d].task) \/ Known(t, call[d].task)'
  <2> PICK u : u = call[d].task
    OBVIOUS
  <2> SUFFICES ASSUME ~Refers(t, u)  PROVE Known(t, u)'
    BY <1>0
  <2>1. u \in Tasks /\ Refers(t, u)'
    BY <1>0, <1>2
  <2>2. <<t, u>> \in loose' \/ NewBy(c, t, u)
    BY <2>1, NewNames
  <2>3. call[d].step \in BodySteps /\ TaskKey(u) \in Needs(request[d], call[d])
    BY <1>0, <1>2, NeededKeys DEF Fits, DeleteSteps, BodySteps, Steps
  <2>4. ~NewBy(c, t, u)
    BY <2>1, <2>3, HeldIsNotNamed
  <2> QED  BY <2>2, <2>4 DEF Known
<1>3. call[d].step \in {"remove", "refapply"} => call[d].task \in Tasks /\ request[d].kind = "delete"
  BY <1>0 DEF Fits, DeleteSteps
<1>4. call[d].step = "refapply" => call[d].pos \in Tasks
  BY <1>0 DEF Fits
<1>5. FoundBy(call[d])'
  BY <1>0, <1>1, <1>2, <1>3 DEF FoundBy
<1>6. ClearedBy(call[d])'
  BY <1>0, <1>1, <1>2, <1>3, <1>4 DEF ClearedBy
<1> QED  BY <1>5, <1>6

(* A delete that looks finds all that name its task: nobody else saves such  *)
(* a reference while it has the turn of the task.                            *)
LEMMA LooksFinds ==
  ASSUME FileInv, TurnInv, WriteInv, NEW c \in Calls, InIndex, Looks(c)
  PROVE  FoundBy(call[c])'
<1> DEFINE x == [call[c] EXCEPT !.rest = ReferencesTo(call[c].task),
                                !.step = IF Missed(ReferencesTo(call[c].task), call[c].covered) THEN "missed" ELSE "remove"]
<1>0. /\ call \in [Calls -> Call] /\ Fits(request[c], call[c]) /\ request[c].kind = "delete" /\ at[c] = "writes"
      /\ call[c].step = "turn" /\ Goes(c, x) /\ file' = file /\ loose' = loose /\ reported' = reported
  BY DEF FileInv, FileTypes, Looks, Within, SameFiles
<1>1. call'[c] = x
  BY <1>0 DEF Goes
<1>2. call'[c].rest = ReferencesTo(call[c].task) /\ call'[c].task = call[c].task /\ call[c].task \in Tasks
  BY <1>0, <1>1 DEF Call, Fits
<1> HIDE DEF x
<1> PICK u : u = call[c].task
  OBVIOUS
<1> SUFFICES ASSUME NEW t \in Tasks \ {u}, Refers(t, u)  PROVE t \in ReferencesTo(u) \/ <<t, u>> \in loose
  BY <1>0, <1>2 DEF FoundBy, Known, Refers
<1>3. ASSUME NEW d \in Calls, Applying(request[d], call[d], t, u)  PROVE FALSE
  <2>1. /\ d # c /\ call[d].step \in BodySteps
        /\ TaskKey(u) \in Needs(request[d], call[d]) /\ TaskKey(u) \in Needs(request[c], call[c]) /\ TaskKey(u) \in Keys
    BY <1>0, <1>2, <1>3, NeededKeys, TasksAssumption DEF Applying, BodySteps, Steps
  <2> QED  BY <1>0, <2>1, WritersDiffer
<1> QED  BY <1>2, <1>3 DEF InIndex, ReferencesTo

(* A delete lets go of a file that it rewrote, or reported, or that does not *)
(* name its task.                                                            *)
LEMMA RewriteClears ==
  ASSUME FileInv, WriteInv, NEW c \in Calls, OpensReference(c) \/ SavesReference(c)
  PROVE  ClearedBy(call[c])'
<1>0. call \in [Calls -> Call] /\ file \in [Tasks -> File] /\ Fits(request[c], call[c]) /\ call[c] \in Call
  BY DEF FileInv, FileTypes
<1>1. CASE OpensReference(c)
  <2> PICK r \in Tasks :
        Goes(c, [call[c] EXCEPT !.pos = r, !.snap = file[r],
            !.step = IF file[r].st = "good" /\ call[c].task \in Names(file[r]) THEN "refsave" ELSE "refapply"])
    BY <1>1 DEF OpensReference
  <2> PICK names \in BOOLEAN : names = (file[r].st = "good" /\ call[c].task \in Names(file[r]))
    OBVIOUS
  <2>1. call'[c] = [call[c] EXCEPT !.pos = r, !.snap = file[r], !.step = IF names THEN "refsave" ELSE "refapply"]
    BY <1>0 DEF Goes
  <2>2. call'[c].pos = r /\ call'[c].task = call[c].task /\ (call'[c].step = "refapply" => ~names)
    BY <1>0, <2>1 DEF Call
  <2>3. file' = file
    BY <1>1 DEF OpensReference
  <2> QED  BY <2>2, <2>3 DEF ClearedBy, Refers
<1>2. CASE SavesReference(c)
  <2>1. /\ call[c].pos \in Tasks /\ call[c].task \in Tasks
        /\ \/ file'[call[c].pos] = Without(file[call[c].pos], call[c].task)
           \/ reported' = reported \union {<<call[c].pos, call[c].task>>}
        /\ call'[c] = [call[c] EXCEPT !.step = "refapply"]
    BY <1>2, SavesReferenceIs
  <2>2. call'[c].pos = call[c].pos /\ call'[c].task = call[c].task
    BY <1>0, <2>1 DEF Call
  <2>3. CASE file'[call[c].pos] = Without(file[call[c].pos], call[c].task)
    <3>1. file[call[c].pos] \in File
      BY <1>0, <2>1
    <3>2. call[c].task \notin Names(file'[call[c].pos])
      BY <2>1, <2>3, <3>1, WithoutNames
    <3> QED  BY <2>2, <3>2 DEF ClearedBy, Refers
  <2>4. CASE reported' = reported \union {<<call[c].pos, call[c].task>>}
    BY <2>2, <2>4 DEF ClearedBy, Known
  <2> QED  BY <2>1, <2>3, <2>4
<1> QED  BY <1>1, <1>2

(* A call that does not move finds what it found. *)
LEMMA StillFinds ==
  ASSUME FileInv, WriteInv, NEW c \in Calls, Begin(c) \/ CallStep(c), call'[c] = call[c],
         FoundBy(call[c]), ClearedBy(call[c])
  PROVE  FoundBy(call[c])' /\ ClearedBy(call[c])'
<1>0. loose \subseteq loose' /\ reported \subseteq reported' /\ call \in [Calls -> Call]
  BY OneMoves DEF FileInv, FileTypes
<1>1. ASSUME call[c].step \in {"remove", "refapply"}  PROVE file' = file
  <2>1. ~Saves(c) /\ ~Creates(c)
    BY <1>1, SavesIs, CreatesIs
  <2>2. ~SavesReference(c)
    BY <1>1, SavesReferenceIs
  <2>3. ~Removes(c)
    BY <1>0, <1>1, RemovesIs DEF Call
  <2> QED  BY <2>1, <2>2, <2>3, OtherFiles
<1> QED  BY <1>0, <1>1 DEF FoundBy, ClearedBy, Known, Refers

(* A delete that rewrites keeps each file in hand until it is done with it. *)
LEMMA RewritesOn ==
  ASSUME FileInv, WriteInv, NEW c \in Calls, Begin(c) \/ CallStep(c), call[c].step \in Rewriting, ClearedBy(call[c]),
         NEW t \in call[c].rest, Refers(t, call[c].task)
  PROVE  \/ call'[c].step \in Rewriting /\ call'[c].task = call[c].task /\ t \in call'[c].rest
         \/ Known(t, call[c].task)
<1>0. call \in [Calls -> Call] /\ call[c] \in Call
  BY DEF FileInv, FileTypes
<1>1. CASE call'[c] = call[c]
  BY <1>1
<1>2. CASE Unlists(c)
  <2>1. To(c, "refs")
    BY <1>2 DEF Unlists, AfterRefs
  <2> QED  BY <2>1, MovesTo DEF Rewriting
<1>3. CASE OpensReference(c)
  <2> PICK r \in Tasks :
        Goes(c, [call[c] EXCEPT !.pos = r, !.snap = file[r],
            !.step = IF file[r].st = "good" /\ call[c].task \in Names(file[r]) THEN "refsave" ELSE "refapply"])
    BY <1>3 DEF OpensReference
  <2> PICK step \in {"refsave", "refapply"} :
        step = IF file[r].st = "good" /\ call[c].task \in Names(file[r]) THEN "refsave" ELSE "refapply"
    OBVIOUS
  <2>1. call'[c] = [call[c] EXCEPT !.pos = r, !.snap = file[r], !.step = step]
    BY <1>0 DEF Goes
  <2>2. call'[c].step = step /\ call'[c].task = call[c].task /\ call'[c].rest = call[c].rest
    BY <1>0, <2>1 DEF Call
  <2> QED  BY <2>2 DEF Rewriting
<1>4. CASE SavesReference(c)
  <2>1. To(c, "refapply")
    BY <1>4 DEF SavesReference
  <2> QED  BY <2>1, MovesTo DEF Rewriting
<1>5. CASE AppliesReference(c)
  <2> PICK r : r = call[c].pos
    OBVIOUS
  <2>1. /\ call[c].step = "refapply"
        /\ Goes(c, [call[c] EXCEPT !.rest = @ \ {r}, !.step = AfterRefs(call[c].rest \ {r})])
    BY <1>5 DEF AppliesReference, Within
  <2>2. CASE t = r
    BY <2>1, <2>2 DEF ClearedBy
  <2>3. CASE t # r
    <3>1. AfterRefs(call[c].rest \ {r}) = "refs"
      BY <2>3 DEF AfterRefs
    <3>2. call'[c] = [call[c] EXCEPT !.rest = @ \ {r}, !.step = "refs"]
      BY <1>0, <2>1, <3>1 DEF Goes
    <3>3. call'[c].rest = call[c].rest \ {r} /\ call'[c].step = "refs" /\ call'[c].task = call[c].task
      BY <1>0, <3>2 DEF Call
    <3> QED  BY <2>3, <3>3 DEF Rewriting
  <2> QED  BY <2>2, <2>3
<1> QED  BY <1>1, <1>2, <1>3, <1>4, <1>5, OwnMoves DEF Rewriting

(* No step leaves a reference to a task that is gone with nobody. *)
LEMMA DealtKept ==
  ASSUME FileInv, TurnInv, WriteInv, NEW c \in Calls, Begin(c) \/ CallStep(c), AllDealt,
         \A d \in Calls : FirmStands(request[d], call[d]),
         FoundBy(call[c]), ClearedBy(call[c])
  PROVE  AllDealt'
<1> SUFFICES ASSUME NEW t \in Tasks, NEW u \in Tasks, Refers(t, u)', file'[u].st = "none"
             PROVE  Dealt(t, u)'
  BY DEF AllDealt
<1>0. /\ call \in [Calls -> Call] /\ loose \subseteq loose' /\ reported \subseteq reported'
      /\ \A d \in Calls : d # c => call'[d] = call[d]
  BY OneMoves DEF FileInv, FileTypes
<1>1. Known(t, u) => Dealt(t, u)'
  BY <1>0 DEF Known, Dealt
<1>2. <<t, u>> \in loose' => Dealt(t, u)'
  BY DEF Known, Dealt
<1>3. CASE file[u].st = "none"
  <2>1. CASE ~Refers(t, u)
    BY <1>2, <1>3, <2>1, NewNames DEF NewBy
  <2>2. CASE Refers(t, u)
    <3>1. Dealt(t, u)
      BY <1>3, <2>2 DEF AllDealt
    <3>2. ASSUME NEW d \in Calls, call[d].step \in Rewriting, call[d].task = u, t \in call[d].rest
          PROVE  Dealt(t, u)'
      <4>1. CASE d # c
        BY <1>0, <3>2, <4>1 DEF Dealt
      <4>2. CASE d = c
        <5>1. \/ call'[c].step \in Rewriting /\ call'[c].task = u /\ t \in call'[c].rest
              \/ Known(t, u)
          BY <2>2, <3>2, <4>2, RewritesOn
        <5> QED  BY <1>1, <5>1 DEF Dealt
      <4> QED  BY <4>1, <4>2
    <3> QED  BY <1>1, <3>1, <3>2 DEF Dealt
  <2> QED  BY <2>1, <2>2
<1>4. CASE file[u].st # "none"
  <2>1. /\ call[c].step = "remove" /\ call[c].task = u /\ call'[c] = [call[c] EXCEPT !.step = "unlist"]
    BY <1>4, GoneByDelete
  <2>2. call'[c].step = "unlist" /\ call'[c].task = u /\ call'[c].rest = call[c].rest
    BY <1>0, <2>1 DEF Call
  <2>3. t # u
    BY DEF Refers
  <2>4. CASE ~Refers(t, u)
    BY <1>2, <2>1, <2>4, NewNames DEF NewBy
  <2>5. CASE Refers(t, u)
    <3>1. t \in call[c].rest \/ Known(t, u)
      BY <2>1, <2>3, <2>5 DEF FoundBy
    <3>2. t \in call[c].rest => Dealt(t, u)'
      BY <2>2 DEF Dealt, Rewriting
    <3> QED  BY <1>1, <3>1, <3>2
  <2> QED  BY <2>4, <2>5
<1> QED  BY <1>3, <1>4

(* What the references keep. *)
RefInv ==
  /\ \A c \in Calls : FirmStands(request[c], call[c])
  /\ InIndex
  /\ \A c \in Calls : FoundBy(call[c])
  /\ \A c \in Calls : ClearedBy(call[c])
  /\ AllDealt

(* No call has begun, the index is read, and what dangles is loose. *)
LEMMA InitRefs == Init => RefInv
<1> SUFFICES ASSUME Init  PROVE RefInv
  OBVIOUS
<1>1. \A c \in Calls : call[c].step = "idle"
  BY DEF Init, IdleCall
<1>2. InIndex
  BY DEF Init, InIndex, Refers, Entry
<1>3. ASSUME NEW t \in Tasks, NEW u \in Tasks, Refers(t, u), file[u].st = "none"  PROVE <<t, u>> \in AmissIn(file)
  BY <1>3 DEF AmissIn, Refers
<1>4. AllDealt
  BY <1>3 DEF AllDealt, Dealt, Known, Init
<1> QED  BY <1>1, <1>2, <1>4 DEF RefInv, FirmStands, FoundBy, ClearedBy

(* Every step keeps it. *)
LEMMA NextRefs == FileInv /\ TurnInv /\ WriteInv /\ RefInv /\ [Next]_vars => RefInv'
<1> SUFFICES ASSUME FileInv, TurnInv, WriteInv, RefInv, [Next]_vars  PROVE RefInv'
  OBVIOUS
<1>1. ASSUME NEW c \in Calls, Begin(c) \/ CallStep(c)  PROVE RefInv'
  <2>0. /\ call \in [Calls -> Call] /\ \A d \in Calls : FirmStands(request[d], call[d])
        /\ InIndex /\ AllDealt
        /\ \A d \in Calls : FoundBy(call[d]) /\ ClearedBy(call[d])
    BY DEF RefInv, FileInv, FileTypes
  <2>1. \A d \in Calls : FirmStands(request[d], call[d])'
    BY <1>1, <2>0, FirmKept
  <2>2. InIndex'
    BY <1>1, <2>0, InIndexKept
  <2>3. AllDealt'
    BY <1>1, <2>0, DealtKept
  <2>4. FoundBy(call[c])'
    <3>1. CASE call'[c] = call[c]
      BY <1>1, <2>0, <3>1, StillFinds
    <3>2. CASE Looks(c)
      BY <2>0, <3>2, LooksFinds
    <3>3. CASE call'[c].step # "remove"
      BY <3>3 DEF FoundBy
    <3> QED  BY <1>1, <3>1, <3>2, <3>3, OwnMoves
  <2>5. ClearedBy(call[c])'
    <3>1. CASE call'[c] = call[c]
      BY <1>1, <2>0, <3>1, StillFinds
    <3>2. CASE OpensReference(c) \/ SavesReference(c)
      BY <3>2, RewriteClears
    <3>3. CASE call'[c].step # "refapply"
      BY <3>3 DEF ClearedBy
    <3> QED  BY <1>1, <3>1, <3>2, <3>3, OwnMoves
  <2>6. ASSUME NEW d \in Calls, d # c  PROVE FoundBy(call[d])' /\ ClearedBy(call[d])'
    BY <1>1, <2>0, <2>6, OthersFind
  <2> QED  BY <2>1, <2>2, <2>3, <2>4, <2>5, <2>6 DEF RefInv
<1>2. ASSUME NEW s \in Tasks, Watches(s)  PROVE RefInv'
  <2>1. UNCHANGED <<file, request, call, reported, loose>> /\ index' = [index EXCEPT ![s] = Entry(file[s])]
    BY <1>2 DEF Watches
  <2>2. \A t \in Tasks : index'[t] \in {index[t], Entry(file[t])}
    BY <2>1 DEF FileInv, FileTypes
  <2>3. InIndex'
    BY <2>1, <2>2 DEF RefInv, InIndex, Refers, Entry, Applying
  <2> QED  BY <2>1, <2>3 DEF RefInv, FirmStands, FoundBy, ClearedBy, AllDealt, Dealt, Known, Refers
<1>3. CASE UNCHANGED vars
  BY <1>3 DEF vars, taskVars, RefInv, FirmStands, InIndex, Applying, FoundBy, ClearedBy, AllDealt, Dealt, Known, Refers
<1> QED  BY <1>1, <1>2, <1>3 DEF Next

(* A reference to a task that is gone is in the hands of the delete that took *)
(* it away, was reported, or was saved where nothing could be done: the turns *)
(* of the stated tasks (`blockerKeys`, `parentKeys`) and the second look of a *)
(* delete (`deleteTask` of the routes) leave no other.                        *)
THEOREM NoDanglingHolds == Spec => []NoDangling
<1>1. FileInv /\ RefInv => NoDangling
  <2> SUFFICES ASSUME FileInv, RefInv, NEW t \in Tasks, NEW u \in Tasks,
                      file[t].st = "good", u \in Names(file[t]), file[u].st = "none"
               PROVE  \/ <<t, u>> \in reported \union loose
                      \/ \E c \in Calls : request[c].kind = "delete" /\ call[c].task = u /\ t \in call[c].rest
    BY DEF NoDangling
  <2>1. Dealt(t, u)
    BY DEF RefInv, AllDealt, Refers
  <2>2. \A c \in Calls : call[c].step \in Rewriting => request[c].kind = "delete"
    BY DEF FileInv, Fits, DeleteSteps, Rewriting
  <2> QED  BY <2>1, <2>2 DEF Dealt, Known
<1> QED  BY <1>1, InitRefs, NextRefs, FilesHold, WritesUseTheQueue, TurnsHold, WritesHold, PTL DEF Spec

-----------------------------------------------------------------------------
(* The parents. *)

(* A parent has a number that was given. *)
NamesPast == \A t, u \in Tasks : Entry(file[t]).parent = u => u < counter \/ <<t, u>> \in loose

(* What a walk found of the stated parent: the task is not its parent, nor the *)
(* parent of its parent.                                                       *)
Near(x, u) == Entry(file[u]).parent # x.task
Far(x, u) == \A v \in Tasks \ {u} : Entry(file[u]).parent = v => ~Parents(v, x.task)

Walks(q, x) == q.kind = "update" /\ q.field = "parent" /\ q.parent \in Firm(q, x)

(* A walk stands at the stated parent, at its parent, or further up. *)
Walked(q, x) ==
  Walks(q, x) =>
    /\ x.step \in {"walk", "save"} => q.parent # x.task
    /\ x.step = "walk" => \/ x.pos = q.parent /\ x.chain = {q.parent, x.task}
                          \/ Near(x, q.parent) /\ x.pos = Entry(file[q.parent]).parent
                          \/ Near(x, q.parent) /\ Far(x, q.parent)
    /\ x.step = "save" => Near(x, q.parent) /\ Far(x, q.parent)

(* The counter only goes up. *)
LEMMA CounterGoesUp ==
  ASSUME FileInv, WriteInv, NEW c \in Calls, Begin(c) \/ CallStep(c)
  PROVE  counter \in Nat /\ counter' \in Nat /\ counter <= counter'
<1>0. counter \in Nat
  BY DEF FileInv, FileTypes
<1>1. counter' = counter \/ counter' = counter + 1
  <2>1. Saves(c) => counter' = counter
    BY DEF Saves
  <2>2. SavesReference(c) => counter' = counter
    BY DEF SavesReference
  <2>3. Removes(c) => counter' = counter
    BY DEF Removes
  <2>4. Creates(c) => counter' = counter + 1
    BY DEF Creates
  <2> QED  BY <2>1, <2>2, <2>3, <2>4, OtherFiles
<1> QED  BY <1>0, <1>1

(* Parents of numbers that were given. *)
LEMMA NamesPastKept ==
  ASSUME FileInv, WriteInv, NEW c \in Calls, Begin(c) \/ CallStep(c), FirmStands(request[c], call[c]), NamesPast
  PROVE  NamesPast'
<1> SUFFICES ASSUME NEW t \in Tasks, NEW u \in Tasks, Entry(file'[t]).parent = u, <<t, u>> \notin loose'
             PROVE  u < counter'
  BY DEF NamesPast, Entry
<1>0. u \in Nat /\ loose \subseteq loose'
  BY OneMoves, TasksAssumption
<1>1. counter \in Nat /\ counter' \in Nat /\ counter <= counter'
  BY CounterGoesUp
<1>2. u < counter
  <2>1. CASE Entry(file[t]).parent = u
    BY <1>0, <2>1 DEF NamesPast
  <2>2. CASE Entry(file[t]).parent # u
    <3>1. file[u].st # "none"
      BY <2>2, NewParent DEF NewBy
    <3> QED  BY <3>1 DEF WriteInv, Numbered
  <2> QED  BY <2>1, <2>2
<1> QED  BY <1>0, <1>1, <1>2

(* Who becomes the parent of whom in a step. *)
LEMMA NewEdge ==
  ASSUME FileInv, WriteInv, NEW c \in Calls, FirmStands(request[c], call[c]), Begin(c) \/ CallStep(c),
         NEW t \in Tasks, NEW u \in Tasks, Parents(t, u)', ~Parents(t, u)
  PROVE  NewBy(c, t, u) /\ request[c].field = "parent" /\ request[c].parent = u
<1>1. loose \subseteq loose'
  BY OneMoves
<1>2. Entry(file'[t]).parent = u /\ <<t, u>> \notin loose'
  BY DEF Parents, Entry
<1>3. Entry(file[t]).parent # u
  BY <1>1, <1>2 DEF Parents
<1> QED  BY <1>2, <1>3, NewParent

(* What a walk found stays while other calls write. *)
LEMMA OthersWalked ==
  ASSUME FileInv, TurnInv, WriteInv, NEW c \in Calls, Begin(c) \/ CallStep(c),
         \A d \in Calls : FirmStands(request[d], call[d]),
         NEW d \in Calls, d # c, Walked(request[d], call[d])
  PROVE  Walked(request[d], call[d])'
<1> PICK q : q = request[d]
  OBVIOUS
<1> PICK x : x = call[d]
  OBVIOUS
<1>0. request'[d] = q /\ call'[d] = x /\ loose \subseteq loose' /\ Fits(q, x)
  BY OneMoves DEF FileInv
<1> SUFFICES ASSUME Walks(q, x), x.step \in {"walk", "save"}
             PROVE  Walked(q, x)'
  BY <1>0 DEF Walked
<1> PICK u : u = q.parent
  OBVIOUS
<1> PICK t : t = x.task
  OBVIOUS
<1>1. /\ u \in Firm(q, x) /\ x.step \in BodySteps /\ q.kind = "update" /\ t = q.task /\ t \in Tasks
  BY <1>0 DEF Walks, BodySteps, Steps, Fits
<1>2. u \in Tasks /\ TaskKey(u) \in Needs(q, x) /\ TaskKey(t) \in Needs(q, x) /\ file[u].st # "none"
  BY <1>1, NeededKeys DEF FirmStands, Unchecked
<1>3. file'[u] = file[u]
  BY <1>1, <1>2, HeldStays
<1>4. Entry(file[u])' = Entry(file[u])
  BY <1>3 DEF Entry
<1>5. Near(x, u) => Near(x, u)'
  BY <1>4 DEF Near
<1>6. ASSUME NEW v \in Tasks, ~Parents(v, t)  PROVE ~Parents(v, t)'
  <2> SUFFICES ASSUME Parents(v, t)'  PROVE FALSE
    OBVIOUS
  <2>1. NewBy(c, v, t)
    BY <1>1, <1>6, NewEdge
  <2> QED  BY <1>1, <1>2, <2>1, HeldIsNotNamed
<1>7. Far(x, u) => Far(x, u)'
  BY <1>4, <1>6 DEF Far
<1> QED  BY <1>4, <1>5, <1>7 DEF Walked, Walks

(* After a save the index reads the file back. *)
LEMMA SaveApplies ==
  ASSUME FileInv, NEW c \in Calls, Saves(c) \/ Creates(c)
  PROVE  call'[c].step = "apply"
<1>0. call \in [Calls -> Call]
  BY DEF FileInv, FileTypes
<1>1. CASE Saves(c)
  <2>1. To(c, "apply")
    BY <1>1 DEF Saves
  <2> QED  BY <2>1, MovesTo
<1>2. CASE Creates(c)
  <2>1. call'[c] = [call[c] EXCEPT !.step = "apply", !.task = counter]
    BY <1>0, <1>2 DEF Creates, Goes
  <2> QED  BY <1>0, <2>1 DEF Call
<1> QED  BY <1>1, <1>2

(* A call that does not move keeps what it found. *)
LEMMA StillWalked ==
  ASSUME FileInv, WriteInv, NEW c \in Calls, Begin(c) \/ CallStep(c), call'[c] = call[c],
         Walked(request[c], call[c])
  PROVE  Walked(request[c], call[c])'
<1>0. request' = request /\ call \in [Calls -> Call]
  BY OneMoves DEF FileInv, FileTypes
<1>1. ASSUME call[c].step \in {"walk", "save"}  PROVE file' = file /\ loose' = loose
  <2>1. ~Saves(c) /\ ~Creates(c)
    <3> SUFFICES ASSUME Saves(c) \/ Creates(c)  PROVE FALSE
      OBVIOUS
    <3>1. call'[c].step = "apply"
      BY SaveApplies
    <3> QED  BY <1>1, <3>1
  <2>2. ~SavesReference(c) /\ ~Removes(c)
    BY <1>1 DEF SavesReference, Removes, Within
  <2> QED  BY <2>1, <2>2, OtherFiles
<1> QED  BY <1>0, <1>1 DEF Walked, Walks, Near, Far, Parents

(* The files, and what is loose, where a call reads. *)
LEMMA ReadersLeave ==
  ASSUME NEW c \in Calls, Opens(c) \/ ChecksBlocker(c) \/ ChecksParent(c) \/ WalksUp(c)
  PROVE  file' = file /\ loose' = loose
  BY DEF Opens, ChecksBlocker, ChecksParent, WalksUp, SameFiles

(* A walk reads the parent of where it is: of the stated parent first, then of *)
(* the parent of that.                                                         *)
LEMMA WalkFinds ==
  ASSUME FileInv, NEW c \in Calls, WalksUp(c), Walked(request[c], call[c])
  PROVE  Walked(request[c], call[c])'
<1> PICK q : q = request[c]
  OBVIOUS
<1> PICK x : x = call[c]
  OBVIOUS
<1> PICK p : p = q.parent
  OBVIOUS
<1> PICK up : up = Entry(file[x.pos]).parent
  OBVIOUS
<1>0. x \in Call /\ call \in [Calls -> Call] /\ request' = request /\ x.step = "walk" /\ file' = file /\ loose' = loose
  BY OneMoves, ReadersLeave DEF FileInv, FileTypes, WalksUp, Within
<1>1. \A y : Walks(q, y) /\ y.blind = x.blind => Walks(q, x)
  BY DEF Walks, Firm
<1>2. /\ Walks(q, x) => p # x.task
      /\ Walks(q, x) => \/ x.pos = p /\ x.chain = {p, x.task}
                        \/ Near(x, p) /\ x.pos = Entry(file[p]).parent
                        \/ Near(x, p) /\ Far(x, p)
  BY <1>0 DEF Walked
<1>3. CASE up = x.task
  <2>1. call'[c].step \in {"over", "apply"}
    <3>1. Refused(c)
      BY <1>3 DEF WalksUp
    <3> QED  BY <3>1, MovesTo DEF Refused
  <2> QED  BY <2>1 DEF Walked
<1>4. CASE up # x.task /\ (up = 0 \/ up \in x.chain)
  <2>1. To(c, "save")
    BY <1>4 DEF WalksUp
  <2>2. /\ call'[c].step = "save" /\ call'[c].task = x.task /\ call'[c].blind = x.blind
    BY <2>1, MovesTo
  <2>3. Walks(q, x) => Near(x, p) /\ Far(x, p)
    <3> SUFFICES ASSUME Walks(q, x)  PROVE Near(x, p) /\ Far(x, p)
      OBVIOUS
    <3>0. 0 \notin Tasks
      BY TasksAssumption
    <3>1. CASE x.pos = p /\ x.chain = {p, x.task}
      BY <1>4, <3>0, <3>1 DEF Near, Far
    <3>2. CASE Near(x, p) /\ x.pos = Entry(file[p]).parent
      BY <1>4, <3>2 DEF Far, Parents
    <3> QED  BY <1>2, <3>1, <3>2
  <2>4. Near(x, p) /\ Far(x, p) => (Near(x, p) /\ Far(x, p))'
    BY <1>0 DEF Near, Far, Parents
  <2>5. Walks(q, call'[c]) => Walks(q, x)
    BY <1>1, <2>2
  <2> QED  BY <1>0, <1>2, <2>2, <2>3, <2>5 DEF Walked, Near, Far, Parents
<1>5. CASE up # x.task /\ ~(up = 0 \/ up \in x.chain)
  <2>1. call'[c] = [x EXCEPT !.pos = up, !.chain = @ \union {up}]
    BY <1>0, <1>5 DEF WalksUp, Goes
  <2>2. call'[c].step = "walk" /\ call'[c].task = x.task /\ call'[c].blind = x.blind /\ call'[c].pos = up
    BY <1>0, <2>1 DEF Call
  <2>3. Walks(q, x) => \/ Near(x, p) /\ up = Entry(file[p]).parent
                       \/ Near(x, p) /\ Far(x, p)
    <3> SUFFICES ASSUME Walks(q, x)
                 PROVE  \/ Near(x, p) /\ up = Entry(file[p]).parent
                        \/ Near(x, p) /\ Far(x, p)
      OBVIOUS
    <3>1. CASE x.pos = p
      BY <1>5, <3>1 DEF Near
    <3>2. CASE Near(x, p) /\ x.pos = Entry(file[p]).parent
      BY <1>5, <3>2 DEF Far, Parents
    <3> QED  BY <1>2, <3>1, <3>2
  <2>5. Walks(q, call'[c]) => Walks(q, x)
    BY <1>1, <2>2
  <2> QED  BY <1>0, <1>2, <2>2, <2>3, <2>5 DEF Walked, Near, Far, Parents
<1> QED  BY <1>3, <1>4, <1>5

(* A walk begins at the stated parent; a write that states none does not walk. *)
LEMMA WalkBegins ==
  ASSUME FileInv, NEW c \in Calls, Opens(c) \/ ChecksBlocker(c) \/ ChecksParent(c)
  PROVE  Walked(request[c], call[c])'
<1> SUFFICES ASSUME Walks(request[c], call'[c]), call'[c].step \in {"walk", "save"}
             PROVE  Walked(request[c], call[c])'
  BY OneMoves DEF Walked, CallStep, WriteStep
<1> PICK q : q = request[c]
  OBVIOUS
<1> PICK x : x = call[c]
  OBVIOUS
<1>0. x \in Call /\ call \in [Calls -> Call] /\ request' = request
  BY DEF FileInv, FileTypes, Opens, ChecksBlocker, ChecksParent, Within
<1>1. q.kind = "update" /\ q.field = "parent" /\ q.parent \in Stated(q)
  BY DEF Walks, Firm
<1>2. ~IsCreate(c) /\ ~Refused(c)
  <2>1. ~IsCreate(c)
    BY <1>1 DEF IsCreate
  <2>2. ASSUME Refused(c)  PROVE FALSE
    <3>1. call'[c].step = "apply"
      BY <2>1, <2>2, MovesTo DEF Refused
    <3> QED  BY <3>1
  <2> QED  BY <2>1, <2>2
<1>3. CASE Opens(c)
  <2>1. call'[c] = [x EXCEPT !.step = IF Stated(q) = {} THEN "save" ELSE "check",
                             !.snap = file[x.task], !.rest = Stated(q)]
    BY <1>0, <1>2, <1>3 DEF Opens, Goes
  <2>2. call'[c].step = "check"
    BY <1>0, <1>1, <2>1 DEF Call
  <2> QED  BY <2>2
<1>4. CASE ChecksBlocker(c)
  BY <1>1, <1>4 DEF ChecksBlocker
<1>5. CASE ChecksParent(c)
  <2>1. q.parent # x.task /\ call'[c] = [x EXCEPT !.step = "walk", !.pos = q.parent, !.chain = {q.parent, x.task}]
    BY <1>0, <1>2, <1>5 DEF ChecksParent, Goes
  <2>2. /\ call'[c].step = "walk" /\ call'[c].task = x.task /\ call'[c].pos = q.parent
        /\ call'[c].chain = {q.parent, x.task}
    BY <1>0, <2>1 DEF Call
  <2> QED  BY <1>0, <2>1, <2>2 DEF Walked
<1> QED  BY <1>3, <1>4, <1>5

(* What a step of its own leaves of a walk. *)
LEMMA OwnWalked ==
  ASSUME FileInv, WriteInv, NEW c \in Calls, Begin(c) \/ CallStep(c), Walked(request[c], call[c])
  PROVE  Walked(request[c], call[c])'
<1>1. CASE call'[c].step \notin {"walk", "save"}
  BY <1>1 DEF Walked
<1>2. CASE call'[c].step \in {"walk", "save"}
  BY <1>2, OwnMoves, StillWalked, WalkFinds, WalkBegins
<1> QED  BY <1>1, <1>2

(* Two tasks, or three, are not each other's parents. *)
Pairs == \A t, u \in Tasks : Parents(t, u) => ~Parents(u, t)
Triples == \A t, u, v \in Tasks : ~(Parents(t, u) /\ Parents(u, v) /\ Parents(v, t))

ShapeInv ==
  /\ NamesPast
  /\ \A c \in Calls : Walked(request[c], call[c])
  /\ Pairs
  /\ Triples

(* A task has one parent, which is a task that has a number. *)
LEMMA OneParent ==
  ASSUME FileInv, NEW t \in Tasks, NEW u \in Tasks, NEW v \in Tasks, Parents(t, u), Parents(t, v)
  PROVE  u = v
  BY DEF Parents

(* A parent that a write gives a task is not the task, no child of it, and no *)
(* child of a child: an update walked that far with the turns of the task and *)
(* of the parent, and nothing names a task that is only created.              *)
LEMMA NewParentIsFar ==
  ASSUME FileInv, WriteInv, NamesPast, NEW c \in Calls, Walked(request[c], call[c]),
         FirmStands(request[c], call[c]), Begin(c) \/ CallStep(c),
         NEW t \in Tasks, NEW u \in Tasks, Parents(t, u)', ~Parents(t, u)
  PROVE  /\ t # u /\ ~Parents(u, t)
         /\ \A v \in Tasks : Parents(u, v) => ~Parents(v, t)
<1>0. NewBy(c, t, u) /\ request[c].field = "parent" /\ request[c].parent = u
  BY NewEdge
<1>1. /\ file'[t] # file[t] /\ call[c].step = "save" /\ u \in Firm(request[c], call[c]) /\ file[u].st # "none"
  <2>1. file'[t] # file[t]
    <3> SUFFICES ASSUME file'[t] = file[t]  PROVE FALSE
      OBVIOUS
    <3>1. loose \subseteq loose'
      BY OneMoves
    <3> QED  BY <3>1 DEF Parents, Entry
  <2> QED  BY <1>0, <2>1 DEF NewBy
<1>2. CASE Saves(c)
  <2>1. call[c].task = t /\ request[c].kind \in {"update", "comment"}
    BY <1>1, <1>2, SavesIs
  <2>2. Walks(request[c], call[c])
    BY <1>0, <1>1, <2>1 DEF Walks, Firm
  <2>3. u # t /\ Near(call[c], u) /\ Far(call[c], u)
    BY <1>0, <1>1, <2>1, <2>2 DEF Walked
  <2>4. ~Parents(u, t)
    BY <2>1, <2>3 DEF Near, Parents
  <2>5. ASSUME NEW v \in Tasks, Parents(u, v)  PROVE ~Parents(v, t)
    BY <2>1, <2>3, <2>4, <2>5 DEF Far, Parents
  <2> QED  BY <2>3, <2>4, <2>5
<1>3. CASE Creates(c)
  <2>1. t = counter /\ file[t].st = "none"
    BY <1>1, <1>3, CreatesIs
  <2>2. \A v \in Tasks : ~Parents(v, t)
    BY <2>1, TasksAssumption DEF NamesPast, Parents
  <2> QED  BY <1>1, <2>1, <2>2
<1>4. ~SavesReference(c) /\ ~Removes(c)
  BY <1>1 DEF SavesReference, Removes, Within
<1> QED  BY <1>1, <1>2, <1>3, <1>4, OtherFiles

(* A call gives one task one parent in a step. *)
LEMMA OneNewEdge ==
  ASSUME FileInv, WriteInv, NEW c \in Calls, FirmStands(request[c], call[c]), Begin(c) \/ CallStep(c),
         NEW t \in Tasks, NEW u \in Tasks, NEW r \in Tasks, NEW s \in Tasks,
         Parents(t, u)', ~Parents(t, u), Parents(r, s)', ~Parents(r, s)
  PROVE  t = r /\ u = s
<1>1. NewBy(c, t, u) /\ request[c].parent = u /\ NewBy(c, r, s) /\ request[c].parent = s
  BY NewEdge
<1> QED  BY <1>1 DEF NewBy

(* No step closes a ring. *)
LEMMA NoRing ==
  ASSUME FileInv, WriteInv, ShapeInv, NEW c \in Calls,
         FirmStands(request[c], call[c]), Begin(c) \/ CallStep(c)
  PROVE  Pairs' /\ Triples'
<1>0. NamesPast /\ Walked(request[c], call[c]) /\ Pairs /\ Triples
  BY DEF ShapeInv
<1>1. ASSUME NEW t \in Tasks, NEW u \in Tasks, Parents(t, u)', ~Parents(t, u)
      PROVE  t # u /\ ~Parents(u, t) /\ \A v \in Tasks : Parents(u, v) => ~Parents(v, t)
  BY <1>0, <1>1, NewParentIsFar
<1>2. ASSUME NEW t \in Tasks, NEW u \in Tasks, NEW r \in Tasks, NEW s \in Tasks,
             Parents(t, u)', ~Parents(t, u), Parents(r, s)', r # t
      PROVE  Parents(r, s)
  BY <1>2, OneNewEdge
<1>3. ASSUME NEW t \in Tasks, NEW u \in Tasks, Parents(t, u)', Parents(u, t)'  PROVE FALSE
  <2>1. CASE Parents(t, u) /\ Parents(u, t)
    BY <1>0, <2>1 DEF Pairs
  <2>2. CASE ~Parents(t, u)
    BY <1>1, <1>2, <1>3, <2>2
  <2>3. CASE ~Parents(u, t)
    BY <1>1, <1>2, <1>3, <2>3
  <2> QED  BY <2>1, <2>2, <2>3
<1>4. ASSUME NEW t \in Tasks, NEW u \in Tasks, NEW v \in Tasks,
             Parents(t, u)', ~Parents(t, u), Parents(u, v)', Parents(v, t)'
      PROVE  FALSE
  <2>1. u # t
    BY <1>1, <1>4
  <2>2. Parents(u, v)
    BY <1>2, <1>4, <2>1
  <2>3. v # t
    BY <1>3, <1>4
  <2>4. Parents(v, t)
    BY <1>2, <1>4, <2>3
  <2> QED  BY <1>1, <1>4, <2>2, <2>4
<1>5. ASSUME NEW t \in Tasks, NEW u \in Tasks, NEW v \in Tasks,
             Parents(t, u)', Parents(u, v)', Parents(v, t)'
      PROVE  FALSE
  <2>1. Parents(t, u) /\ Parents(u, v) /\ Parents(v, t)
    BY <1>4, <1>5
  <2> QED  BY <1>0, <2>1 DEF Triples
<1> QED  BY <1>3, <1>5 DEF Pairs, Triples

(* At the start a parent that closes a ring is loose. *)
LEMMA InitShape == Init => ShapeInv
<1> SUFFICES ASSUME Init  PROVE ShapeInv
  OBVIOUS
<1>0. /\ Tasks \subseteq Nat \ {0} /\ NextTask \in Nat /\ file \in [Tasks -> File] /\ counter = NextTask
      /\ \A t \in Tasks : file[t].st # "none" => t < NextTask
      /\ \A c \in Calls : call[c].step = "idle"
      /\ loose = AmissIn(file)
  BY TasksAssumption DEF Init, IdleCall
<1>1. ASSUME NEW t \in Tasks, NEW u \in Tasks, Entry(file[t]).parent = u  PROVE file[t].parent = u
  BY <1>0, <1>1 DEF Entry, NoFile
<1>2. ASSUME NEW t \in Tasks, NEW u \in Tasks, <<t, u>> \notin loose, Entry(file[t]).parent = u
      PROVE  /\ file[u].st # "none" /\ file[u].parent # t
             /\ \A v \in Tasks : ~(file[u].parent = v /\ file[v].parent = t)
  BY <1>0, <1>1, <1>2 DEF AmissIn, Names
<1>3. NamesPast
  BY <1>0, <1>2 DEF NamesPast
<1>4. Pairs /\ Triples
  BY <1>1, <1>2 DEF Pairs, Triples, Parents
<1>5. \A c \in Calls : Walked(request[c], call[c])
  BY <1>0 DEF Walked
<1> QED  BY <1>3, <1>4, <1>5 DEF ShapeInv

(* Every step keeps it. *)
LEMMA NextShape == FileInv /\ TurnInv /\ WriteInv /\ RefInv /\ ShapeInv /\ [Next]_vars => ShapeInv'
<1> SUFFICES ASSUME FileInv, TurnInv, WriteInv, RefInv, ShapeInv, [Next]_vars  PROVE ShapeInv'
  OBVIOUS
<1>0. \A d \in Calls : FirmStands(request[d], call[d]) /\ Walked(request[d], call[d])
  BY DEF RefInv, ShapeInv
<1>1. ASSUME NEW c \in Calls, Begin(c) \/ CallStep(c)  PROVE ShapeInv'
  <2>1. NamesPast'
    BY <1>0, <1>1, NamesPastKept DEF ShapeInv
  <2>2. Walked(request[c], call[c])'
    BY <1>0, <1>1, OwnWalked
  <2>3. ASSUME NEW d \in Calls, d # c  PROVE Walked(request[d], call[d])'
    BY <1>0, <1>1, <2>3, OthersWalked
  <2>4. Pairs' /\ Triples'
    BY <1>0, <1>1, NoRing
  <2> QED  BY <2>1, <2>2, <2>3, <2>4 DEF ShapeInv
<1>2. CASE UNCHANGED <<file, request, call, loose, counter>>
  BY <1>2 DEF ShapeInv, NamesPast, Walked, Walks, Near, Far, Pairs, Triples, Parents
<1>3. ASSUME NEW t \in Tasks, Watches(t)  PROVE UNCHANGED <<file, request, call, loose, counter>>
  BY <1>3 DEF Watches
<1> QED  BY <1>1, <1>2, <1>3 DEF Next, vars, taskVars

(* Two or three tasks are never each other's ancestors: `validateParent` walks *)
(* the parents one file at a time while other writes save, and it holds only   *)
(* the turns of the task and of the stated parent; those two are enough for    *)
(* the parent of the parent, and no further (see `NoParentCycle`).             *)
THEOREM NoShortCycleHolds == Spec => []NoShortCycle
<1>1. ShapeInv => NoShortCycle
  BY DEF ShapeInv, Pairs, Triples, NoShortCycle
<1> QED  BY <1>1, InitRefs, NextRefs, InitShape, NextShape, FilesHold, WritesUseTheQueue, TurnsHold, WritesHold, PTL DEF Spec
=============================================================================
