----------------------------- MODULE WriteQueue -----------------------------
(***************************************************************************)
(* The queue that gives writes their turns                                 *)
(* (apps/daemon/src/tasks/serialize.ts).  A turn is a promise; it stands   *)
(* here as its number among the turns of its key, and 0 stands for         *)
(* `undefined`.  `runAll` nests one `run` for each key, the least key      *)
(* outermost: `mine` holds the turns of the runs that a call is in, `wait` *)
(* what the innermost of them awaits, `todo` the keys that are still to be *)
(* nested.  Keys are strings taken in their order; numbers keep the order. *)
(***************************************************************************)
EXTENDS Naturals

CONSTANTS
  Calls,     \* the callers, each with one write at a time
  Keys,      \* the keys that a write can name, in the order in which they are taken
  MaxTurns   \* bound: no call begins with a key that had this many turns

ASSUME QueueAssumption ==
  /\ Keys \subseteq Nat
  /\ MaxTurns \in Nat

VARIABLES
  turns,   \* [Keys -> Nat]: the map `#turns`
  issued,  \* [Keys -> Nat]: how many turns of the key were created
  ended,   \* [Keys -> SUBSET Nat]: the turns that are resolved
  todo,    \* [Calls -> SUBSET Keys]
  mine,    \* [Calls -> [Keys -> Nat]]
  wait,    \* [Calls -> [key: Nat, ahead: Nat]]
  at       \* [Calls -> {"out", "waits", "writes", "leaves"}]

queueVars == <<turns, issued, ended, todo, mine, wait, at>>

QueueTypeOK ==
  /\ turns \in [Keys -> Nat]
  /\ issued \in [Keys -> Nat]
  /\ ended \in [Keys -> SUBSET Nat]
  /\ todo \in [Calls -> SUBSET Keys]
  /\ mine \in [Calls -> [Keys -> Nat]]
  /\ wait \in [Calls -> [key: Nat, ahead: Nat]]
  /\ at \in [Calls -> {"out", "waits", "writes", "leaves"}]

(* The keys of the runs that a call is in, and those whose write it entered. *)
Taken(c) == {k \in Keys : mine[c][k] # 0}
Waits(c, k) == at[c] = "waits" /\ wait[c].key = k
Holds(c, k) == k \in Taken(c) /\ ~Waits(c, k)

-----------------------------------------------------------------------------
QueueInit ==
  /\ turns = [k \in Keys |-> 0]
  /\ issued = [k \in Keys |-> 0]
  /\ ended = [k \in Keys |-> {}]
  /\ todo = [c \in Calls |-> {}]
  /\ mine = [c \in Calls |-> [k \in Keys |-> 0]]
  /\ wait = [c \in Calls |-> [key |-> 0, ahead |-> 0]]
  /\ at = [c \in Calls |-> "out"]

Least(S, k) == k \in S /\ \A j \in S : k <= j
Greatest(S, k) == k \in S /\ \A j \in S : j <= k

(* `run`, up to its `await`: the turn is taken before anything is awaited. *)
Run(c, k) ==
  /\ issued' = [issued EXCEPT ![k] = @ + 1]
  /\ turns' = [turns EXCEPT ![k] = issued[k] + 1]
  /\ mine' = [mine EXCEPT ![c][k] = issued[k] + 1]
  /\ wait' = [wait EXCEPT ![c] = [key |-> k, ahead |-> turns[k]]]
  /\ at' = [at EXCEPT ![c] = "waits"]
  /\ UNCHANGED ended

(* The write of the innermost run, which is a `run` of the next key or the   *)
(* write of the call.                                                        *)
Inner(c, keys) ==
  \/ /\ keys = {}
     /\ at' = [at EXCEPT ![c] = "writes"]
     /\ UNCHANGED <<turns, issued, ended, todo, mine, wait>>
  \/ \E k \in Keys :
       /\ Least(keys, k)
       /\ todo' = [todo EXCEPT ![c] = keys \ {k}]
       /\ Run(c, k)

(* `runAll`: a key stated twice takes one turn. *)
RunAll(c, keys) ==
  /\ at[c] = "out"
  /\ \A k \in keys : issued[k] < MaxTurns
  /\ Inner(c, keys)

(* `await ahead` is over. *)
AheadEnded(c) == wait[c].ahead = 0 \/ wait[c].ahead \in ended[wait[c].key]

Enter(c) ==
  /\ at[c] = "waits"
  /\ AheadEnded(c)
  /\ Inner(c, todo[c])

(* Mutant: the call ends and gives none of its turns back. *)
WriteEndsHolding(c) ==
  /\ at[c] = "writes"
  /\ at' = [at EXCEPT ![c] = "out"]
  /\ UNCHANGED <<turns, issued, ended, todo, mine, wait>>

(* The write of the call is fulfilled or refused: the queue tells no difference. *)
WriteEnds(c) ==
  /\ at[c] = "writes"
  /\ at' = [at EXCEPT ![c] = IF Taken(c) = {} THEN "out" ELSE "leaves"]
  /\ UNCHANGED <<turns, issued, ended, todo, mine, wait>>

(* Mutant: deletes the key whatever turn the map holds.                     *)
WithoutTurnAlways(k, turn) == [turns EXCEPT ![k] = 0]

(* The entry of the map goes only where no later turn took its place. *)
WithoutTurn(k, turn) == [turns EXCEPT ![k] = IF @ = turn THEN 0 ELSE @]

(* The `finally` of the innermost run that is left. *)
Leave(c) ==
  /\ at[c] = "leaves"
  /\ \E k \in Keys :
       /\ Greatest(Taken(c), k)
       /\ ended' = [ended EXCEPT ![k] = @ \union {mine[c][k]}]
       /\ turns' = WithoutTurn(k, mine[c][k])
       /\ mine' = [mine EXCEPT ![c][k] = 0]
       /\ at' = [at EXCEPT ![c] = IF Taken(c) = {k} THEN "out" ELSE @]
  /\ UNCHANGED <<issued, todo, wait>>

QueueStep(c) == Enter(c) \/ WriteEnds(c) \/ Leave(c)

QueueNext == \E c \in Calls : QueueStep(c) \/ \E keys \in SUBSET Keys : RunAll(c, keys)

QueueSpec == QueueInit /\ [][QueueNext]_queueVars

-----------------------------------------------------------------------------
(* Two calls are never inside the turn of one key, so two writes that share a *)
(* key never overlap, whatever other keys each of them names.                 *)
OneWriter ==
  \A k \in Keys : \A c, d \in Calls : Holds(c, k) /\ Holds(d, k) => c = d

(* A call inside the turn of a key came there after every earlier turn of the *)
(* key ended: writes of one key run in the order of their calls, and a turn   *)
(* that nobody is in is never stepped over.                                   *)
InOrder ==
  \A c \in Calls : \A k \in Keys :
    Holds(c, k) => \A n \in 1 .. (mine[c][k] - 1) : n \in ended[k]

(* The map holds a key exactly while some call is in a run of it: an idle     *)
(* queue keeps no key, and no call that comes finds the map without the turn  *)
(* that it has to wait for.                                                   *)
KeysInUse ==
  \A k \in Keys : turns[k] # 0 <=> \E c \in Calls : k \in Taken(c)

(* The queue keeps its promise: a write stands in the lines of all its keys,  *)
(* and runs as the first of each (abstract lines of WriteTurns).              *)
Promise == INSTANCE WriteTurns WITH place <- mine, last <- issued
PromiseHolds == Promise!Spec
=============================================================================
