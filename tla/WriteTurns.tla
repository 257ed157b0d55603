----------------------------- MODULE WriteTurns -----------------------------
(***************************************************************************)
(* What the write queue of the daemon promises to a write: it stands in a  *)
(* line for each of its keys, in the order of arrival, and it runs only    *)
(* while it is the first of every one of these lines.  How a turn is       *)
(* awaited and which key comes first are left to WriteQueue.               *)
(***************************************************************************)
EXTENDS Naturals

CONSTANTS
  Calls,   \* the callers, each with one write at a time
  Keys     \* the keys that a write can name

VARIABLES
  place,   \* [Calls -> [Keys -> Nat]]: the place of a call in the line of a key, 0 for none
  last,    \* [Keys -> Nat]: the last place that was given in the line of a key
  at       \* [Calls -> {"out", "waits", "writes", "leaves"}]

vars == <<place, last, at>>

InLine(c) == {k \in Keys : place[c][k] # 0}

First(c, k) == \A d \in Calls : place[d][k] # 0 => place[c][k] <= place[d][k]

Init ==
  /\ place = [c \in Calls |-> [k \in Keys |-> 0]]
  /\ last = [k \in Keys |-> 0]
  /\ at = [c \in Calls |-> "out"]

(* A call goes to the end of the line of one more key. *)
Join(c, k) ==
  /\ at[c] \in {"out", "waits"}
  /\ place[c][k] = 0
  /\ last' = [last EXCEPT ![k] = @ + 1]
  /\ place' = [place EXCEPT ![c][k] = last[k] + 1]
  /\ at' = [at EXCEPT ![c] = "waits"]

(* It runs its write as the first of all its lines. *)
Write(c) ==
  /\ at[c] \in {"out", "waits"}
  /\ \A k \in InLine(c) : First(c, k)
  /\ at' = [at EXCEPT ![c] = "writes"]
  /\ UNCHANGED <<place, last>>

Finish(c) ==
  /\ at[c] = "writes"
  /\ at' = [at EXCEPT ![c] = IF InLine(c) = {} THEN "out" ELSE "leaves"]
  /\ UNCHANGED <<place, last>>

(* It leaves its lines one by one, and only after its write. *)
Leave(c, k) ==
  /\ at[c] = "leaves"
  /\ k \in InLine(c)
  /\ place' = [place EXCEPT ![c][k] = 0]
  /\ at' = [at EXCEPT ![c] = IF InLine(c) = {k} THEN "out" ELSE @]
  /\ UNCHANGED last

Next ==
  \E c \in Calls :
    \/ \E k \in Keys : Join(c, k) \/ Leave(c, k)
    \/ Write(c)
    \/ Finish(c)

Spec == Init /\ [][Next]_vars
=============================================================================
