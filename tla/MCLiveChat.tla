---------------------------- MODULE MCLiveChat ------------------------------
(* A small instance of LiveChat for TLC. *)
EXTENDS LiveChat

CONSTANTS t1, q1

MCEvents == {AskEvent(q1), Plain("turn-end")}

None == [b \in Bounded |-> 0]

(* Failing writes and restarts; a restart around a rename; calls that wait;  *)
(* a removal around a rename, a failing write or a restart; a rename that    *)
(* throws, with a second one or a removal behind it.                         *)
MCBudgets ==
  {[None EXCEPT !["call"] = 1, !["mark"] = 1, !["fault"] = 1, !["crash"] = 1, !["loss"] = 1],
   [None EXCEPT !["call"] = 1, !["mark"] = 1, !["crash"] = 1, !["rename"] = 1],
   [None EXCEPT !["call"] = 2, !["fault"] = 1],
   [None EXCEPT !["mark"] = 2],
   [None EXCEPT !["call"] = 1, !["rename"] = 2],
   [None EXCEPT !["call"] = 1, !["fault"] = 1, !["rename"] = 1, !["remove"] = 1],
   [None EXCEPT !["call"] = 1, !["crash"] = 1, !["remove"] = 1],
   [None EXCEPT !["call"] = 1, !["rename"] = 2, !["throw"] = 1],
   [None EXCEPT !["call"] = 1, !["rename"] = 1, !["throw"] = 1, !["remove"] = 1]}
=============================================================================
