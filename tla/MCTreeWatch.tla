---------------------------- MODULE MCTreeWatch ----------------------------
(* A small tree for TreeWatch: two projects, the second past the limit while *)
(* the first is there.                                                       *)
EXTENDS TreeWatch

None == [b \in Bounded |-> 0]

(* Three changes; or two with a lost event and a rescan, a watch that fails and a rescan, or the close. *)
MCBudgets ==
  {[None EXCEPT !["edit"] = 3],
   [None EXCEPT !["edit"] = 2, !["lost"] = 1, !["rescan"] = 1],
   [None EXCEPT !["edit"] = 2, !["fail"] = 1, !["rescan"] = 1],
   [None EXCEPT !["edit"] = 1, !["close"] = 1]}
=============================================================================
