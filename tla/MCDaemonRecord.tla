--------------------------- MODULE MCDaemonRecord --------------------------
(* Small instances of DaemonRecord for TLC.                                  *)
EXTENDS DaemonRecord, TLC

None == [b \in Bounded |-> 0]

(* Three starts against two stops and a death, a late answer or a fault.     *)
MCBudgets ==
  {[None EXCEPT !["stop"] = 2, !["death"] = 1],
   [None EXCEPT !["stop"] = 1, !["late"] = 1, !["fault"] = 1]}

(* Starts alone. *)
NoBudgets == {None}

MCSymmetry == Permutations(Procs)
=============================================================================
