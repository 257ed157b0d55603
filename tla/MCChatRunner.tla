---------------------------- MODULE MCChatRunner ----------------------------
(* Small instances of ChatRunner for TLC. *)
EXTENDS ChatRunnerProperties

CONSTANTS t1, t2, q1

None == [b \in Bounded |-> 0]

\* Two messages with a cancel and an exit; one with own turns and a failing write.
WorkBudgets ==
  {[None EXCEPT !["text"] = 2, !["cancel"] = 1, !["exit"] = 1],
   [None EXCEPT !["text"] = 1, !["cancel"] = 1, !["exit"] = 1, !["fault"] = 1, !["background"] = 1]}

\* A pick and an end against a second message, or against the daemon stop and a failing write.
EndBudgets ==
  {[None EXCEPT !["text"] = 2, !["pick"] = 1, !["end"] = 1],
   [None EXCEPT !["text"] = 1, !["pick"] = 1, !["end"] = 1, !["stop"] = 1, !["fault"] = 1]}

SettleBudgets == {[None EXCEPT !["text"] = 2, !["end"] = 1]}

LostBudgets == {[None EXCEPT !["text"] = 2, !["cancel"] = 1, !["exit"] = 1, !["pick"] = 1]}

\* The texts are told apart only by `=`.
MCSymmetry == Permutations(Texts)
=============================================================================
