------------------------------- MODULE MCFeed ------------------------------
(* A small instance of Feed for TLC: a list of tasks and the list of chats.  *)
EXTENDS Feed

MCKinds == {"task", "chat"}
MCQueries == {"tasks", "chats"}
MCTells == [tasks |-> {"task"}, chats |-> {"task", "chat"}]
MCWatched == {"task"}

None == [b \in Bounded |-> 0]

(* More changes than the feed keeps, around a lost reply, a stop or a screen *)
(* that goes; a lost watch event; two stops.                                 *)
MCBudgets ==
  {[None EXCEPT !["change"] = 2, !["loss"] = 1],
   [None EXCEPT !["change"] = 2, !["show"] = 1],
   [None EXCEPT !["change"] = 2, !["stop"] = 1],
   [None EXCEPT !["change"] = 1, !["miss"] = 1, !["loss"] = 1],
   [None EXCEPT !["change"] = 1, !["stop"] = 2]}
=============================================================================
