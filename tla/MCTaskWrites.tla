---------------------------- MODULE MCTaskWrites ----------------------------
(* Projects and requests for TaskWrites.  The callers are numbered, and plans *)
(* that differ only in which caller asks for what are taken once.             *)
EXTENDS TaskWrites, Sequences

Good(p) == [NewFile EXCEPT !.parent = p]
Broken == [NoFile EXCEPT !.st = "broken"]

Ask(kind, t) == [kind |-> kind, task |-> t, field |-> "none", parent |-> 0, blockers |-> {}]
AskParent(kind, t, p) == [Ask(kind, t) EXCEPT !.field = "parent", !.parent = p]
AskBlockers(kind, t, b) == [Ask(kind, t) EXCEPT !.field = "blocked_by", !.blockers = b]

MCKeys == {ProjectKey, CreateKey} \union {TaskKey(t) : t \in Tasks}

(* Tasks 1 and 2 with the next to come; in one start task 2 is broken, and in *)
(* one it names a task that is not there yet.                                 *)
MCStarts == {<<Good(0), Good(0), NoFile>>, <<Good(0), Good(1), NoFile>>, <<Good(0), Broken, NoFile>>,
             <<Good(0), Good(3), NoFile>>}

MCAsks == <<Ask("delete", 1), Ask("delete", 2), Ask("comment", 2),
            AskParent("update", 1, 2), AskParent("update", 2, 1), AskParent("update", 2, 0),
            AskBlockers("update", 1, {2, 3}), AskParent("create", 0, 1)>>

(* One request at least is a delete, which need not begin. *)
MCPlans ==
  {[c \in Calls |-> MCAsks[f[c]]] :
     f \in {g \in [Calls -> 1 .. Len(MCAsks)] :
              /\ \A c \in Calls \ {1} : g[c - 1] <= g[c]
              /\ \E c \in Calls : MCAsks[g[c]].kind = "delete"
              /\ \A c, d \in Calls : c # d => MCAsks[g[c]].kind # "create" \/ g[c] # g[d]}}

(* Four tasks with two parents set, and the two requests that would close a ring. *)
MCChainStarts == {<<Good(0), Good(3), Good(0), Good(1)>>}
MCChainPlans == {<<AskParent("update", 1, 2), AskParent("update", 3, 4)>>}
=============================================================================
