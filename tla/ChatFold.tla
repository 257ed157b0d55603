------------------------------ MODULE ChatFold ------------------------------
(***************************************************************************)
(* The fold of a chat log (packages/protocol/src/chat.ts) and the record   *)
(* of what the agent answered (apps/daemon/src/chats/registry.ts).         *)
(*                                                                         *)
(* The daemon and every client compute the state of a chat from the events *)
(* of its log and from nothing else, so these operators are shared by all  *)
(* modules about chats.  A fold keeps only what later events can tell      *)
(* apart: a request is an opaque id, the set of open requests replaces the *)
(* ordered list, and the words of a stop are left out.                     *)
(***************************************************************************)
EXTENDS Naturals, Sequences

CONSTANTS
  Texts,     \* the texts of the user, each told from the others
  Requests   \* the ids of permission requests and questions

(***************************************************************************)
(* Events.  One record shape for every kind: "text" is read for "user",    *)
(* "reqs" for "ask" and "resolved" ("resolved" holds all requests that one *)
(* step resolves), "job" and "own" for "background".  "ask" is a           *)
(* permission or a question, "work" an update that shows work of the       *)
(* agent, "turn-end" ends with the reason of the agent and "turn-cancelled"*)
(* with the reason `cancelled`.                                            *)
(***************************************************************************)
EventKinds == {"user", "ask", "resolved", "background", "turn-end", "turn-cancelled",
               "interrupted", "failed", "continued-outside", "resumed", "work", "other"}

Event == [kind: EventKinds, text: Seq(Texts), reqs: SUBSET Requests,
          job: BOOLEAN, own: BOOLEAN]

Plain(kind) == [kind |-> kind, text |-> <<>>, reqs |-> {}, job |-> FALSE, own |-> FALSE]
UserEvent(t) == [Plain("user") EXCEPT !.text = <<t>>]
AskEvent(q) == [Plain("ask") EXCEPT !.reqs = {q}]
ResolvedEvent(qs) == [Plain("resolved") EXCEPT !.reqs = qs]
BackgroundEvent(job, own) == [Plain("background") EXCEPT !.job = job, !.own = own]

-----------------------------------------------------------------------------
(* The fold. *)

Stops == {"none", "failed", "continued-outside"}

Fold == [turn: BOOLEAN, job: BOOLEAN, own: BOOLEAN, open: SUBSET Requests, stopped: Stops]

ChatStart == [turn |-> FALSE, job |-> FALSE, own |-> FALSE, open |-> {}, stopped |-> "none"]

TurnRuns(f) == f.turn \/ f.own
AgentActive(f) == TurnRuns(f) \/ f.job
ChatBusy(f) == AgentActive(f) \/ f.open # {}

NothingRuns(f, stopped) == [ChatStart EXCEPT !.stopped = stopped]

FoldChat(f, e) ==
  CASE e.kind = "user" ->
         [f EXCEPT !.turn = TRUE, !.job = FALSE, !.own = FALSE, !.stopped = "none"]
    [] e.kind = "ask" -> [f EXCEPT !.open = @ \union e.reqs]
    [] e.kind = "resolved" -> [f EXCEPT !.open = @ \ e.reqs]
    [] e.kind = "background" -> [f EXCEPT !.job = e.job, !.own = e.own]
    [] e.kind \in {"turn-end", "turn-cancelled"} -> [f EXCEPT !.turn = FALSE, !.open = {}]
    [] e.kind = "interrupted" -> NothingRuns(f, f.stopped)
    [] e.kind = "failed" -> NothingRuns(f, "failed")
    [] e.kind = "continued-outside" -> NothingRuns(f, "continued-outside")
    [] e.kind = "resumed" -> [f EXCEPT !.stopped = "none"]
    [] OTHER -> f

-----------------------------------------------------------------------------
(* Whether the agent ever answered, and the texts it has not answered. *)

Answers == [answered: BOOLEAN, unanswered: Seq(Texts)]

NoAnswers == [answered |-> FALSE, unanswered |-> <<>>]

IsAnswer(e) == e.kind \in {"turn-end", "ask", "work"}

TrackAnswers(a, e) ==
  CASE e.kind = "user" -> [a EXCEPT !.unanswered = @ \o e.text]
    [] IsAnswer(e) -> [answered |-> TRUE, unanswered |-> <<>>]
    [] e.kind = "turn-cancelled" /\ a.answered -> [a EXCEPT !.unanswered = <<>>]
    [] OTHER -> a
=============================================================================
