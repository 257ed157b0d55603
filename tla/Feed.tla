------------------------------- MODULE Feed --------------------------------
(***************************************************************************)
(* A change on its way to a page: the change feed of one daemon run        *)
(* (apps/daemon/src/events/feed.ts, hold.ts, rescan.ts), the long poll of  *)
(* the web app (apps/web/src/api/long-poll.ts) and the marks that its      *)
(* subscriber sets on the queries of the page (feed-events.ts,             *)
(* feed-subscriber.tsx).  A watch event can be lost, a reply can be lost,  *)
(* the feed drops its oldest event, and the daemon stops and starts again. *)
(*                                                                         *)
(* Data is abstracted to what a page can get wrong: each query shows, and  *)
(* each read in flight carries, an answer from before or after the last    *)
(* change that its answer tells.                                           *)
(***************************************************************************)
EXTENDS Naturals, Sequences

CONSTANTS
  Kinds,     \* the kinds of change that happen
  Queries,   \* the queries of the page
  Tells,     \* [Queries -> SUBSET Kinds]: the changes that change the answer of a query
  Watched,   \* the kinds that the daemon hears of by watching files
  Size,      \* FEED_SIZE
  Budgets    \* sets of bounds, one of which holds: changes, lost watch events, lost replies, stops, shown queries

Bounded == {"change", "miss", "loss", "stop", "show"}

(* The queries that one project, one task, one chat and one workflow have.   *)
Daemon == {"projects", "project", "tasks", "task", "taskChats", "chat", "search",
           "chats", "setup", "workflow", "workflowRead", "workflowList", "health"}

(* The queries each kind of event makes old. *)
FEED_MAPPINGS ==
  LET project == {"project", "tasks", "task", "taskChats", "chat", "search"}
  IN  [task |-> {"task", "tasks", "search", "chats"},
       deleted |-> {"task", "taskChats", "chat", "tasks", "search", "chats"},
       project |-> project \union {"projects", "chats", "setup"},
       chat |-> {"chats", "taskChats"},
       projectChat |-> {"chats"},
       config |-> Daemon,
       workflow |-> project \union {"projects", "workflow", "workflowRead", "workflowList", "setup"}]

ASSUME FeedAssumption ==
  /\ Kinds \subseteq DOMAIN FEED_MAPPINGS
  /\ Queries \subseteq Daemon
  /\ Tells \in [Queries -> SUBSET Kinds]
  /\ \A q \in Queries : \A k \in Tells[q] : q \in FEED_MAPPINGS[k]
  /\ Watched \subseteq Kinds
  /\ Size \in Nat \ {0}
  /\ Budgets \subseteq [Bounded -> Nat]

VARIABLES
  up,       \* the daemon: "up", "closing" with its feed closed, or "down"
  feed,     \* its feed: the run id, the sequence, the kept events and a scheduled release
  heard,    \* who reads it: reads held for clients that are gone, and whether a read returned a moment ago
  tick,     \* a rescan is running
  due,      \* [Kinds -> Nat]: changes that the daemon has yet to publish
  missed,   \* the kinds with a change whose watch event was lost
  poll,     \* the long poll of the page: where its read stands, its cursor and the reply that is under way
  queries,  \* the queries of the page
  left      \* what is left of the one of Budgets that holds

vars == <<up, feed, heard, tick, due, missed, poll, queries, left>>

Spends(bound) == left[bound] > 0 /\ left' = [left EXCEPT ![bound] = @ - 1]

-----------------------------------------------------------------------------
(* The feed. *)

NewFeed(run) == [run |-> run, sequence |-> 0, events |-> <<>>, scheduled |-> FALSE]
NotHeard == [gone |-> 0, recent |-> FALSE]
NothingDue == [k \in Kinds |-> 0]

Cursor == [run: Nat, seq: Nat]

Reply == [reset: BOOLEAN, cursor: Cursor, events: Seq(Kinds)]

(* No run: the cursor of a page before its first reply. *)
NoCursor == [run |-> 0, seq |-> 0]

Current == [run |-> feed.run, seq |-> feed.sequence]
Reset == [reset |-> TRUE, cursor |-> Current, events |-> <<>>]
EventsAfter(n) == [reset |-> FALSE, cursor |-> Current, events |-> SubSeq(feed.events, n + 1, Len(feed.events))]

Before == feed.sequence - Len(feed.events)

ReplyAfter(known) == IF known < Before THEN Reset ELSE EventsAfter(known - Before)

KnownCursor(c) == c.run = feed.run /\ c.seq <= feed.sequence

(* What a read gets that does not wait. *)
Answer(after) ==
  IF after = NoCursor THEN EventsAfter(Len(feed.events))
  ELSE IF ~KnownCursor(after) THEN Reset ELSE ReplyAfter(after.seq)

Holds(after) == up = "up" /\ KnownCursor(after) /\ after.seq = feed.sequence

Returned == [heard EXCEPT !.recent = TRUE]

Replies(reply) ==
  /\ poll' = [poll EXCEPT !.at = "reply", !.reply = reply]
  /\ heard' = Returned

(* Mutant: only a held read counts. *)
HeldNow == poll.at = "held" \/ heard.gone > 0

Listening == up = "up" /\ (poll.at = "held" \/ heard.gone > 0 \/ heard.recent)

(* Mutant: drops the oldest event before it stores the new one. *)
DropsFirst(f, k) ==
  LET all == Append(IF Len(f.events) > Size THEN Tail(f.events) ELSE f.events, k)
  IN  [f EXCEPT !.sequence = @ + 1, !.events = all, !.scheduled = TRUE]

Published(f, k) ==
  LET all == Append(f.events, k)
  IN  [f EXCEPT !.sequence = @ + 1, !.events = IF Len(all) > Size THEN Tail(all) ELSE all, !.scheduled = TRUE]

-----------------------------------------------------------------------------
(* The queries of the page, in the cache of the library. *)

Query == [shown: {"none", "old", "new"},   \* the answer it shows
          mark: BOOLEAN,                   \* it is marked old
          fetch: {"idle", "asked", "old", "new"},   \* its read: under way, or answered
          landing: BOOLEAN,                \* it is to be marked again when its read lands
          active: BOOLEAN]                 \* a screen shows it

(* Mutant: a read under way is left to itself. *)
MarkedOnly(q) ==
  [q EXCEPT !.mark = TRUE,
            !.fetch = IF q.active /\ (q.fetch = "idle" \/ q.shown # "none") THEN "asked" ELSE @]

(* A query is marked.  An active one reads again, except that its first load *)
(* runs on.                                                                  *)
Invalidated(q) ==
  LET restarts == q.active /\ q.shown # "none"
  IN  [q EXCEPT !.mark = TRUE,
                !.fetch = IF restarts \/ (q.active /\ q.fetch = "idle") THEN "asked" ELSE @,
                !.landing = IF q.fetch = "idle" THEN @ ELSE ~restarts]

(* A read is over.  The subscriber hears of it. *)
Rested(q) == IF q.landing THEN Invalidated([q EXCEPT !.landing = FALSE]) ELSE q

Landed(q) == Rested([q EXCEPT !.shown = q.fetch, !.mark = FALSE, !.fetch = "idle"])

(* `filtersOf`, over every query each event makes old. *)
FiltersOf(events) == UNION {FEED_MAPPINGS[events[i]] : i \in DOMAIN events}

MadeOld(reply) == IF reply.reset \/ poll.cursor = NoCursor THEN Daemon ELSE FiltersOf(reply.events)

Outdated(answer) == IF answer = "new" THEN "old" ELSE answer

-----------------------------------------------------------------------------
NewPoll == [at |-> "sent", cursor |-> NoCursor, reply |-> <<>>]

Init ==
  /\ up = "up"
  /\ feed = NewFeed(1)
  /\ heard = NotHeard
  /\ tick = FALSE
  /\ due = NothingDue
  /\ missed = {}
  /\ poll = NewPoll
  /\ queries = [q \in Queries |->
                  [shown |-> "none", mark |-> FALSE, fetch |-> "asked", landing |-> FALSE, active |-> TRUE]]
  /\ left \in Budgets

(* A file changes, by a call on the daemon or by hand. *)
Changes(k) ==
  /\ Spends("change")
  /\ queries' = [q \in Queries |->
                   IF k \in Tells[q]
                   THEN [queries[q] EXCEPT !.shown = Outdated(@), !.fetch = Outdated(@)]
                   ELSE queries[q]]
  /\ due' = IF up = "up" THEN [due EXCEPT ![k] = @ + 1] ELSE due
  /\ UNCHANGED <<up, feed, heard, tick, missed, poll>>

Publishes(k) ==
  /\ up = "up" /\ due[k] > 0
  /\ due' = [due EXCEPT ![k] = @ - 1]
  /\ feed' = Published(feed, k)
  /\ UNCHANGED <<up, heard, tick, missed, poll, queries, left>>

(* No watch event comes. *)
Misses(k) ==
  /\ k \in Watched /\ due[k] > 0
  /\ Spends("miss")
  /\ due' = [due EXCEPT ![k] = @ - 1]
  /\ missed' = missed \union {k}
  /\ UNCHANGED <<up, feed, heard, tick, poll, queries>>

(* The release that a publish scheduled answers each held read. *)
Releases ==
  /\ up = "up" /\ feed.scheduled
  /\ feed' = [feed EXCEPT !.scheduled = FALSE]
  /\ IF poll.at = "held"
     THEN /\ poll' = [poll EXCEPT !.at = "reply", !.reply = ReplyAfter(poll.cursor.seq)]
          /\ heard' = [gone |-> 0, recent |-> TRUE]
     ELSE /\ UNCHANGED poll
          /\ heard' = [gone |-> 0, recent |-> heard.recent \/ heard.gone > 0]
  /\ UNCHANGED <<up, tick, due, missed, queries, left>>

HoldEnds ==
  /\ up = "up" /\ poll.at = "held"
  /\ Replies(ReplyAfter(poll.cursor.seq))
  /\ UNCHANGED <<up, feed, tick, due, missed, queries, left>>

(* The hold of a read ends whose client is gone. *)
GoneHoldEnds ==
  /\ up = "up" /\ heard.gone > 0
  /\ heard' = [gone |-> heard.gone - 1, recent |-> TRUE]
  /\ UNCHANGED <<up, feed, tick, due, missed, poll, queries, left>>

(* LISTEN_MS is over since the last read returned.  A page that gets its     *)
(* replies reads again long before.                                          *)
ListenEnds ==
  /\ up = "up" /\ heard.recent /\ poll.at = "pause"
  /\ heard' = [heard EXCEPT !.recent = FALSE]
  /\ UNCHANGED <<up, feed, tick, due, missed, poll, queries, left>>

-----------------------------------------------------------------------------
(* Rescans. *)

TickStarts ==
  /\ up = "up" /\ ~tick /\ Listening
  /\ tick' = TRUE
  /\ UNCHANGED <<up, feed, heard, due, missed, poll, queries, left>>

(* A change that the rescan finds is published. *)
TickFinds(k) ==
  /\ tick /\ k \in missed
  /\ missed' = missed \ {k}
  /\ feed' = Published(feed, k)
  /\ UNCHANGED <<up, heard, tick, due, poll, queries, left>>

TickEnds ==
  /\ tick /\ missed = {}
  /\ tick' = FALSE
  /\ UNCHANGED <<up, feed, heard, due, missed, poll, queries, left>>

-----------------------------------------------------------------------------
(* The daemon stops and starts. *)

(* `close` answers each held read.  Later changes are dropped. *)
Closes ==
  /\ up = "up"
  /\ Spends("stop")
  /\ up' = "closing"
  /\ heard' = NotHeard
  /\ tick' = FALSE
  /\ due' = NothingDue
  /\ missed' = {}
  /\ poll' = IF poll.at = "held" THEN [poll EXCEPT !.at = "reply", !.reply = ReplyAfter(poll.cursor.seq)] ELSE poll
  /\ UNCHANGED <<feed, queries>>

(* The connection of a held read breaks.  A reply can still arrive. *)
Dies ==
  /\ \/ up = "closing" /\ UNCHANGED left
     \/ up = "up" /\ Spends("stop")
  /\ up' = "down"
  /\ heard' = NotHeard
  /\ tick' = FALSE
  /\ due' = NothingDue
  /\ missed' = {}
  /\ poll' = IF poll.at = "held" THEN [poll EXCEPT !.at = "pause"] ELSE poll
  /\ UNCHANGED <<feed, queries>>

Starts ==
  /\ up = "down"
  /\ up' = "up"
  /\ feed' = NewFeed(feed.run + 1)
  /\ UNCHANGED <<heard, tick, due, missed, poll, queries, left>>

-----------------------------------------------------------------------------
(* The page. *)

Arrives ==
  /\ poll.at = "sent" /\ up # "down"
  /\ IF Holds(poll.cursor)
     THEN poll' = [poll EXCEPT !.at = "held"] /\ UNCHANGED heard
     ELSE Replies(Answer(poll.cursor))
  /\ UNCHANGED <<up, feed, tick, due, missed, queries, left>>

(* The cursor moves, the queries are marked, and the next read is sent. *)
TakesReply ==
  /\ poll.at = "reply"
  /\ queries' = [q \in Queries |-> IF q \in MadeOld(poll.reply) THEN Invalidated(queries[q]) ELSE queries[q]]
  /\ poll' = [at |-> "sent", cursor |-> poll.reply.cursor, reply |-> <<>>]
  /\ UNCHANGED <<up, feed, heard, tick, due, missed, left>>

(* A read fails: the daemon is down, or the connection is lost.  The daemon  *)
(* holds the read on.                                                        *)
ReadFails ==
  /\ poll.at \in {"sent", "held", "reply"}
  /\ IF up = "down" THEN UNCHANGED left ELSE Spends("loss")
  /\ heard' = IF poll.at = "held" /\ up = "up" THEN [heard EXCEPT !.gone = @ + 1] ELSE heard
  /\ poll' = [poll EXCEPT !.at = "pause", !.reply = <<>>]
  /\ UNCHANGED <<up, feed, tick, due, missed, queries>>

PauseEnds ==
  /\ poll.at = "pause"
  /\ poll' = [poll EXCEPT !.at = "sent"]
  /\ UNCHANGED <<up, feed, heard, tick, due, missed, queries, left>>

Page == <<up, feed, heard, tick, due, missed, poll>>

(* The daemon answers the read of a query with the data as it is. *)
Answers(q) ==
  /\ queries[q].fetch = "asked" /\ up # "down"
  /\ queries' = [queries EXCEPT ![q].fetch = "new"]
  /\ UNCHANGED <<Page, left>>

Lands(q) ==
  /\ queries[q].fetch \in {"old", "new"}
  /\ queries' = [queries EXCEPT ![q] = Landed(@)]
  /\ UNCHANGED <<Page, left>>

(* A read of a query fails for good while the daemon is down.  The query is  *)
(* old to the library from then on.                                          *)
FetchFails(q) ==
  /\ queries[q].fetch # "idle" /\ up = "down"
  /\ queries' = [queries EXCEPT ![q] = Rested([@ EXCEPT !.fetch = "idle", !.mark = TRUE])]
  /\ UNCHANGED <<Page, left>>

(* A screen comes to show a query: one with no answer, one that is marked or *)
(* one past its stale time reads, and a read under way is joined.            *)
Shows(q) ==
  /\ ~queries[q].active
  /\ \E aged \in BOOLEAN :
       queries' = [queries EXCEPT ![q].active = TRUE,
                     ![q].fetch = IF @ = "idle" /\ (aged \/ queries[q].mark \/ queries[q].shown = "none")
                                  THEN "asked" ELSE @]
  /\ UNCHANGED <<Page, left>>

(* The last screen that shows it goes.  Its read runs on. *)
Hides(q) ==
  /\ queries[q].active
  /\ Spends("show")
  /\ queries' = [queries EXCEPT ![q].active = FALSE]
  /\ UNCHANGED Page

Next ==
  \/ \E k \in Kinds : Changes(k) \/ Publishes(k) \/ Misses(k) \/ TickFinds(k)
  \/ Releases \/ HoldEnds \/ GoneHoldEnds \/ ListenEnds
  \/ TickStarts \/ TickEnds
  \/ Closes \/ Dies \/ Starts
  \/ Arrives \/ TakesReply \/ ReadFails \/ PauseEnds
  \/ \E q \in Queries : Answers(q) \/ Lands(q) \/ FetchFails(q) \/ Shows(q) \/ Hides(q)

Spec == Init /\ [][Next]_vars

(* Timers run, requests are answered or fail, and the page takes what comes. *)
(* Nothing is assumed of a watch event that is lost, of a lost reply or of   *)
(* the start of a daemon.                                                    *)
Fairness ==
  /\ \A k \in Kinds : WF_vars(Publishes(k)) /\ WF_vars(TickFinds(k))
  /\ WF_vars(Releases) /\ WF_vars(HoldEnds)
  /\ WF_vars(TickStarts) /\ WF_vars(TickEnds)
  /\ WF_vars(Arrives) /\ WF_vars(TakesReply) /\ WF_vars(PauseEnds)
  /\ \A q \in Queries : WF_vars(Answers(q)) /\ WF_vars(Lands(q))

FairSpec == Spec /\ Fairness

-----------------------------------------------------------------------------
(* The shape of the state, and the bound of the kept events. *)
TypeOK ==
  /\ up \in {"up", "closing", "down"}
  /\ feed \in [run: Nat, sequence: Nat, events: Seq(Kinds), scheduled: BOOLEAN]
  /\ Len(feed.events) <= Size /\ Len(feed.events) <= feed.sequence
  /\ heard \in [gone: Nat, recent: BOOLEAN]
  /\ tick \in BOOLEAN
  /\ due \in [Kinds -> Nat]
  /\ missed \subseteq Watched
  /\ poll \in [at: {"sent", "held", "reply", "pause"}, cursor: Cursor, reply: {<<>>} \union Reply]
  /\ poll.at = "reply" => poll.reply \in Reply
  /\ queries \in [Queries -> Query]
  /\ left \in [Bounded -> Nat]

(* What a page with the cursor has yet to be told makes the query old: a     *)
(* change that is still to be published or found, an event after the cursor, *)
(* or the `reset` that a dropped event or another run of the daemon brings.  *)
ToldAfter(q, cursor) ==
  \/ up # "up"
  \/ cursor.run # feed.run
  \/ cursor.seq < Before
  \/ \E k \in Kinds : (due[k] > 0 \/ k \in missed) /\ q \in FEED_MAPPINGS[k]
  \/ \E i \in DOMAIN feed.events : Before + i > cursor.seq /\ q \in FEED_MAPPINGS[feed.events[i]]

(* A query that no read is under way for, that shows an answer from before   *)
(* the last change and that is not marked old is one that the page will be   *)
(* told of: no reply, restart or landing read makes the page forget a change *)
(* that it was told of.                                                      *)
NoSilentStale ==
  \A q \in Queries :
    queries[q].shown = "old" /\ ~queries[q].mark /\ queries[q].fetch = "idle" => ToldAfter(q, poll.cursor)

(* A query on a screen comes to show the data as it is, also after a change  *)
(* whose watch event was lost, unless the daemon stops.                      *)
CatchesUp ==
  \A q \in Queries :
    queries[q].active /\ queries[q].shown # "new" ~>
      queries[q].shown = "new" \/ ~queries[q].active \/ up # "up"
=============================================================================
