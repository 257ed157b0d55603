------------------------------ MODULE FeedTells -----------------------------
(***************************************************************************)
(* Proofs about the change feed: a page is told of every change that makes *)
(* what it shows old, for any window of the feed, any kinds and queries,   *)
(* and any number of lost replies, lost watch events and stops.            *)
(***************************************************************************)
EXTENDS Feed, SequenceTheorems, TLAPS

-----------------------------------------------------------------------------
(* What a publish does to the kept events. *)

FeedType == [run: Nat, sequence: Nat, events: Seq(Kinds), scheduled: BOOLEAN]

FeedOK == feed \in FeedType /\ Len(feed.events) <= Size /\ Len(feed.events) <= feed.sequence

(* The new event is the last one, and of the others at most the oldest goes. *)
IsPublished(f, k) ==
  /\ f \in FeedType /\ Len(f.events) <= Size /\ Len(f.events) <= f.sequence
  /\ f.run = feed.run /\ f.sequence = feed.sequence + 1
  /\ Len(f.events) \in 1 .. (Len(feed.events) + 1)
  /\ f.events[Len(f.events)] = k
  /\ \A i \in 1 .. Len(feed.events) :
       \/ i + Len(f.events) - Len(feed.events) - 1 <= 0
       \/ /\ i + Len(f.events) - Len(feed.events) - 1 \in 1 .. Len(f.events)
          /\ f.events[i + Len(f.events) - Len(feed.events) - 1] = feed.events[i]

(* A publish does no more and no less. *)
LEMMA PublishedIs ==
  ASSUME FeedOK, NEW k \in Kinds
  PROVE  IsPublished(Published(feed, k), k)
<1> SUFFICES ASSUME NEW f, f = Published(feed, k) PROVE IsPublished(f, k)
  OBVIOUS
<1> USE DEF IsPublished
<1> DEFINE all == Append(feed.events, k)
           n == Len(feed.events)
<1>1. /\ feed.events \in Seq(Kinds) /\ n \in Nat /\ n <= Size /\ n <= feed.sequence
      /\ feed.sequence \in Nat /\ feed.run \in Nat /\ feed.scheduled \in BOOLEAN
      /\ Size \in Nat \ {0}
  BY FeedAssumption DEF FeedOK, FeedType
<1>2. /\ all \in Seq(Kinds) /\ Len(all) = n + 1
      /\ all[n + 1] = k /\ \A i \in 1 .. n : all[i] = feed.events[i]
  BY <1>1
<1>3. /\ f.run = feed.run /\ f.sequence = feed.sequence + 1
      /\ f.events = IF Len(all) > Size THEN Tail(all) ELSE all
      /\ f = [run |-> feed.run, sequence |-> feed.sequence + 1,
              events |-> IF Len(all) > Size THEN Tail(all) ELSE all, scheduled |-> TRUE]
  BY DEF FeedOK, FeedType, Published
<1> HIDE DEF all, n
<1>4. CASE Len(all) > Size
  <2>1. f.events = Tail(all)
    BY <1>3, <1>4
  <2>2. /\ Tail(all) \in Seq(Kinds) /\ Len(Tail(all)) = n
        /\ \A i \in 1 .. n : Tail(all)[i] = all[i + 1]
    BY <1>1, <1>2
  <2>3. n = Size
    BY <1>1, <1>2, <1>4
  <2>4. f \in FeedType
    BY <1>1, <1>3, <2>1, <2>2 DEF FeedType
  <2>5. f.events[n] = k
    BY <1>1, <1>2, <2>1, <2>2, <2>3
  <2>6. \A i \in 1 .. n : LET j == i - 1 IN j <= 0 \/ (j \in 1 .. n /\ f.events[j] = feed.events[i])
    BY <1>1, <1>2, <2>1, <2>2
  <2>7. Len(f.events) = n /\ n \in 1 .. (n + 1)
    BY <1>1, <2>1, <2>2, <2>3
  <2>8. \A i \in 1 .. n : i + Len(f.events) - n - 1 = i - 1
    BY <1>1, <2>7
  <2>9. ASSUME NEW i \in 1 .. n
        PROVE  LET j == i + Len(f.events) - n - 1
               IN  j <= 0 \/ (j \in 1 .. Len(f.events) /\ f.events[j] = feed.events[i])
    <3>1. i + Len(f.events) - n - 1 = i - 1
      BY <2>8
    <3>2. i - 1 <= 0 \/ (i - 1 \in 1 .. n /\ f.events[i - 1] = feed.events[i])
      BY <2>6
    <3> QED  BY <2>7, <3>1, <3>2
  <2>10. Len(f.events) <= Size /\ Len(f.events) <= f.sequence /\ f.events[Len(f.events)] = k
    BY <1>1, <1>3, <2>3, <2>5, <2>7
  <2> QED  BY <1>3, <2>4, <2>7, <2>9, <2>10 DEF n
<1>5. CASE ~(Len(all) > Size)
  <2>1. f.events = all /\ n + 1 <= Size
    BY <1>1, <1>2, <1>3, <1>5
  <2>2. f \in FeedType
    BY <1>1, <1>2, <1>3, <2>1 DEF FeedType
  <2>3. Len(f.events) = n + 1 /\ n + 1 \in 1 .. (n + 1) /\ n + 1 <= f.sequence
    BY <1>1, <1>2, <1>3, <2>1
  <2>4. f.events[n + 1] = k /\ \A i \in 1 .. n : f.events[i] = feed.events[i]
    BY <1>2, <2>1
  <2>5. \A i \in 1 .. n : i + Len(f.events) - n - 1 = i /\ i \in 1 .. (n + 1)
    BY <1>1, <2>3
  <2> QED  BY <1>1, <1>3, <2>1, <2>2, <2>3, <2>4, <2>5 DEF n
<1> QED  BY <1>4, <1>5
-----------------------------------------------------------------------------
(* What a read gets. *)

(* The events after a number, with the cursor of the feed as it is. *)
LEMMA EventsAfterIs ==
  ASSUME FeedOK, NEW n \in 0 .. Len(feed.events)
  PROVE  /\ EventsAfter(n) \in Reply /\ EventsAfter(n).cursor = Current
         /\ \A i \in DOMAIN feed.events :
              i > n => \E j \in DOMAIN EventsAfter(n).events : EventsAfter(n).events[j] = feed.events[i]
<1> DEFINE len == Len(feed.events)
           sub == SubSeq(feed.events, n + 1, len)
<1>1. feed.events \in Seq(Kinds) /\ len \in Nat /\ n \in Nat /\ n <= len
  BY DEF FeedOK, FeedType
<1>2. n + 1 \in Int /\ len \in Int /\ \A i \in (n + 1) .. len : feed.events[i] \in Kinds
  BY <1>1
<1>3. /\ sub \in Seq(Kinds)
      /\ Len(sub) = IF n + 1 <= len THEN len - (n + 1) + 1 ELSE 0
      /\ \A i \in 1 .. len - (n + 1) + 1 : sub[i] = feed.events[(n + 1) + i - 1]
  BY <1>2, SubSeqProperties
<1>4. Current \in Cursor
  BY DEF Current, Cursor, FeedOK, FeedType
<1>5. EventsAfter(n) = [reset |-> FALSE, cursor |-> Current, events |-> sub]
  BY DEF EventsAfter
<1> HIDE DEF sub
<1>6. ASSUME NEW i \in DOMAIN feed.events, i > n
      PROVE  \E j \in DOMAIN sub : sub[j] = feed.events[i]
  <2>1. i \in Nat /\ i <= len /\ n + 1 <= len
    BY <1>1, <1>6
  <2>2. i - n \in 1 .. len - (n + 1) + 1 /\ (n + 1) + (i - n) - 1 = i
    BY <1>1, <1>6, <2>1
  <2>3. sub[i - n] = feed.events[(n + 1) + (i - n) - 1]
    BY <1>3, <2>2
  <2>4. Len(sub) = len - (n + 1) + 1 /\ DOMAIN sub = 1 .. Len(sub)
    BY <1>3, <2>1
  <2>5. i - n \in DOMAIN sub
    BY <2>2, <2>4
  <2> QED  BY <2>2, <2>3, <2>5
<1>7. EventsAfter(n) \in Reply /\ EventsAfter(n).cursor = Current /\ EventsAfter(n).events = sub
  BY <1>3, <1>4, <1>5 DEF Reply
<1> QED  BY <1>6, <1>7

(* What comes after the number that a page knows is in its reply, or the     *)
(* reply is a reset.                                                         *)
LEMMA ReplyAfterIs ==
  ASSUME FeedOK, NEW n \in Nat, n <= feed.sequence
  PROVE  /\ ReplyAfter(n) \in Reply /\ ReplyAfter(n).cursor = Current
         /\ \/ ReplyAfter(n).reset
            \/ /\ n >= Before
               /\ \A i \in DOMAIN feed.events :
                    Before + i > n => \E j \in DOMAIN ReplyAfter(n).events : ReplyAfter(n).events[j] = feed.events[i]
<1>1. /\ Before \in Nat /\ feed.sequence \in Nat /\ Len(feed.events) \in Nat
      /\ Before + Len(feed.events) = feed.sequence /\ Current \in Cursor
  BY DEF FeedOK, FeedType, Before, Current, Cursor
<1>2. CASE n < Before
  <2>1. ReplyAfter(n) = Reset
    BY <1>2 DEF ReplyAfter
  <2>2. Reset \in Reply /\ Reset.reset /\ Reset.cursor = Current
    BY <1>1 DEF Reset, Reply
  <2> QED  BY <2>1, <2>2
<1>3. CASE ~(n < Before)
  <2>1. n - Before \in 0 .. Len(feed.events) /\ n >= Before
    BY <1>1, <1>3
  <2>2. ReplyAfter(n) = EventsAfter(n - Before)
    BY <1>3 DEF ReplyAfter
  <2>3. \A i \in DOMAIN feed.events : Before + i > n => i > n - Before
    BY <1>1 DEF FeedOK, FeedType
  <2> HIDE DEF Before
  <2>4. /\ EventsAfter(n - Before) \in Reply /\ EventsAfter(n - Before).cursor = Current
        /\ \A i \in DOMAIN feed.events :
              i > n - Before => \E j \in DOMAIN EventsAfter(n - Before).events :
                                  EventsAfter(n - Before).events[j] = feed.events[i]
    BY <2>1, EventsAfterIs
  <2> QED  BY <2>1, <2>2, <2>3, <2>4
<1> QED  BY <1>2, <1>3

(* The reply on a read that is not held is one of these. *)
LEMMA AnswerIs ==
  ASSUME FeedOK, NEW c \in Cursor
  PROVE  /\ Answer(c) \in Reply /\ Answer(c).cursor = Current
         /\ \/ Answer(c).reset
            \/ c = NoCursor
            \/ KnownCursor(c) /\ Answer(c) = ReplyAfter(c.seq)
<1>1. /\ Current \in Cursor /\ Len(feed.events) \in 0 .. Len(feed.events)
  BY DEF FeedOK, FeedType, Current, Cursor
<1>2. CASE c = NoCursor
  BY <1>1, <1>2, EventsAfterIs DEF Answer
<1>3. CASE c # NoCursor /\ ~KnownCursor(c)
  BY <1>1, <1>3 DEF Answer, Reset, Reply
<1>4. CASE c # NoCursor /\ KnownCursor(c)
  <2>1. c.seq \in Nat /\ c.seq <= feed.sequence
    BY <1>4 DEF KnownCursor, Cursor
  <2>2. Answer(c) = ReplyAfter(c.seq)
    BY <1>4 DEF Answer
  <2> QED  BY <1>4, <2>1, <2>2, ReplyAfterIs
<1> QED  BY <1>2, <1>3, <1>4

-----------------------------------------------------------------------------
(* The queries. *)

(* A query that shows what was before a change, or whose read will, with no  *)
(* mark that it is old.                                                      *)
Owes(q) == \/ q.shown = "old" /\ ~q.mark /\ q.fetch = "idle"
           \/ q.fetch = "old" /\ ~q.landing

(* A query that is marked owes nothing. *)
LEMMA InvalidatedIs ==
  ASSUME NEW q \in Query
  PROVE  Invalidated(q) \in Query /\ ~Owes(Invalidated(q)) /\ Invalidated(q).mark
<1>1. /\ q.shown \in {"none", "old", "new"} /\ q.mark \in BOOLEAN /\ q.landing \in BOOLEAN
      /\ q.fetch \in {"idle", "asked", "old", "new"} /\ q.active \in BOOLEAN
      /\ q = [shown |-> q.shown, mark |-> q.mark, fetch |-> q.fetch, landing |-> q.landing, active |-> q.active]
  BY DEF Query
<1>2. PICK restarts \in BOOLEAN : restarts = (q.active /\ q.shown # "none")
  BY <1>1
<1>3. Invalidated(q) = [q EXCEPT !.mark = TRUE,
                !.fetch = IF restarts \/ (q.active /\ q.fetch = "idle") THEN "asked" ELSE @,
                !.landing = IF q.fetch = "idle" THEN @ ELSE ~restarts]
  BY <1>2 DEF Invalidated
<1>4. Invalidated(q).mark = TRUE /\ Invalidated(q).shown = q.shown /\ Invalidated(q).active = q.active
  BY <1>1, <1>3
<1>5. /\ Invalidated(q).fetch = (IF restarts \/ (q.active /\ q.fetch = "idle") THEN "asked" ELSE q.fetch)
      /\ Invalidated(q).landing = (IF q.fetch = "idle" THEN q.landing ELSE ~restarts)
  BY <1>1, <1>3
<1>6. Invalidated(q) \in Query
  BY <1>1, <1>3 DEF Query
<1> QED  BY <1>4, <1>5, <1>6 DEF Owes

(* A read that lands leaves the query owing only what the read owed. *)
LEMMA LandedIs ==
  ASSUME NEW q \in Query, q.fetch \in {"old", "new"}
  PROVE  Landed(q) \in Query /\ (Owes(Landed(q)) => Owes(q))
<1> DEFINE l == [q EXCEPT !.shown = q.fetch, !.mark = FALSE, !.fetch = "idle"]
<1>1. l \in Query /\ l.shown = q.fetch /\ l.fetch = "idle" /\ l.landing = q.landing
  BY DEF Query
<1>2. [l EXCEPT !.landing = FALSE] \in Query
  BY <1>1 DEF Query
<1> HIDE DEF l
<1>3. CASE q.landing
  <2>1. Landed(q) = Invalidated([l EXCEPT !.landing = FALSE])
    BY <1>1, <1>3 DEF Landed, Rested, l
  <2> QED  BY <1>2, <2>1, InvalidatedIs
<1>4. CASE ~q.landing
  <2>1. Landed(q) = l
    BY <1>1, <1>4 DEF Landed, Rested, l
  <2> QED  BY <1>1, <1>4, <2>1 DEF Owes
<1> QED  BY <1>3, <1>4

(* A read that fails for good leaves the query marked. *)
LEMMA FailedIs ==
  ASSUME NEW q \in Query, NEW r, r = Rested([q EXCEPT !.fetch = "idle", !.mark = TRUE])
  PROVE  r \in Query /\ ~Owes(r)
<1> DEFINE l == [q EXCEPT !.fetch = "idle", !.mark = TRUE]
<1>1. l \in Query /\ l.fetch = "idle" /\ l.mark = TRUE
  BY DEF Query
<1>2. [l EXCEPT !.landing = FALSE] \in Query
  BY <1>1 DEF Query
<1>3. r = Rested(l)
  OBVIOUS
<1> HIDE DEF l
<1>4. CASE l.landing
  BY <1>2, <1>3, <1>4, InvalidatedIs DEF Rested
<1>5. CASE ~l.landing
  BY <1>1, <1>3, <1>5 DEF Rested, Owes
<1> QED  BY <1>4, <1>5

-----------------------------------------------------------------------------
(* The shape of the state. *)

(* A bound that is spent stays a number. *)
LEMMA SpendsIs ==
  ASSUME TypeOK, NEW b \in Bounded, Spends(b)
  PROVE  left' \in [Bounded -> Nat]
<1>1. left \in [Bounded -> Nat] /\ left[b] \in Nat /\ left[b] > 0
  BY DEF TypeOK, Spends
<1>2. left[b] - 1 \in Nat
  BY <1>1
<1> QED  BY <1>1, <1>2 DEF Spends

(* The typed feed is one that the lemmas above are about. *)
LEMMA FeedIsOK == TypeOK => FeedOK
  BY DEF TypeOK, FeedOK, FeedType

(* What the daemon does with its changes keeps the shape. *)
LEMMA ChangesTyped ==
  ASSUME TypeOK, NEW k \in Kinds, Changes(k) \/ Publishes(k) \/ Misses(k) \/ TickFinds(k)
  PROVE  TypeOK'
<1>1. due \in [Kinds -> Nat] /\ due[k] \in Nat
  BY DEF TypeOK
<1>2. CASE Changes(k)
  <2>1. left' \in [Bounded -> Nat]
    BY <1>2, SpendsIs DEF Changes, Bounded
  <2>2. due' \in [Kinds -> Nat]
    <3>1. due' = [due EXCEPT ![k] = @ + 1] \/ due' = due
      BY <1>2 DEF Changes
    <3> QED  BY <1>1, <3>1
  <2>3. ASSUME NEW q \in Queries
        PROVE  [queries[q] EXCEPT !.shown = Outdated(@), !.fetch = Outdated(@)] \in Query
    <3>1. queries[q] \in Query
      BY DEF TypeOK
    <3> QED  BY <3>1 DEF Query, Outdated
  <2>4. queries' \in [Queries -> Query]
    BY <1>2, <2>3 DEF Changes, TypeOK
  <2> QED  BY <1>2, <2>1, <2>2, <2>4 DEF Changes, TypeOK
<1>3. CASE Publishes(k)
  <2>1. due' \in [Kinds -> Nat]
    BY <1>1, <1>3 DEF Publishes
  <2>2. feed' \in FeedType /\ Len(feed'.events) <= Size /\ Len(feed'.events) <= feed'.sequence
    BY <1>3, FeedIsOK, PublishedIs DEF IsPublished, Publishes
  <2> QED  BY <1>3, <2>1, <2>2 DEF Publishes, TypeOK, FeedType
<1>4. CASE Misses(k)
  <2>1. left' \in [Bounded -> Nat]
    BY <1>4, SpendsIs DEF Misses, Bounded
  <2>2. due' \in [Kinds -> Nat]
    BY <1>1, <1>4 DEF Misses
  <2> QED  BY <1>4, <2>1, <2>2 DEF Misses, TypeOK
<1>5. CASE TickFinds(k)
  <2>1. feed' \in FeedType /\ Len(feed'.events) <= Size /\ Len(feed'.events) <= feed'.sequence
    BY <1>5, FeedIsOK, PublishedIs DEF IsPublished, TickFinds
  <2> QED  BY <1>5, <2>1 DEF TickFinds, TypeOK, FeedType
<1> QED  BY <1>2, <1>3, <1>4, <1>5

(* Poll is the shape of the long poll. *)
Poll == [at: {"sent", "held", "reply", "pause"}, cursor: Cursor, reply: {<<>>} \union Reply]

(* The read gets a reply. *)
LEMMA RepliedTyped ==
  ASSUME TypeOK, NEW r \in Reply, NEW p, p = [poll EXCEPT !.at = "reply", !.reply = r]
  PROVE  p \in Poll /\ p.at = "reply" /\ p.reply = r /\ p.cursor = poll.cursor
  BY DEF TypeOK, Poll

(* A read that is held knows a number of the feed as it is. *)
HeldFits == poll.at = "held" => up = "up" /\ KnownCursor(poll.cursor)

(* A held read gets a reply. *)
LEMMA HeldReply ==
  ASSUME TypeOK, HeldFits, poll.at = "held"
  PROVE  ReplyAfter(poll.cursor.seq) \in Reply
  BY FeedIsOK, ReplyAfterIs DEF TypeOK, HeldFits, KnownCursor, Cursor

(* What the page reads keeps the shape, when a held read fits. *)
LEMMA ReadsTyped ==
  ASSUME TypeOK, HeldFits, Releases \/ HoldEnds \/ GoneHoldEnds \/ ListenEnds \/ TickStarts \/ TickEnds \/ Arrives
  PROVE  TypeOK'
<1>1. heard \in [gone: Nat, recent: BOOLEAN] /\ heard.gone \in Nat /\ heard.recent \in BOOLEAN
  BY DEF TypeOK
<1>2. [heard EXCEPT !.recent = TRUE] \in [gone: Nat, recent: BOOLEAN]
  BY <1>1
<1>3. CASE Releases
  <2>1. feed' \in FeedType /\ feed'.events = feed.events /\ feed'.sequence = feed.sequence
    BY <1>3 DEF Releases, TypeOK, FeedType
  <2>2. heard' \in [gone: Nat, recent: BOOLEAN]
    <3>1. CASE poll.at = "held"
      <4>1. heard' = [gone |-> 0, recent |-> TRUE]
        BY <1>3, <3>1 DEF Releases
      <4> QED  BY <4>1
    <3>2. CASE poll.at # "held"
      <4>1. heard' = [gone |-> 0, recent |-> heard.recent \/ heard.gone > 0]
        BY <1>3, <3>2 DEF Releases
      <4>2. (heard.recent \/ heard.gone > 0) \in BOOLEAN
        BY <1>1
      <4> QED  BY <4>1, <4>2
    <3> QED  BY <3>1, <3>2
  <2>3. poll' \in Poll /\ (poll'.at = "reply" => poll'.reply \in Reply)
    <3>1. CASE poll.at = "held"
      BY <1>3, <3>1, HeldReply, RepliedTyped DEF Releases
    <3>2. CASE poll.at # "held"
      BY <1>3, <3>2 DEF Releases, TypeOK, Poll
    <3> QED  BY <3>1, <3>2
  <2> QED  BY <1>3, <2>1, <2>2, <2>3 DEF Releases, TypeOK, FeedType, Poll
<1>4. CASE HoldEnds
  <2>1. poll' \in Poll /\ (poll'.at = "reply" => poll'.reply \in Reply)
    BY <1>4, HeldReply, RepliedTyped DEF HoldEnds, Replies
  <2> QED  BY <1>2, <1>4, <2>1 DEF HoldEnds, Replies, Returned, TypeOK, Poll
<1>5. CASE GoneHoldEnds
  BY <1>1, <1>5 DEF GoneHoldEnds, TypeOK
<1>6. CASE ListenEnds
  BY <1>1, <1>6 DEF ListenEnds, TypeOK
<1>7. CASE TickStarts \/ TickEnds
  BY <1>7 DEF TickStarts, TickEnds, TypeOK
<1>8. CASE Arrives
  <2>1. CASE Holds(poll.cursor)
    <3>1. poll' = [poll EXCEPT !.at = "held"] /\ heard' = heard
      BY <1>8, <2>1 DEF Arrives
    <3>2. poll' \in Poll /\ poll'.at = "held"
      BY <3>1 DEF TypeOK, Poll
    <3> QED  BY <1>8, <3>1, <3>2 DEF Arrives, TypeOK, Poll
  <2>2. CASE ~Holds(poll.cursor)
    <3>1. Answer(poll.cursor) \in Reply
      BY FeedIsOK, AnswerIs DEF TypeOK
    <3>2. poll' = [poll EXCEPT !.at = "reply", !.reply = Answer(poll.cursor)] /\ heard' = Returned
      BY <1>8, <2>2 DEF Arrives, Replies
    <3>3. poll' \in Poll /\ (poll'.at = "reply" => poll'.reply \in Reply)
      BY <3>1, <3>2, RepliedTyped
    <3> QED  BY <1>2, <1>8, <3>2, <3>3 DEF Arrives, Returned, TypeOK, Poll
  <2> QED  BY <2>1, <2>2
<1> QED  BY <1>3, <1>4, <1>5, <1>6, <1>7, <1>8

(* Stops and starts of the daemon keep the shape. *)
LEMMA StopsTyped ==
  ASSUME TypeOK, HeldFits, Closes \/ Dies \/ Starts
  PROVE  TypeOK'
<1>1. NotHeard \in [gone: Nat, recent: BOOLEAN] /\ NothingDue \in [Kinds -> Nat] /\ {} \subseteq Watched
  BY DEF NotHeard, NothingDue
<1>2. CASE Closes
  <2>1. left' \in [Bounded -> Nat]
    BY <1>2, SpendsIs DEF Closes, Bounded
  <2>2. poll' \in Poll /\ (poll'.at = "reply" => poll'.reply \in Reply)
    <3>1. CASE poll.at = "held"
      BY <1>2, <3>1, HeldReply, RepliedTyped DEF Closes
    <3>2. CASE poll.at # "held"
      BY <1>2, <3>2 DEF Closes, TypeOK, Poll
    <3> QED  BY <3>1, <3>2
  <2> QED  BY <1>1, <1>2, <2>1, <2>2 DEF Closes, TypeOK, Poll
<1>3. CASE Dies
  <2>1. left' \in [Bounded -> Nat]
    <3>1. CASE up = "closing" /\ UNCHANGED left
      BY <3>1 DEF TypeOK
    <3>2. CASE Spends("stop")
      BY <3>2, SpendsIs DEF Bounded
    <3> QED  BY <1>3, <3>1, <3>2 DEF Dies
  <2>2. poll' \in Poll /\ (poll'.at = "reply" => poll'.reply \in Reply)
    BY <1>3 DEF Dies, TypeOK, Poll
  <2> QED  BY <1>1, <1>3, <2>1, <2>2 DEF Dies, TypeOK, Poll
<1>4. CASE Starts
  <2>1. NewFeed(feed.run + 1) \in FeedType /\ NewFeed(feed.run + 1).events = <<>> /\ NewFeed(feed.run + 1).sequence = 0
    BY DEF NewFeed, TypeOK, FeedType
  <2>2. Len(<<>>) = 0 /\ 0 <= Size
    BY FeedAssumption
  <2> QED  BY <1>4, <2>1, <2>2 DEF Starts, TypeOK, FeedType
<1> QED  BY <1>2, <1>3, <1>4

(* What the page does keeps the shape. *)
LEMMA PageTyped ==
  ASSUME TypeOK, TakesReply \/ ReadFails \/ PauseEnds
  PROVE  TypeOK'
<1>1. CASE TakesReply
  <2>1. poll' \in Poll /\ poll'.at = "sent"
    BY <1>1 DEF TakesReply, TypeOK, Poll, Reply
  <2>2. ASSUME NEW q \in Queries  PROVE Invalidated(queries[q]) \in Query /\ queries[q] \in Query
    BY InvalidatedIs DEF TypeOK
  <2>3. queries' \in [Queries -> Query]
    BY <1>1, <2>2 DEF TakesReply
  <2> QED  BY <1>1, <2>1, <2>3 DEF TakesReply, TypeOK, Poll
<1>2. CASE ReadFails
  <2>1. left' \in [Bounded -> Nat]
    <3>1. CASE up = "down"
      BY <1>2, <3>1 DEF ReadFails, TypeOK
    <3>2. CASE up # "down"
      BY <1>2, <3>2, SpendsIs DEF ReadFails, Bounded
    <3> QED  BY <3>1, <3>2
  <2>2. heard' \in [gone: Nat, recent: BOOLEAN]
    <3>1. heard' = [heard EXCEPT !.gone = @ + 1] \/ heard' = heard
      BY <1>2 DEF ReadFails
    <3> QED  BY <3>1 DEF TypeOK
  <2>3. poll' \in Poll /\ poll'.at = "pause"
    BY <1>2 DEF ReadFails, TypeOK, Poll
  <2> QED  BY <1>2, <2>1, <2>2, <2>3 DEF ReadFails, TypeOK, Poll
<1>3. CASE PauseEnds
  <2>1. poll' \in Poll /\ poll'.at = "sent"
    BY <1>3 DEF PauseEnds, TypeOK, Poll
  <2> QED  BY <1>3, <2>1 DEF PauseEnds, TypeOK, Poll
<1> QED  BY <1>1, <1>2, <1>3

(* What a query does keeps the shape, and makes it owe nothing new. *)
LEMMA QueryStep ==
  ASSUME TypeOK, NEW q \in Queries, Answers(q) \/ Lands(q) \/ FetchFails(q) \/ Shows(q) \/ Hides(q)
  PROVE  /\ queries' \in [Queries -> Query] /\ left' \in [Bounded -> Nat]
         /\ UNCHANGED Page
         /\ \A p \in Queries : Owes(queries'[p]) => Owes(queries[p])
<1>1. queries \in [Queries -> Query] /\ queries[q] \in Query
  BY DEF TypeOK
<1>2. /\ UNCHANGED Page /\ left' \in [Bounded -> Nat]
      /\ \E x \in Query : queries' = [queries EXCEPT ![q] = x] /\ (Owes(x) => Owes(queries[q]))
  <2>1. CASE Answers(q)
    <3>1. /\ queries' = [queries EXCEPT ![q] = [queries[q] EXCEPT !.fetch = "new"]]
          /\ UNCHANGED <<Page, left>>
      BY <2>1 DEF Answers
    <3>2. [queries[q] EXCEPT !.fetch = "new"] \in Query /\ ~Owes([queries[q] EXCEPT !.fetch = "new"])
      BY <1>1 DEF Query, Owes
    <3> QED  BY <3>1, <3>2 DEF TypeOK
  <2>2. CASE Lands(q)
    <3>1. /\ queries[q].fetch \in {"old", "new"}
          /\ queries' = [queries EXCEPT ![q] = Landed(queries[q])]
          /\ UNCHANGED <<Page, left>>
      BY <2>2 DEF Lands
    <3>2. Landed(queries[q]) \in Query /\ (Owes(Landed(queries[q])) => Owes(queries[q]))
      BY <1>1, <3>1, LandedIs
    <3> QED  BY <3>1, <3>2 DEF TypeOK
  <2>3. CASE FetchFails(q)
    <3> DEFINE x == Rested([queries[q] EXCEPT !.fetch = "idle", !.mark = TRUE])
    <3>1. queries' = [queries EXCEPT ![q] = x] /\ UNCHANGED <<Page, left>>
      BY <2>3 DEF FetchFails
    <3>2. x \in Query /\ ~Owes(x)
      BY <1>1, FailedIs
    <3> QED  BY <3>1, <3>2 DEF TypeOK
  <2>4. CASE Shows(q)
    <3>1. PICK aged \in BOOLEAN :
            queries' = [queries EXCEPT ![q] = [queries[q] EXCEPT !.active = TRUE,
                         !.fetch = IF queries[q].fetch = "idle" /\ (aged \/ queries[q].mark \/ queries[q].shown = "none")
                                   THEN "asked" ELSE queries[q].fetch]]
      <4>1. PICK aged \in BOOLEAN :
              queries' = [queries EXCEPT ![q].active = TRUE,
                     ![q].fetch = IF @ = "idle" /\ (aged \/ queries[q].mark \/ queries[q].shown = "none")
                                  THEN "asked" ELSE @]
        BY <2>4 DEF Shows
      <4>2. queries' = [queries EXCEPT ![q] = [queries[q] EXCEPT !.active = TRUE,
                         !.fetch = IF queries[q].fetch = "idle" /\ (aged \/ queries[q].mark \/ queries[q].shown = "none")
                                   THEN "asked" ELSE queries[q].fetch]]
        BY <1>1, <4>1
      <4> QED  BY <4>2
    <3> DEFINE x == [queries[q] EXCEPT !.active = TRUE,
                         !.fetch = IF queries[q].fetch = "idle" /\ (aged \/ queries[q].mark \/ queries[q].shown = "none")
                                   THEN "asked" ELSE queries[q].fetch]
    <3>2. x \in Query /\ x.shown = queries[q].shown /\ x.mark = queries[q].mark /\ x.landing = queries[q].landing
                      /\ x.fetch \in {"asked", queries[q].fetch}
      BY <1>1 DEF Query
    <3>3. queries' = [queries EXCEPT ![q] = x]
      BY <3>1
    <3> HIDE DEF x
    <3>4. Owes(x) => Owes(queries[q])
      BY <3>2 DEF Owes
    <3>5. UNCHANGED <<Page, left>>
      BY <2>4 DEF Shows
    <3> QED  BY <3>2, <3>3, <3>4, <3>5 DEF TypeOK
  <2>5. CASE Hides(q)
    <3>1. queries' = [queries EXCEPT ![q] = [queries[q] EXCEPT !.active = FALSE]] /\ UNCHANGED Page
      BY <2>5 DEF Hides
    <3>2. left' \in [Bounded -> Nat]
      BY <2>5, SpendsIs DEF Hides, Bounded
    <3>3. /\ [queries[q] EXCEPT !.active = FALSE] \in Query
          /\ Owes([queries[q] EXCEPT !.active = FALSE]) => Owes(queries[q])
      BY <1>1 DEF Query, Owes
    <3> QED  BY <3>1, <3>2, <3>3
  <2> QED  BY <2>1, <2>2, <2>3, <2>4, <2>5
<1>3. PICK x \in Query : queries' = [queries EXCEPT ![q] = x] /\ (Owes(x) => Owes(queries[q]))
  BY <1>2
<1>4. queries' \in [Queries -> Query]
  BY <1>1, <1>3
<1>5. ASSUME NEW p \in Queries, Owes(queries'[p])  PROVE Owes(queries[p])
  <2>1. queries'[p] = IF p = q THEN x ELSE queries[p]
    BY <1>1, <1>3
  <2> QED  BY <1>3, <1>5, <2>1
<1> QED  BY <1>2, <1>4, <1>5

-----------------------------------------------------------------------------
(* The shape and the held read, along every step. *)

(* A held read fits: its cursor is of the feed that holds it. *)
LEMMA HeldStep ==
  ASSUME TypeOK, HeldFits, Next
  PROVE  HeldFits'
<1>1. /\ feed.sequence \in Nat /\ feed.run \in Nat /\ poll.cursor.seq \in Nat
      /\ poll \in [at: {"sent", "held", "reply", "pause"}, cursor: Cursor, reply: {<<>>} \union Reply]
  BY DEF TypeOK, Cursor
<1>2. ASSUME UNCHANGED <<up, poll>>, feed'.run = feed.run, feed'.sequence \in Nat, feed'.sequence >= feed.sequence
      PROVE  HeldFits'
  BY <1>1, <1>2 DEF HeldFits, KnownCursor
<1>3. ASSUME poll'.at # "held"  PROVE HeldFits'
  BY <1>3 DEF HeldFits
<1>4. ASSUME NEW k \in Kinds, Changes(k) \/ Publishes(k) \/ Misses(k) \/ TickFinds(k)  PROVE HeldFits'
  <2>1. CASE Changes(k) \/ Misses(k)
    <3>1. UNCHANGED <<up, feed, poll>>
      BY <2>1 DEF Changes, Misses
    <3> QED  BY <1>1, <1>2, <3>1
  <2>2. CASE Publishes(k) \/ TickFinds(k)
    <3>1. feed' = Published(feed, k) /\ UNCHANGED <<up, poll>>
      BY <2>2 DEF Publishes, TickFinds
    <3>2. feed'.run = feed.run /\ feed'.sequence = feed.sequence + 1
      BY <3>1, FeedIsOK, PublishedIs DEF IsPublished
    <3> QED  BY <1>1, <1>2, <3>1, <3>2
  <2> QED  BY <1>4, <2>1, <2>2
<1>5. CASE Releases
  <2>1. CASE poll.at = "held"
    BY <1>1, <1>3, <1>5, <2>1 DEF Releases
  <2>2. CASE poll.at # "held"
    BY <1>3, <1>5, <2>2 DEF Releases
  <2> QED  BY <2>1, <2>2
<1>6. CASE HoldEnds \/ TakesReply \/ ReadFails \/ PauseEnds \/ Closes \/ Dies
  <2>1. CASE HoldEnds
    BY <1>1, <1>3, <2>1 DEF HoldEnds, Replies
  <2>2. CASE TakesReply
    BY <1>1, <1>3, <2>2 DEF TakesReply
  <2>3. CASE ReadFails \/ PauseEnds
    <3>1. poll' = [poll EXCEPT !.at = "pause", !.reply = <<>>] \/ poll' = [poll EXCEPT !.at = "sent"]
      BY <2>3 DEF ReadFails, PauseEnds
    <3> QED  BY <1>1, <1>3, <3>1
  <2>4. CASE Closes
    <3>1. poll' = IF poll.at = "held" THEN [poll EXCEPT !.at = "reply", !.reply = ReplyAfter(poll.cursor.seq)] ELSE poll
      BY <2>4 DEF Closes
    <3> QED  BY <1>1, <1>3, <3>1
  <2>5. CASE Dies
    <3>1. poll' = IF poll.at = "held" THEN [poll EXCEPT !.at = "pause"] ELSE poll
      BY <2>5 DEF Dies
    <3> QED  BY <1>1, <1>3, <3>1
  <2> QED  BY <1>6, <2>1, <2>2, <2>3, <2>4, <2>5
<1>7. CASE GoneHoldEnds \/ ListenEnds \/ TickStarts \/ TickEnds
  BY <1>1, <1>2, <1>7 DEF GoneHoldEnds, ListenEnds, TickStarts, TickEnds
<1>8. CASE Starts
  BY <1>3, <1>8 DEF Starts, HeldFits
<1>9. CASE Arrives
  <2>1. CASE Holds(poll.cursor)
    BY <1>1, <1>9, <2>1 DEF Arrives, Holds, HeldFits, KnownCursor
  <2>2. CASE ~Holds(poll.cursor)
    <3>1. poll' = [poll EXCEPT !.at = "reply", !.reply = Answer(poll.cursor)]
      BY <1>9, <2>2 DEF Arrives, Replies
    <3> QED  BY <1>1, <1>3, <3>1
  <2> QED  BY <2>1, <2>2
<1>10. ASSUME NEW q \in Queries, Answers(q) \/ Lands(q) \/ FetchFails(q) \/ Shows(q) \/ Hides(q)  PROVE HeldFits'
  BY <1>1, <1>2, <1>10, QueryStep DEF Page
<1> QED  BY <1>4, <1>5, <1>6, <1>7, <1>8, <1>9, <1>10 DEF Next

(* Every step keeps the shape. *)
LEMMA TypeStep ==
  ASSUME TypeOK, HeldFits, Next
  PROVE  TypeOK'
<1>1. ASSUME NEW q \in Queries, Answers(q) \/ Lands(q) \/ FetchFails(q) \/ Shows(q) \/ Hides(q)  PROVE TypeOK'
  BY <1>1, QueryStep DEF Page, TypeOK
<1>2. ASSUME NEW k \in Kinds, Changes(k) \/ Publishes(k) \/ Misses(k) \/ TickFinds(k)  PROVE TypeOK'
  BY <1>2, ChangesTyped
<1>3. CASE Releases \/ HoldEnds \/ GoneHoldEnds \/ ListenEnds \/ TickStarts \/ TickEnds \/ Arrives
  BY <1>3, ReadsTyped
<1>4. CASE Closes \/ Dies \/ Starts
  BY <1>4, StopsTyped
<1>5. CASE TakesReply \/ ReadFails \/ PauseEnds
  BY <1>5, PageTyped
<1> QED  BY <1>1, <1>2, <1>3, <1>4, <1>5 DEF Next

(* The first state has the shape. *)
LEMMA TypeInit == Init => TypeOK /\ HeldFits
<1> SUFFICES ASSUME Init PROVE TypeOK /\ HeldFits
  OBVIOUS
<1>1. /\ NewFeed(1) \in FeedType /\ NewFeed(1).events = <<>> /\ NewFeed(1).sequence = 0
      /\ Len(<<>>) = 0 /\ 0 <= Size
  BY FeedAssumption DEF NewFeed, FeedType
<1>2. NotHeard \in [gone: Nat, recent: BOOLEAN] /\ NothingDue \in [Kinds -> Nat]
  BY DEF NotHeard, NothingDue
<1>3. NewPoll \in Poll /\ NewPoll.at = "sent"
  BY DEF NewPoll, NoCursor, Poll, Cursor
<1>4. queries \in [Queries -> Query]
  BY DEF Init, Query
<1>5. left \in [Bounded -> Nat]
  BY FeedAssumption DEF Init
<1>6. /\ up = "up" /\ feed = NewFeed(1) /\ heard = NotHeard /\ tick = FALSE /\ due = NothingDue
      /\ missed = {} /\ poll = NewPoll
  BY DEF Init
<1>7. feed \in FeedType /\ Len(feed.events) <= Size /\ Len(feed.events) <= feed.sequence
  BY <1>1, <1>6
<1>8. poll \in Poll /\ poll.at = "sent"
  BY <1>3, <1>6
<1> QED  BY <1>2, <1>4, <1>5, <1>6, <1>7, <1>8 DEF TypeOK, HeldFits, FeedType, Poll

(* The shape of the state holds for any kinds, queries, window and budgets. *)
THEOREM FeedTypesHold == Spec => []TypeOK
<1>1. Init => TypeOK /\ HeldFits
  BY TypeInit
<1>2. TypeOK /\ HeldFits /\ [Next]_vars => (TypeOK /\ HeldFits)'
  <2> SUFFICES ASSUME TypeOK, HeldFits, [Next]_vars PROVE TypeOK' /\ HeldFits'
    OBVIOUS
  <2>1. CASE Next
    BY <2>1, TypeStep, HeldStep
  <2>2. CASE UNCHANGED vars
    BY <2>2 DEF vars, TypeOK, HeldFits, KnownCursor
  <2> QED  BY <2>1, <2>2
<1> QED  BY <1>1, <1>2, PTL DEF Spec

-----------------------------------------------------------------------------
(* The page is told. *)

(* A cursor is of this run of the daemon, with a number it has given, or of  *)
(* an earlier run.                                                           *)
CursorFits(c) == c.run <= feed.run /\ (c.run = feed.run => c.seq <= feed.sequence)

PollFits == /\ CursorFits(poll.cursor)
            /\ poll.at = "reply" => CursorFits(poll.reply.cursor)

(* What a query owes is told after the cursor.  A reply under way tells it,  *)
(* or it is told after the cursor of the reply.                              *)
AllTold ==
  \A q \in Queries : Owes(queries[q]) =>
    /\ ToldAfter(q, poll.cursor)
    /\ poll.at = "reply" => q \in MadeOld(poll.reply) \/ ToldAfter(q, poll.reply.cursor)

TellsInv == TypeOK /\ HeldFits /\ PollFits /\ AllTold

(* A change is pending that the daemon has yet to publish or to find. *)
Pending(k) == due[k] > 0 \/ k \in missed

(* As long as the daemon and its feed stand still, what is told stays. *)
LEMMA SameTold ==
  ASSUME NEW c, NEW q, up' = up, due' = due, missed' = missed,
         feed'.run = feed.run, feed'.sequence = feed.sequence, feed'.events = feed.events
  PROVE  (CursorFits(c)' <=> CursorFits(c)) /\ (ToldAfter(q, c)' <=> ToldAfter(q, c))
<1>1. Before' = Before
  BY DEF Before
<1>2. CursorFits(c)' <=> CursorFits(c)
  BY DEF CursorFits
<1>3. ToldAfter(q, c)' <=> ToldAfter(q, c)
  BY <1>1 DEF ToldAfter
<1> QED  BY <1>2, <1>3

(* A publish keeps what is told: the change it publishes comes after the     *)
(* cursor, and an event that it drops leaves the cursor before the window.   *)
LEMMA PublishTold ==
  ASSUME TypeOK, NEW k \in Kinds, NEW c \in Cursor, NEW q, feed' = Published(feed, k), up' = up,
         \A other \in Kinds \ {k} : Pending(other) => Pending(other)', CursorFits(c)
  PROVE  CursorFits(c)' /\ (ToldAfter(q, c) => ToldAfter(q, c)')
<1> DEFINE n == Len(feed.events)
           m == Len(feed'.events)
<1>1. /\ feed'.run = feed.run /\ feed'.sequence = feed.sequence + 1
      /\ feed'.events \in Seq(Kinds)
      /\ m \in 1 .. (n + 1) /\ feed'.events[m] = k
      /\ \A i \in 1 .. n :
           i + m - n - 1 <= 0 \/ (i + m - n - 1 \in 1 .. m /\ feed'.events[i + m - n - 1] = feed.events[i])
  <2>1. FeedOK
    BY FeedIsOK
  <2>2. IsPublished(feed', k)
    BY <2>1, PublishedIs
  <2> QED  BY <2>2 DEF IsPublished, FeedType
<1>2. /\ feed.run \in Nat /\ feed.sequence \in Nat /\ n \in Nat /\ c.run \in Nat /\ c.seq \in Nat /\ m \in Nat
      /\ DOMAIN feed.events = 1 .. n
  BY <1>1 DEF TypeOK, Cursor
<1>3. DOMAIN feed'.events = 1 .. m
  BY <1>1
<1>4. Before = feed.sequence - n /\ Before' = feed.sequence + 1 - m /\ Before <= Before'
  BY <1>1, <1>2 DEF Before
<1> HIDE DEF n, m
<1>5. CursorFits(c)'
  BY <1>1, <1>2 DEF CursorFits
<1>6. CASE c.run # feed.run
  BY <1>1, <1>5, <1>6 DEF ToldAfter
<1>7. CASE up # "up"
  BY <1>5, <1>7 DEF ToldAfter
<1>8. CASE c.run = feed.run /\ up = "up"
  <2> SUFFICES ASSUME ToldAfter(q, c) PROVE ToldAfter(q, c)'
    BY <1>5
  <2>1. c.seq <= feed.sequence
    BY <1>8 DEF CursorFits
  <2>2. ASSUME c.seq < Before  PROVE ToldAfter(q, c)'
    <3>1. c.seq < Before'
      BY <1>2, <1>4, <2>2
    <3> QED  BY <3>1 DEF ToldAfter
  <2>3. ASSUME NEW x \in Kinds, Pending(x), q \in FEED_MAPPINGS[x]  PROVE ToldAfter(q, c)'
    <3>1. CASE x = k
      <4>1. Before' + m > c.seq /\ m \in 1 .. m
        BY <1>1, <1>2, <1>4, <2>1
      <4>2. m \in DOMAIN feed'.events /\ q \in FEED_MAPPINGS[feed'.events[m]]
        BY <1>1, <1>3, <2>3, <3>1, <4>1
      <4>3. \E i \in DOMAIN feed'.events : Before' + i > c.seq /\ q \in FEED_MAPPINGS[feed'.events[i]]
        BY <4>1, <4>2
      <4> QED  BY <4>3 DEF ToldAfter
    <3>2. CASE x # k
      <4>1. Pending(x)'
        BY <2>3, <3>2
      <4> QED  BY <2>3, <4>1 DEF Pending, ToldAfter
    <3> QED  BY <3>1, <3>2
  <2>4. ASSUME NEW i \in DOMAIN feed.events, Before + i > c.seq, q \in FEED_MAPPINGS[feed.events[i]]
        PROVE  ToldAfter(q, c)'
    <3> DEFINE j == i + m - n - 1
    <3>1. i \in 1 .. n
      BY <1>2
    <3>2. j \in Int /\ Before' + j = Before + i
      BY <1>2, <1>4, <3>1
    <3>3. j <= 0 \/ (j \in 1 .. m /\ feed'.events[j] = feed.events[i])
      BY <1>1, <3>1
    <3>4. CASE j <= 0
      <4>1. c.seq < Before'
        <5>1. Before + i > c.seq /\ c.seq \in Nat /\ Before' \in Int /\ Before \in Int /\ i \in Int
          BY <1>2, <1>4, <2>4, <3>1
        <5> HIDE DEF j
        <5> QED  BY <3>2, <3>4, <5>1
      <4> QED  BY <4>1 DEF ToldAfter
    <3>5. CASE j \in 1 .. m /\ feed'.events[j] = feed.events[i]
      <4>1. j \in DOMAIN feed'.events /\ Before' + j > c.seq /\ q \in FEED_MAPPINGS[feed'.events[j]]
        BY <1>3, <2>4, <3>2, <3>5
      <4> HIDE DEF j
      <4> QED  BY <4>1 DEF ToldAfter
    <3> QED  BY <3>3, <3>4, <3>5
  <2>5. \/ c.seq < Before
        \/ \E x \in Kinds : Pending(x) /\ q \in FEED_MAPPINGS[x]
        \/ \E i \in DOMAIN feed.events : Before + i > c.seq /\ q \in FEED_MAPPINGS[feed.events[i]]
    BY <1>8 DEF ToldAfter, Pending
  <2> QED  BY <2>2, <2>3, <2>4, <2>5
<1> QED  BY <1>6, <1>7, <1>8

(* A stop of the daemon tells all, and so does its next run. *)
LEMMA StopTold ==
  ASSUME TypeOK, NEW c \in Cursor, NEW q, CursorFits(c), Closes \/ Dies \/ Starts
  PROVE  CursorFits(c)' /\ ToldAfter(q, c)'
<1>1. c.run \in Nat /\ feed.run \in Nat /\ c.run <= feed.run
  BY DEF TypeOK, Cursor, CursorFits
<1>2. CASE Closes \/ Dies
  <2>1. up' # "up" /\ feed' = feed
    BY <1>2 DEF Closes, Dies
  <2> QED  BY <2>1 DEF ToldAfter, CursorFits
<1>3. CASE Starts
  <2>1. feed'.run = feed.run + 1
    BY <1>3 DEF Starts, NewFeed
  <2> QED  BY <1>1, <2>1 DEF ToldAfter, CursorFits
<1> QED  BY <1>2, <1>3

(* What the daemon does with its changes keeps what is told. *)
LEMMA ChangesTold ==
  ASSUME TypeOK, NEW k \in Kinds, NEW c \in Cursor, NEW q, CursorFits(c),
         Changes(k) \/ Publishes(k) \/ Misses(k) \/ TickFinds(k)
  PROVE  CursorFits(c)' /\ (ToldAfter(q, c) => ToldAfter(q, c)')
<1>1. due \in [Kinds -> Nat]
  BY DEF TypeOK
<1>2. CASE Changes(k) \/ Misses(k)
  <2>1. up' = up /\ feed' = feed
    BY <1>2 DEF Changes, Misses
  <2>2. \A x \in Kinds : Pending(x) => Pending(x)'
    <3>1. CASE Changes(k)
      <4>1. missed' = missed /\ (due' = due \/ due' = [due EXCEPT ![k] = @ + 1])
        BY <3>1 DEF Changes
      <4> QED  BY <1>1, <4>1 DEF Pending
    <3>2. CASE Misses(k)
      <4>1. missed' = missed \union {k} /\ due' = [due EXCEPT ![k] = @ - 1]
        BY <3>2 DEF Misses
      <4> QED  BY <1>1, <4>1 DEF Pending
    <3> QED  BY <1>2, <3>1, <3>2
  <2>3. Before' = Before
    BY <2>1 DEF Before
  <2> QED  BY <2>1, <2>2, <2>3 DEF ToldAfter, CursorFits, Pending
<1>3. CASE Publishes(k) \/ TickFinds(k)
  <2>1. up' = up /\ feed' = Published(feed, k)
    BY <1>3 DEF Publishes, TickFinds
  <2>2. \A other \in Kinds \ {k} : Pending(other) => Pending(other)'
    <3>1. \/ missed' = missed /\ due' = [due EXCEPT ![k] = @ - 1]
          \/ missed' = missed \ {k} /\ due' = due
      BY <1>3 DEF Publishes, TickFinds
    <3> QED  BY <1>1, <3>1 DEF Pending
  <2> QED  BY <2>1, <2>2, PublishTold
<1> QED  BY <1>2, <1>3

(* A query that a change makes owe is told of it. *)
LEMMA ChangesOwe ==
  ASSUME TypeOK, NEW k \in Kinds, Changes(k) \/ Publishes(k) \/ Misses(k) \/ TickFinds(k),
         NEW q \in Queries, NEW c, Owes(queries'[q])
  PROVE  Owes(queries[q]) \/ ToldAfter(q, c)'
<1>1. CASE Changes(k)
  <2>1. CASE k \in Tells[q]
    <3>1. q \in FEED_MAPPINGS[k] /\ due \in [Kinds -> Nat]
      BY <2>1, FeedAssumption DEF TypeOK
    <3>2. up' = up /\ (up = "up" => due' = [due EXCEPT ![k] = @ + 1])
      BY <1>1 DEF Changes
    <3>3. up # "up" \/ due'[k] > 0
      BY <3>1, <3>2
    <3> QED  BY <3>1, <3>2, <3>3 DEF ToldAfter
  <2>2. CASE k \notin Tells[q]
    <3>1. queries'[q] = queries[q]
      BY <1>1, <2>2 DEF Changes
    <3> QED  BY <3>1
  <2> QED  BY <2>1, <2>2
<1>2. CASE Publishes(k) \/ Misses(k) \/ TickFinds(k)
  <2>1. queries' = queries
    BY <1>2 DEF Publishes, Misses, TickFinds
  <2> QED  BY <2>1
<1> QED  BY <1>1, <1>2

(* A reply that is made now tells what is told after the cursor of the page, *)
(* or leaves it to the reads after it.                                       *)
LEMMA ReplyTells ==
  ASSUME TypeOK, NEW r \in Reply, r.cursor = Current, NEW q \in Daemon,
         \/ r.reset
         \/ poll.cursor = NoCursor
         \/ KnownCursor(poll.cursor) /\ r = ReplyAfter(poll.cursor.seq)
  PROVE  CursorFits(r.cursor) /\ (ToldAfter(q, poll.cursor) => q \in MadeOld(r) \/ ToldAfter(q, r.cursor))
<1>1. /\ poll.cursor \in Cursor /\ poll.cursor.seq \in Nat /\ feed.run \in Nat /\ feed.sequence \in Nat
  BY DEF TypeOK, Cursor
<1>2. Current.run = feed.run /\ Current.seq = feed.sequence
  BY DEF Current
<1>3. CursorFits(r.cursor)
  BY <1>1, <1>2 DEF CursorFits
<1>4. CASE r.reset \/ poll.cursor = NoCursor
  BY <1>1, <1>3, <1>4 DEF MadeOld
<1>5. CASE ~r.reset /\ poll.cursor # NoCursor
  <2> SUFFICES ASSUME ToldAfter(q, poll.cursor) PROVE q \in MadeOld(r) \/ ToldAfter(q, r.cursor)
    BY <1>3
  <2>1. /\ KnownCursor(poll.cursor) /\ r = ReplyAfter(poll.cursor.seq)
        /\ poll.cursor.run = feed.run /\ poll.cursor.seq <= feed.sequence
    BY <1>5 DEF KnownCursor
  <2>2. /\ ~(poll.cursor.seq < Before)
        /\ \A i \in DOMAIN feed.events :
             Before + i > poll.cursor.seq => \E j \in DOMAIN r.events : r.events[j] = feed.events[i]
    <3>1. Before \in Nat
      BY DEF TypeOK, Before
    <3>2. \/ r.reset
          \/ /\ poll.cursor.seq >= Before
             /\ \A i \in DOMAIN feed.events :
                  Before + i > poll.cursor.seq => \E j \in DOMAIN r.events : r.events[j] = feed.events[i]
      BY <1>1, <2>1, FeedIsOK, ReplyAfterIs
    <3> QED  BY <1>1, <1>5, <3>1, <3>2
  <2>3. CASE up # "up" \/ \E k \in Kinds : (due[k] > 0 \/ k \in missed) /\ q \in FEED_MAPPINGS[k]
    BY <2>3 DEF ToldAfter
  <2>4. CASE \E i \in DOMAIN feed.events : Before + i > poll.cursor.seq /\ q \in FEED_MAPPINGS[feed.events[i]]
    <3>1. PICK i \in DOMAIN feed.events : Before + i > poll.cursor.seq /\ q \in FEED_MAPPINGS[feed.events[i]]
      BY <2>4
    <3>2. PICK j \in DOMAIN r.events : r.events[j] = feed.events[i]
      BY <2>2, <3>1
    <3>3. q \in FiltersOf(r.events)
      BY <3>1, <3>2 DEF FiltersOf
    <3> QED  BY <1>5, <3>3 DEF MadeOld
  <2> QED  BY <2>1, <2>2, <2>3, <2>4 DEF ToldAfter
<1> QED  BY <1>4, <1>5

(* What one query owes is told, after the cursor of the page and by the      *)
(* reply under way.                                                          *)
ToldTo(q) == /\ ToldAfter(q, poll.cursor)
             /\ poll.at = "reply" => q \in MadeOld(poll.reply) \/ ToldAfter(q, poll.reply.cursor)

(* A step of the daemon that leaves the long poll alone, and keeps what is   *)
(* told after each cursor, keeps the page told.                              *)
LEMMA PollStands ==
  ASSUME TypeOK, PollFits, NEW q, UNCHANGED poll,
         \A c \in Cursor : CursorFits(c) => CursorFits(c)' /\ (ToldAfter(q, c) => ToldAfter(q, c)')
  PROVE  PollFits' /\ (ToldTo(q) => ToldTo(q)')
<1>1. PICK c \in Cursor : c = poll.cursor
  BY DEF TypeOK
<1>2. CursorFits(c) /\ CursorFits(c)' /\ (ToldAfter(q, c) => ToldAfter(q, c)') /\ c = poll'.cursor
  BY <1>1 DEF PollFits
<1>3. CASE poll.at = "reply"
  <2>1. PICK d \in Cursor : d = poll.reply.cursor
    BY <1>3 DEF TypeOK, Reply
  <2>2. CursorFits(d) /\ CursorFits(d)' /\ (ToldAfter(q, d) => ToldAfter(q, d)') /\ d = poll'.reply.cursor
    BY <1>3, <2>1 DEF PollFits
  <2>3. MadeOld(poll.reply)' = MadeOld(poll.reply)
    BY DEF MadeOld
  <2> QED  BY <1>1, <1>2, <1>3, <2>1, <2>2, <2>3 DEF PollFits, ToldTo
<1>4. CASE poll.at # "reply"
  BY <1>1, <1>2, <1>4 DEF PollFits, ToldTo
<1> QED  BY <1>3, <1>4

(* A step that gives the read a reply, while the daemon and its feed stand   *)
(* still, keeps the page told.                                               *)
LEMMA ReplyStands ==
  ASSUME TypeOK, PollFits, NEW r \in Reply, r.cursor = Current, NEW q \in Daemon,
         \/ r.reset
         \/ poll.cursor = NoCursor
         \/ KnownCursor(poll.cursor) /\ r = ReplyAfter(poll.cursor.seq),
         poll' = [poll EXCEPT !.at = "reply", !.reply = r],
         up' = up, due' = due, missed' = missed,
         feed'.run = feed.run, feed'.sequence = feed.sequence, feed'.events = feed.events
  PROVE  PollFits' /\ (ToldTo(q) => ToldTo(q)')
<1>1. PICK c \in Cursor : c = poll.cursor
  BY DEF TypeOK
<1>2. PICK d \in Cursor : d = r.cursor
  BY DEF Reply
<1>3. poll'.cursor = c /\ poll'.reply = r /\ poll'.at = "reply" /\ poll'.reply.cursor = d
  BY <1>1, <1>2, RepliedTyped
<1>4. (CursorFits(c)' <=> CursorFits(c)) /\ (ToldAfter(q, c)' <=> ToldAfter(q, c))
  BY SameTold
<1>5. (CursorFits(d)' <=> CursorFits(d)) /\ (ToldAfter(q, d)' <=> ToldAfter(q, d))
  BY SameTold
<1>6. CursorFits(d) /\ (ToldAfter(q, c) => q \in MadeOld(r) \/ ToldAfter(q, d))
  BY <1>1, <1>2, ReplyTells
<1>7. MadeOld(poll.reply)' = MadeOld(r)
  BY <1>1, <1>3 DEF MadeOld
<1> QED  BY <1>1, <1>3, <1>4, <1>5, <1>6, <1>7 DEF PollFits, ToldTo

(* A step that only moves the read of the page, or marks no query, keeps the *)
(* page told.                                                                *)
LEMMA ReadMoves ==
  ASSUME TypeOK, PollFits, NEW q, poll'.cursor = poll.cursor, poll'.at # "reply",
         up' = up, due' = due, missed' = missed, feed' = feed
  PROVE  PollFits' /\ (ToldTo(q) => ToldTo(q)')
<1>1. PICK c : c = poll.cursor
  OBVIOUS
<1>2. (CursorFits(c)' <=> CursorFits(c)) /\ (ToldAfter(q, c)' <=> ToldAfter(q, c))
  BY SameTold
<1> QED  BY <1>1, <1>2 DEF PollFits, ToldTo

(* A stop or a start leaves the page told of everything. *)
LEMMA StopStands ==
  ASSUME TypeOK, HeldFits, PollFits, NEW q, Closes \/ Dies \/ Starts
  PROVE  PollFits' /\ ToldTo(q)'
<1>1. PICK c \in Cursor : c = poll.cursor
  BY DEF TypeOK
<1>2. CursorFits(c)' /\ ToldAfter(q, c)'
  BY <1>1, StopTold DEF PollFits
<1>3. /\ poll'.cursor = poll.cursor
      /\ \/ poll'.at # "reply"
         \/ poll.at = "reply" /\ poll' = poll
         \/ poll.at = "held" /\ poll'.reply = ReplyAfter(poll.cursor.seq)
  <2>1. /\ poll \in [at: {"sent", "held", "reply", "pause"}, cursor: Cursor, reply: {<<>>} \union Reply]
        /\ \/ poll' = poll
           \/ poll.at = "held" /\ poll' = [poll EXCEPT !.at = "reply", !.reply = ReplyAfter(poll.cursor.seq)]
           \/ poll' = [poll EXCEPT !.at = "pause"]
    BY DEF TypeOK, Closes, Dies, Starts
  <2> QED  BY <2>1
<1>4. CASE poll'.at # "reply"
  BY <1>1, <1>2, <1>3, <1>4 DEF PollFits, ToldTo
<1>5. CASE poll'.at = "reply"
  <2>1. PICK d \in Cursor : d = poll'.reply.cursor /\ CursorFits(d)
    <3>1. CASE poll.at = "reply" /\ poll' = poll
      BY <3>1 DEF TypeOK, Reply, PollFits
    <3>2. CASE poll.at = "held" /\ poll'.reply = ReplyAfter(poll.cursor.seq)
      <4>1. poll'.reply \in Reply /\ poll'.reply.cursor = Current
        BY <3>2, FeedIsOK, ReplyAfterIs DEF TypeOK, HeldFits, KnownCursor, Cursor
      <4>2. CursorFits(Current) /\ Current \in Cursor
        BY DEF TypeOK, CursorFits, Current, Cursor
      <4> QED  BY <4>1, <4>2
    <3> QED  BY <1>3, <1>5, <3>1, <3>2
  <2>2. CursorFits(d)' /\ ToldAfter(q, d)'
    BY <2>1, StopTold
  <2> QED  BY <1>1, <1>2, <1>3, <2>1, <2>2 DEF PollFits, ToldTo
<1> QED  BY <1>4, <1>5

(* Each step that leaves the queries owing no more keeps the page told, and  *)
(* so do the changes and the reply that the page takes.                      *)
LEMMA TellsStep ==
  ASSUME TypeOK, HeldFits, PollFits, AllTold, Next
  PROVE  PollFits' /\ AllTold'
<1> USE DEF AllTold
<1>1. \A q \in Queries : Owes(queries[q]) => ToldTo(q)
  BY DEF ToldTo
<1>2. SUFFICES ASSUME NEW q \in Daemon
               PROVE  PollFits' /\ (q \in Queries /\ Owes(queries'[q]) => ToldTo(q)')
  <2>1. Queries \subseteq Daemon /\ "tasks" \in Daemon
    BY FeedAssumption DEF Daemon
  <2> QED  BY <1>2, <2>1 DEF ToldTo
<1>3. ASSUME queries' = queries, PollFits', ToldTo(q) => ToldTo(q)'
      PROVE  PollFits' /\ (q \in Queries /\ Owes(queries'[q]) => ToldTo(q)')
  BY <1>1, <1>3
<1>4. ASSUME NEW k \in Kinds, Changes(k) \/ Publishes(k) \/ Misses(k) \/ TickFinds(k)
      PROVE  PollFits' /\ (q \in Queries /\ Owes(queries'[q]) => ToldTo(q)')
  <2>1. \A c \in Cursor : CursorFits(c) => CursorFits(c)' /\ (ToldAfter(q, c) => ToldAfter(q, c)')
    BY <1>4, ChangesTold
  <2>2. UNCHANGED poll
    BY <1>4 DEF Changes, Publishes, Misses, TickFinds
  <2>3. PollFits' /\ (ToldTo(q) => ToldTo(q)')
    BY <2>1, <2>2, PollStands
  <2>4. ASSUME q \in Queries, Owes(queries'[q]), ~Owes(queries[q])  PROVE ToldTo(q)'
    <3>1. PICK c, d : c = poll.cursor /\ d = poll.reply.cursor
      OBVIOUS
    <3>2. ToldAfter(q, c)' /\ ToldAfter(q, d)'
      BY <1>4, <2>4, ChangesOwe
    <3> QED  BY <2>2, <3>1, <3>2 DEF ToldTo
  <2> QED  BY <1>1, <2>3, <2>4
<1>5. CASE Releases \/ HoldEnds
  <2>1. /\ up' = up /\ due' = due /\ missed' = missed /\ queries' = queries
        /\ feed'.run = feed.run /\ feed'.sequence = feed.sequence /\ feed'.events = feed.events
    BY <1>5 DEF Releases, HoldEnds, TypeOK
  <2>2. CASE poll.at = "held"
    <3>1. poll' = [poll EXCEPT !.at = "reply", !.reply = ReplyAfter(poll.cursor.seq)]
      BY <1>5, <2>2 DEF Releases, HoldEnds, Replies
    <3>2. PICK r \in Reply : r = ReplyAfter(poll.cursor.seq)
      BY <2>2, HeldReply
    <3>3. r.cursor = Current /\ KnownCursor(poll.cursor)
      BY <2>2, <3>2, FeedIsOK, ReplyAfterIs DEF TypeOK, HeldFits, KnownCursor, Cursor
    <3> QED  BY <1>3, <2>1, <3>1, <3>2, <3>3, ReplyStands
  <2>3. CASE poll.at # "held"
    <3>1. UNCHANGED poll
      BY <1>5, <2>3 DEF Releases, HoldEnds
    <3> QED  BY <1>3, <2>1, <3>1, SameTold, PollStands
  <2> QED  BY <2>2, <2>3
<1>6. CASE GoneHoldEnds \/ ListenEnds \/ TickStarts \/ TickEnds
  <2>1. UNCHANGED <<up, feed, due, missed, poll, queries>>
    BY <1>6 DEF GoneHoldEnds, ListenEnds, TickStarts, TickEnds
  <2> QED  BY <1>3, <2>1, SameTold, PollStands
<1>7. CASE Closes \/ Dies \/ Starts
  BY <1>7, StopStands
<1>8. CASE Arrives
  <2>1. UNCHANGED <<up, feed, due, missed, queries>>
    BY <1>8 DEF Arrives
  <2>2. CASE Holds(poll.cursor)
    <3>1. poll' = [poll EXCEPT !.at = "held"]
      BY <1>8, <2>2 DEF Arrives
    <3>2. poll'.cursor = poll.cursor /\ poll'.at # "reply"
      BY <3>1 DEF TypeOK
    <3> QED  BY <1>3, <2>1, <3>2, ReadMoves
  <2>3. CASE ~Holds(poll.cursor)
    <3>1. poll' = [poll EXCEPT !.at = "reply", !.reply = Answer(poll.cursor)]
      BY <1>8, <2>3 DEF Arrives, Replies
    <3>2. PICK r \in Reply : r = Answer(poll.cursor) /\ r.cursor = Current
      BY FeedIsOK, AnswerIs DEF TypeOK
    <3>3. r.reset \/ poll.cursor = NoCursor \/ (KnownCursor(poll.cursor) /\ r = ReplyAfter(poll.cursor.seq))
      BY <3>2, FeedIsOK, AnswerIs DEF TypeOK
    <3> QED  BY <1>3, <2>1, <3>1, <3>2, <3>3, ReplyStands
  <2> QED  BY <2>2, <2>3
<1>9. CASE TakesReply
  <2>1. /\ poll.at = "reply" /\ UNCHANGED <<up, feed, due, missed>>
        /\ poll'.at = "sent" /\ poll'.cursor = poll.reply.cursor
    BY <1>9 DEF TakesReply
  <2>2. PICK d : d = poll.reply.cursor
    OBVIOUS
  <2>3. (CursorFits(d)' <=> CursorFits(d)) /\ (ToldAfter(q, d)' <=> ToldAfter(q, d))
    BY <2>1, SameTold
  <2>4. ASSUME q \in Queries, Owes(queries'[q])  PROVE ToldAfter(q, d)
    <3>1. CASE q \in MadeOld(poll.reply)
      <4>1. queries'[q] = Invalidated(queries[q]) /\ queries[q] \in Query
        BY <1>9, <2>4, <3>1 DEF TakesReply, TypeOK
      <4> QED  BY <2>4, <4>1, InvalidatedIs
    <3>2. CASE q \notin MadeOld(poll.reply)
      <4>1. queries'[q] = queries[q]
        BY <1>9, <2>4, <3>2 DEF TakesReply
      <4> QED  BY <1>1, <2>1, <2>2, <2>4, <3>2, <4>1 DEF ToldTo
    <3> QED  BY <3>1, <3>2
  <2> QED  BY <2>1, <2>2, <2>3, <2>4 DEF PollFits, ToldTo
<1>10. CASE ReadFails \/ PauseEnds
  <2>1. /\ UNCHANGED <<up, feed, due, missed, queries>>
        /\ poll' = [poll EXCEPT !.at = "pause", !.reply = <<>>] \/ poll' = [poll EXCEPT !.at = "sent"]
    BY <1>10 DEF ReadFails, PauseEnds
  <2>2. poll'.cursor = poll.cursor /\ poll'.at # "reply"
    BY <2>1 DEF TypeOK
  <2> QED  BY <1>3, <2>1, <2>2, ReadMoves
<1>11. ASSUME NEW p \in Queries, Answers(p) \/ Lands(p) \/ FetchFails(p) \/ Shows(p) \/ Hides(p)
       PROVE  PollFits' /\ (q \in Queries /\ Owes(queries'[q]) => ToldTo(q)')
  <2>1. UNCHANGED <<up, feed, due, missed, poll>> /\ (q \in Queries /\ Owes(queries'[q]) => Owes(queries[q]))
    BY <1>11, QueryStep DEF Page
  <2>2. PollFits' /\ (ToldTo(q) => ToldTo(q)')
    BY <2>1, SameTold, PollStands
  <2> QED  BY <1>1, <2>1, <2>2
<1> QED  BY <1>4, <1>5, <1>6, <1>7, <1>8, <1>9, <1>10, <1>11 DEF Next

(* A page is told of each change that it has yet to read, by a reply under   *)
(* way or by one after its cursor, for any kinds, queries, window and        *)
(* budgets.                                                                  *)
THEOREM TellsHold == Spec => []TellsInv
<1>1. Init => TellsInv
  <2> SUFFICES ASSUME Init PROVE TellsInv
    OBVIOUS
  <2>1. PollFits
    BY DEF Init, NewPoll, NoCursor, NewFeed, PollFits, CursorFits
  <2>2. \A q \in Queries : ~Owes(queries[q])
    BY DEF Init, Owes
  <2> QED  BY <2>1, <2>2, TypeInit DEF TellsInv, AllTold
<1>2. TellsInv /\ [Next]_vars => TellsInv'
  <2> SUFFICES ASSUME TellsInv, [Next]_vars PROVE TellsInv'
    OBVIOUS
  <2>1. CASE Next
    BY <2>1, TypeStep, HeldStep, TellsStep DEF TellsInv
  <2>2. CASE UNCHANGED vars
    <3>1. TypeOK' /\ HeldFits' /\ PollFits'
      BY <2>2 DEF vars, TellsInv, TypeOK, HeldFits, PollFits, CursorFits, KnownCursor
    <3>2. AllTold'
      <4>1. Before' = Before
        BY <2>2 DEF vars, Before
      <4> QED  BY <2>2, <4>1 DEF vars, TellsInv, AllTold, ToldAfter, MadeOld
    <3> QED  BY <3>1, <3>2 DEF TellsInv
  <2> QED  BY <2>1, <2>2
<1> QED  BY <1>1, <1>2, PTL DEF Spec

(* A query that shows an answer from before a change, with no mark and no    *)
(* read under way, is one that the page will be told of.                     *)
THEOREM NoSilentStaleHolds == Spec => []NoSilentStale
<1>1. TellsInv => NoSilentStale
  BY DEF TellsInv, AllTold, Owes, NoSilentStale
<1> QED  BY <1>1, TellsHold, PTL
=============================================================================
