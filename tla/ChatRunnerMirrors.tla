------------------------- MODULE ChatRunnerMirrors -------------------------
(***************************************************************************)
(* What the log of a chat says, once all that was called is written, is    *)
(* what the runner has in mind.                                            *)
(*                                                                         *)
(* Then the line of the runs.  At most one of them, the holder, holds the  *)
(* texts that the agent has still to get: the last run that has called its *)
(* interrupt.  The runs after it wait for the last process, and the runs   *)
(* before it are over.  Only the holder talks to the agent.  Most steps    *)
(* leave every text where it is.  They glide: Calm says what they do, and  *)
(* one lemma says that such a step keeps the invariant of the texts.       *)
(*                                                                         *)
(* Last the steps that take texts from a run, hand them to the next one,   *)
(* or lose them, and tell the agent nothing.                               *)
(***************************************************************************)
EXTENDS ChatRunnerKeeps, NaturalsInduction, WellFoundedInduction

-----------------------------------------------------------------------------
(* Induction over a length. *)

\* A set of numbers with 0, and with the successor of each of its numbers, has all numbers: the
\* least number outside of it would be neither.
LEMMA AllNumbers ==
  ASSUME NEW S, 0 \in S, \A n \in Nat : n \in S => n + 1 \in S
  PROVE  \A n \in Nat : n \in S
<1> DEFINE R == {p \in Nat \X Nat : p[1] < p[2]}
           T == Nat \ S
<1> SUFFICES ASSUME T # {} PROVE FALSE
  OBVIOUS
<1>1. IsWellFoundedOn(R, Nat)
  BY NatLessThanWellFounded DEF OpToRel
<1>2. \A x, y \in Nat : <<y, x>> \in R <=> y < x
  OBVIOUS
<1>3. T \in SUBSET Nat
  OBVIOUS
<1> HIDE DEF R
<1>4. PICK x \in T : \A y \in T : ~(<<y, x>> \in R)
  BY <1>1, <1>3, WFMin
<1>5. x \in Nat /\ x # 0 /\ x - 1 \in Nat /\ x - 1 < x /\ (x - 1) + 1 = x
  BY <1>4
<1>6. x - 1 \in S
  BY <1>2, <1>4, <1>5
<1> QED  BY <1>4, <1>5, <1>6

-----------------------------------------------------------------------------
(* The fold of the writes that wait. *)

\* One after the other, up to the write with number m.
Chain(g, f, ws, m) ==
  /\ DOMAIN g = 0..m
  /\ g[0] = f
  /\ \A n \in 1..m : g[n] = FoldChat(g[n - 1], ws[n].ev)

\* A function that folds the events of the writes one after the other exists.
LEMMA ChainThere ==
  ASSUME NEW f, NEW ws, NEW m \in Nat PROVE \E g : Chain(g, f, ws, m)
<1> DEFINE S == {n \in Nat : \E g : Chain(g, f, ws, n)}
<1>1. 0 \in S
  <2> DEFINE g == [n \in 0..0 |-> f]
  <2>1. DOMAIN g = 0..0 /\ g[0] = f
    OBVIOUS
  <2> HIDE DEF g
  <2>2. Chain(g, f, ws, 0)
    BY <2>1 DEF Chain
  <2> QED  BY <2>2
<1>2. ASSUME NEW n \in Nat, n \in S PROVE n + 1 \in S
  <2>1. PICK h : Chain(h, f, ws, n)
    BY <1>2
  <2> DEFINE new == FoldChat(h[n], ws[n + 1].ev)
             g == [i \in 0..(n + 1) |-> IF i = n + 1 THEN new ELSE h[i]]
  <2>2. DOMAIN g = 0..(n + 1) /\ g[n + 1] = new /\ \A i \in 0..n : g[i] = h[i]
    OBVIOUS
  <2> HIDE DEF g
  <2>3. ASSUME NEW i \in 1..(n + 1) PROVE g[i] = FoldChat(g[i - 1], ws[i].ev)
    <3>1. CASE i = n + 1
      <4>1. i - 1 = n /\ n \in 0..n
        BY <3>1
      <4> QED  BY <2>2, <3>1, <4>1
    <3>2. CASE i # n + 1
      <4>1. i \in 1..n /\ i - 1 \in 0..n /\ i \in 0..n
        BY <3>2
      <4> QED  BY <2>1, <2>2, <4>1 DEF Chain
    <3> QED  BY <3>1, <3>2
  <2>4. g[0] = f
    BY <2>1, <2>2 DEF Chain
  <2>5. Chain(g, f, ws, n + 1)
    BY <2>2, <2>3, <2>4 DEF Chain
  <2> QED  BY <2>5
<1> HIDE DEF S
<1>3. m \in S
  BY <1>1, <1>2, AllNumbers
<1> QED  BY <1>3 DEF S

\* Two sequences or chains that are the same from l to m.
SameFrom(l, g, h, m) == \A n \in l..m : g[n] = h[n]

\* Two chains that read the same events are the same as far as they do.
LEMMA ChainsAgree ==
  ASSUME NEW f, NEW ws, NEW vs, NEW m \in Nat, NEW k \in Nat, NEW l \in Nat,
         NEW g, Chain(g, f, ws, k), NEW h, Chain(h, f, vs, l), m <= k, m <= l,
         SameFrom(1, ws, vs, m)
  PROVE  SameFrom(0, g, h, m)
<1> DEFINE S == {n \in Nat : n <= m => g[n] = h[n]}
<1>1. 0 \in S
  BY DEF Chain
<1>2. ASSUME NEW n \in Nat, n \in S PROVE n + 1 \in S
  <2> SUFFICES ASSUME n + 1 <= m PROVE g[n + 1] = h[n + 1]
    OBVIOUS
  <2>1. n + 1 \in 1..k /\ n + 1 \in 1..l /\ n + 1 \in 1..m /\ (n + 1) - 1 = n /\ g[n] = h[n]
    BY <1>2
  <2>2. g[n + 1] = FoldChat(g[n], ws[n + 1].ev) /\ h[n + 1] = FoldChat(h[n], vs[n + 1].ev)
    BY <2>1 DEF Chain
  <2> QED  BY <2>1, <2>2 DEF SameFrom
<1> HIDE DEF S
<1>3. \A n \in Nat : n \in S
  BY <1>1, <1>2, AllNumbers
<1> QED  BY <1>3 DEF S, SameFrom

\* `Folds` is such a chain.
LEMMA FoldsIs ==
  ASSUME NEW f, NEW ws, Len(ws) \in Nat PROVE Chain(Folds(f, ws), f, ws, Len(ws))
<1> DEFINE Step(h) == [n \in 0..Len(ws) |-> IF n = 0 THEN f ELSE FoldChat(h[n - 1], ws[n].ev)]
           IsAfter(h) == h = Step(h)
           after == CHOOSE h : IsAfter(h)
<1>1. Folds(f, ws) = after
  BY DEF Folds
<1>2. PICK g : Chain(g, f, ws, Len(ws))
  BY ChainThere
<1> DEFINE c == [n \in 0..Len(ws) |-> g[n]]
<1>3. IsAfter(c)
  <2>1. ASSUME NEW n \in 0..Len(ws)
        PROVE  c[n] = IF n = 0 THEN f ELSE FoldChat(c[n - 1], ws[n].ev)
    <3>1. CASE n = 0
      BY <1>2, <3>1 DEF Chain
    <3>2. CASE n # 0
      <4>1. n \in 1..Len(ws) /\ n - 1 \in 0..Len(ws)
        BY <3>2
      <4>2. c[n] = g[n] /\ c[n - 1] = g[n - 1]
        BY <4>1
      <4>3. g[n] = FoldChat(g[n - 1], ws[n].ev)
        BY <1>2, <4>1 DEF Chain
      <4> QED  BY <3>2, <4>2, <4>3
    <3> QED  BY <3>1, <3>2
  <2>2. Step(c) = [n \in 0..Len(ws) |-> c[n]]
    BY <2>1, Zenon
  <2>3. c = [n \in 0..Len(ws) |-> c[n]]
    OBVIOUS
  <2> QED  BY <2>2, <2>3
<1>4. IsAfter(after)
  <2> HIDE DEF IsAfter, c
  <2>1. IsAfter(CHOOSE h : IsAfter(h))
    BY <1>3, Zenon
  <2> QED  BY <2>1
<1>5. after = [n \in 0..Len(ws) |-> IF n = 0 THEN f ELSE FoldChat(after[n - 1], ws[n].ev)]
  BY <1>4, Zenon
<1> HIDE DEF after
<1>6. DOMAIN after = 0..Len(ws)
  BY <1>5, Zenon
<1>7. \A n \in 0..Len(ws) : after[n] = IF n = 0 THEN f ELSE FoldChat(after[n - 1], ws[n].ev)
  BY <1>5, Zenon
<1>8. after[0] = f /\ \A n \in 1..Len(ws) : after[n] = FoldChat(after[n - 1], ws[n].ev)
  BY <1>7
<1> QED  BY <1>1, <1>6, <1>8 DEF Chain

\* The state of a chat with the fold f once the writes ws are done.
Written(f, ws) == Folds(f, ws)[Len(ws)]

\* AllWritten is the state after every write that waits.
LEMMA WrittenIs == AllWritten = Written(fold, writes)
  BY DEF AllWritten, Written

\* Every state of a chain is a fold.
LEMMA ChainType ==
  ASSUME NEW f \in Fold, NEW ws \in Seq(Write), NEW g, Chain(g, f, ws, Len(ws))
  PROVE  \A n \in 0..Len(ws) : g[n] \in Fold
<1> DEFINE S == {n \in Nat : n <= Len(ws) => g[n] \in Fold}
<1>1. 0 \in S
  BY DEF Chain
<1>2. ASSUME NEW n \in Nat, n \in S PROVE n + 1 \in S
  <2> SUFFICES ASSUME n + 1 <= Len(ws) PROVE g[n + 1] \in Fold
    OBVIOUS
  <2>1. n + 1 \in 1..Len(ws) /\ (n + 1) - 1 = n /\ g[n] \in Fold
    BY <1>2
  <2>2. g[n + 1] = FoldChat(g[n], ws[n + 1].ev)
    BY <2>1 DEF Chain
  <2>3. ws[n + 1] \in Write /\ ws[n + 1].ev \in Event
    BY <2>1 DEF Write
  <2>4. FoldChat(g[n], ws[n + 1].ev) \in Fold
    <3>1. [answered |-> TRUE, unanswered |-> <<>>] \in Answers
      <4>1. <<>> \in Seq(Texts)
        OBVIOUS
      <4> QED  BY <4>1 DEF Answers
    <3> QED  BY <2>1, <2>3, <3>1, FoldType
  <2> QED  BY <2>2, <2>4
<1> HIDE DEF S
<1>3. \A n \in Nat : n \in S
  BY <1>1, <1>2, AllNumbers
<1> QED  BY <1>3 DEF S

\* What an event relies on in the log it comes to.
EventFits(f, e) ==
  /\ e.kind \in {"turn-end", "turn-cancelled"} => f.turn
  /\ e.kind = "resolved" => e.reqs \subseteq f.open
  /\ e.kind = "ask" => e.reqs \cap f.open = {}
  /\ e.kind = "background" => <<e.job, e.own>> # <<f.job, f.own>>

Fitting(f, ws) == \A n \in 1..Len(ws) : EventFits(Folds(f, ws)[n - 1], ws[n].ev)

\* The state after some writes is a state of a chat.
LEMMA WrittenType ==
  ASSUME NEW f \in Fold, NEW ws \in Seq(Write) PROVE Written(f, ws) \in Fold
<1>1. Chain(Folds(f, ws), f, ws, Len(ws))
  BY FoldsIs
<1> QED  BY <1>1, ChainType DEF Written

\* With no write, the log is what it is.
LEMMA WrittenNothing ==
  ASSUME NEW f PROVE Written(f, <<>>) = f /\ Fitting(f, <<>>)
<1>1. Len(<<>>) = 0 /\ 1..0 = {}
  OBVIOUS
<1>2. Chain(Folds(f, <<>>), f, <<>>, 0)
  BY <1>1, FoldsIs
<1> QED  BY <1>1, <1>2 DEF Written, Fitting, Chain

\* One write more is one event more.
LEMMA WrittenAppend ==
  ASSUME NEW f, NEW ws \in Seq(Write), NEW w \in Write
  PROVE  /\ Written(f, Append(ws, w)) = FoldChat(Written(f, ws), w.ev)
         /\ Fitting(f, Append(ws, w)) <=> Fitting(f, ws) /\ EventFits(Written(f, ws), w.ev)
<1> DEFINE vs == Append(ws, w)
           k == Len(ws)
           g == Folds(f, ws)
           h == Folds(f, vs)
<1>1. /\ k \in Nat /\ Len(vs) = k + 1 /\ vs[k + 1] = w
      /\ \A n \in 1..k : vs[n] = ws[n]
  OBVIOUS
<1> HIDE DEF vs
<1>2. Chain(g, f, ws, k) /\ Chain(h, f, vs, k + 1)
  BY <1>1, FoldsIs
<1> HIDE DEF g, h, k
<1>3. \A n \in 0..k : h[n] = g[n]
  <2>1. k + 1 \in Nat /\ k <= k /\ k <= k + 1
    BY <1>1
  <2>2. SameFrom(1, vs, ws, k)
    BY <1>1 DEF SameFrom
  <2>3. SameFrom(0, h, g, k)
    BY <1>1, <1>2, <2>1, <2>2, ChainsAgree
  <2> QED  BY <2>3 DEF SameFrom
<1>4. k + 1 \in 1..(k + 1) /\ (k + 1) - 1 = k /\ k \in 0..k
  BY <1>1
<1>5. h[k + 1] = FoldChat(g[k], w.ev)
  BY <1>1, <1>2, <1>3, <1>4 DEF Chain
<1>6. Written(f, vs) = FoldChat(Written(f, ws), w.ev)
  BY <1>1, <1>5 DEF Written, g, h, k
<1>7. \A n \in 1..k : n \in 1..(k + 1) /\ n - 1 \in 0..k
  BY <1>1
<1>8. \A n \in 1..(k + 1) : n \in 1..k \/ n = k + 1
  BY <1>1
<1>9. Fitting(f, vs) <=> \A n \in 1..(k + 1) : EventFits(h[n - 1], vs[n].ev)
  BY <1>1 DEF Fitting, h
<1>10. Fitting(f, ws) <=> \A n \in 1..k : EventFits(g[n - 1], ws[n].ev)
  BY DEF Fitting, g, k
<1>11. Written(f, ws) = g[k]
  BY DEF Written, g, k
<1>12. \A n \in 1..k : EventFits(h[n - 1], vs[n].ev) <=> EventFits(g[n - 1], ws[n].ev)
  BY <1>1, <1>3, <1>7
<1>13. EventFits(h[(k + 1) - 1], vs[k + 1].ev) <=> EventFits(g[k], w.ev)
  BY <1>1, <1>3, <1>4
<1>14. Fitting(f, vs) <=> Fitting(f, ws) /\ EventFits(Written(f, ws), w.ev)
  BY <1>4, <1>7, <1>8, <1>9, <1>10, <1>11, <1>12, <1>13
<1> QED  BY <1>6, <1>14 DEF vs

\* The first write is done.
LEMMA WrittenTail ==
  ASSUME NEW f, NEW ws \in Seq(Write), ws # <<>>, NEW e, e = FoldChat(f, Head(ws).ev)
  PROVE  /\ Written(e, Tail(ws)) = Written(f, ws)
         /\ Fitting(f, ws) => Fitting(e, Tail(ws)) /\ EventFits(f, Head(ws).ev)
<1> DEFINE vs == Tail(ws)
           k == Len(vs)
           g == Folds(f, ws)
           h == Folds(e, vs)
           c == [n \in 0..k |-> g[n + 1]]
<1>1. /\ k \in Nat /\ Len(ws) = k + 1 /\ Head(ws) = ws[1]
      /\ \A n \in 1..k : vs[n] = ws[n + 1]
  OBVIOUS
<1> HIDE DEF vs
<1>2. Chain(g, f, ws, k + 1) /\ Chain(h, e, vs, k)
  BY <1>1, FoldsIs
<1> HIDE DEF g, h, k
<1>3. DOMAIN c = 0..k /\ \A n \in 0..k : c[n] = g[n + 1]
  OBVIOUS
<1> HIDE DEF c
<1>4. 1 \in 1..(k + 1) /\ 1 - 1 = 0 /\ 0 \in 0..k /\ 0 + 1 = 1
  BY <1>1
<1>5. c[0] = e
  BY <1>1, <1>2, <1>3, <1>4 DEF Chain
<1>6. ASSUME NEW n \in 1..k PROVE c[n] = FoldChat(c[n - 1], vs[n].ev)
  <2>1. n \in 0..k /\ n - 1 \in 0..k /\ n + 1 \in 1..(k + 1) /\ (n + 1) - 1 = n /\ (n - 1) + 1 = n
    BY <1>1
  <2>2. g[n + 1] = FoldChat(g[n], ws[n + 1].ev)
    BY <1>2, <2>1 DEF Chain
  <2> QED  BY <1>1, <1>3, <2>1, <2>2
<1>7. Chain(c, e, vs, k)
  BY <1>3, <1>5, <1>6 DEF Chain
<1>8. \A n \in 0..k : h[n] = g[n + 1]
  <2>1. k <= k /\ SameFrom(1, vs, vs, k)
    BY <1>1 DEF SameFrom
  <2>2. SameFrom(0, c, h, k)
    BY <1>1, <1>2, <1>7, <2>1, ChainsAgree
  <2> QED  BY <1>3, <2>2 DEF SameFrom
<1>9. k \in 0..k
  BY <1>1
<1>10. Written(e, vs) = Written(f, ws)
  BY <1>1, <1>8, <1>9 DEF Written, g, h, k
<1>11. Fitting(f, ws) => \A n \in 1..(k + 1) : EventFits(g[n - 1], ws[n].ev)
  BY <1>1 DEF Fitting, g
<1>12. \A n \in 1..k : n + 1 \in 1..(k + 1) /\ (n + 1) - 1 = n /\ (n - 1) + 1 = n /\ n - 1 \in 0..k
  BY <1>1
<1>13. \A n \in 1..k : h[n - 1] = g[(n + 1) - 1]
  BY <1>8, <1>12
<1>14. Fitting(f, ws) => \A n \in 1..k : EventFits(h[n - 1], vs[n].ev)
  BY <1>1, <1>11, <1>12, <1>13
<1>15. Fitting(f, ws) => Fitting(e, vs)
  BY <1>14 DEF Fitting, h, k
<1>16. g[0] = f
  BY <1>2 DEF Chain
<1>17. Fitting(f, ws) => EventFits(f, Head(ws).ev)
  BY <1>1, <1>4, <1>11, <1>16
<1> QED  BY <1>10, <1>15, <1>17 DEF vs

-----------------------------------------------------------------------------
(* What the writes of a step say. *)

\* They are of no message, each fits the log, and they take the state a of the chat to b.
Says(s, a, b) ==
  /\ s \in Seq(Write)
  /\ \A n \in 1..Len(s) : s[n].ev.kind # "user" /\ s[n].cont \notin {"call", "hold"}
  /\ \A f \in Fold, ws \in Seq(Write) : Fitting(f, ws) /\ Written(f, ws) = a =>
        Fitting(f, ws \o s) /\ Written(f, ws \o s) = b

\* No writes say nothing.
LEMMA SaysNothing == ASSUME NEW a PROVE Says(<<>>, a, a)
<1>1. <<>> \in Seq(Write) /\ Len(<<>>) = 0 /\ 1..0 = {}
  OBVIOUS
<1>2. \A ws \in Seq(Write) : ws \o <<>> = ws
  OBVIOUS
<1> QED  BY <1>1, <1>2 DEF Says

\* One write that is no message, and that fits, says its event.
LEMMA SaysOne ==
  ASSUME NEW a, NEW w \in Write, w.ev.kind # "user", w.cont \notin {"call", "hold"},
         EventFits(a, w.ev), NEW b, b = FoldChat(a, w.ev)
  PROVE  Says(<<w>>, a, b)
<1>1. <<w>> \in Seq(Write) /\ Len(<<w>>) = 1 /\ <<w>>[1] = w /\ 1..1 = {1}
  OBVIOUS
<1>2. \A ws \in Seq(Write) : ws \o <<w>> = Append(ws, w)
  OBVIOUS
<1>3. \A n \in 1..Len(<<w>>) : <<w>>[n] = w
  BY <1>1
<1>4. ASSUME NEW f \in Fold, NEW ws \in Seq(Write), Fitting(f, ws), Written(f, ws) = a
      PROVE  Fitting(f, ws \o <<w>>) /\ Written(f, ws \o <<w>>) = b
  <2>1. ws \o <<w>> = Append(ws, w)
    BY <1>2
  <2>2. Written(f, Append(ws, w)) = FoldChat(Written(f, ws), w.ev)
    BY WrittenAppend
  <2>3. Fitting(f, Append(ws, w)) <=> Fitting(f, ws) /\ EventFits(Written(f, ws), w.ev)
    BY WrittenAppend
  <2> QED  BY <1>4, <2>1, <2>2, <2>3
<1> QED  BY <1>1, <1>3, <1>4 DEF Says

\* What two sequences of writes say, one after the other.
LEMMA SaysBoth ==
  ASSUME NEW a, NEW b, NEW c, NEW s, NEW u, Says(s, a, b), Says(u, b, c) PROVE Says(s \o u, a, c)
<1>1. s \in Seq(Write) /\ u \in Seq(Write)
  BY DEF Says
<1>2. s \o u \in Seq(Write) /\ Len(s \o u) = Len(s) + Len(u) /\ Len(s) \in Nat /\ Len(u) \in Nat
  BY <1>1
<1>3. ASSUME NEW n \in 1..Len(s \o u)
      PROVE  (s \o u)[n].ev.kind # "user" /\ (s \o u)[n].cont \notin {"call", "hold"}
  <2>1. CASE n <= Len(s)
    <3>1. (s \o u)[n] = s[n] /\ n \in 1..Len(s)
      BY <1>1, <1>2, <2>1
    <3> QED  BY <3>1 DEF Says
  <2>2. CASE ~(n <= Len(s))
    <3>1. (s \o u)[n] = u[n - Len(s)] /\ n - Len(s) \in 1..Len(u)
      BY <1>1, <1>2, <2>2
    <3> QED  BY <3>1 DEF Says
  <2> QED  BY <2>1, <2>2
<1>4. ASSUME NEW f \in Fold, NEW ws \in Seq(Write), Fitting(f, ws), Written(f, ws) = a
      PROVE  Fitting(f, ws \o (s \o u)) /\ Written(f, ws \o (s \o u)) = c
  <2>1. ws \o (s \o u) = (ws \o s) \o u /\ ws \o s \in Seq(Write)
    BY <1>1, ConcatAssociative
  <2>2. Fitting(f, ws \o s) /\ Written(f, ws \o s) = b
    BY <1>4 DEF Says
  <2>3. Fitting(f, (ws \o s) \o u) /\ Written(f, (ws \o s) \o u) = c
    BY <2>1, <2>2 DEF Says
  <2> QED  BY <2>1, <2>3
<1> QED  BY <1>2, <1>3, <1>4 DEF Says

\* What each event says.
LEMMA PlainSays ==
  ASSUME NEW a \in Fold
  PROVE  /\ FoldChat(a, Plain("failed")) = NothingRuns(a, "failed")
         /\ FoldChat(a, Plain("interrupted")) = NothingRuns(a, a.stopped)
         /\ FoldChat(a, Plain("turn-end")) = [a EXCEPT !.turn = FALSE, !.open = {}]
         /\ FoldChat(a, Plain("turn-cancelled")) = [a EXCEPT !.turn = FALSE, !.open = {}]
         /\ FoldChat(a, Plain("other")) = a
         /\ FoldChat(a, Plain("work")) = a
         /\ FoldChat(a, Plain("resumed")) = [a EXCEPT !.stopped = "none"]
  BY DEF FoldChat, Plain

\* What the events with a text, a request or a background say.
LEMMA EventSays ==
  ASSUME NEW a \in Fold
  PROVE  /\ \A t : FoldChat(a, UserEvent(t)) =
                     [a EXCEPT !.turn = TRUE, !.job = FALSE, !.own = FALSE, !.stopped = "none"]
         /\ \A q : FoldChat(a, AskEvent(q)) = [a EXCEPT !.open = a.open \union {q}]
         /\ \A qs : FoldChat(a, ResolvedEvent(qs)) = [a EXCEPT !.open = a.open \ qs]
         /\ \A job, own \in BOOLEAN : FoldChat(a, BackgroundEvent(job, own)) = [a EXCEPT !.job = job, !.own = own]
<1>1. \A t : UserEvent(t).kind = "user"
  BY DEF UserEvent, Plain
<1>2. \A q : AskEvent(q).kind = "ask" /\ AskEvent(q).reqs = {q}
  BY DEF AskEvent, Plain
<1>3. \A qs : ResolvedEvent(qs).kind = "resolved" /\ ResolvedEvent(qs).reqs = qs
  BY DEF ResolvedEvent, Plain
<1>4. \A job, own : /\ BackgroundEvent(job, own).kind = "background"
                    /\ BackgroundEvent(job, own).job = job /\ BackgroundEvent(job, own).own = own
  BY DEF BackgroundEvent, Plain
<1>5. \A t : FoldChat(a, UserEvent(t)) =
              [a EXCEPT !.turn = TRUE, !.job = FALSE, !.own = FALSE, !.stopped = "none"]
  BY <1>1 DEF FoldChat
<1>6. \A q : FoldChat(a, AskEvent(q)) = [a EXCEPT !.open = a.open \union {q}]
  BY <1>2 DEF FoldChat
<1>7. \A qs : FoldChat(a, ResolvedEvent(qs)) = [a EXCEPT !.open = a.open \ qs]
  BY <1>3 DEF FoldChat
<1>8. \A job, own \in BOOLEAN : FoldChat(a, BackgroundEvent(job, own)) = [a EXCEPT !.job = job, !.own = own]
  BY <1>4 DEF FoldChat
<1> QED  BY <1>5, <1>6, <1>7, <1>8

\* Events that take nothing from the log.
LEMMA PlainFits ==
  ASSUME NEW a, NEW kind \in {"failed", "interrupted", "other", "work", "resumed", "user"}
  PROVE  EventFits(a, Plain(kind))
  BY DEF EventFits, Plain

\* What one plain write says.
LEMMA SaysPlain ==
  ASSUME NEW a \in Fold, NEW r \in 0..MaxRuns, NEW cont \in Conts \ {"hold", "call"},
         NEW kind \in {"failed", "interrupted", "other", "work", "resumed"}
  PROVE  /\ Says(<<WThen(Plain(kind), r, cont)>>, a, FoldChat(a, Plain(kind)))
         /\ Says(<<W(Plain(kind), r)>>, a, FoldChat(a, Plain(kind)))
<1>1. kind \in EventKinds
  BY DEF EventKinds
<1>2. Plain(kind) \in Event
  BY <1>1, EventType
<1>3. WThen(Plain(kind), r, cont) \in Write /\ W(Plain(kind), r) \in Write
  BY <1>2, WriteType
<1>4. EventFits(a, Plain(kind)) /\ Plain(kind).kind # "user"
  BY PlainFits DEF Plain
<1>5. /\ WThen(Plain(kind), r, cont).ev = Plain(kind) /\ W(Plain(kind), r).ev = Plain(kind)
      /\ WThen(Plain(kind), r, cont).cont \notin {"call", "hold"} /\ W(Plain(kind), r).cont = "none"
  BY DEF W, WThen
<1>6. Says(<<WThen(Plain(kind), r, cont)>>, a, FoldChat(a, Plain(kind)))
  BY <1>3, <1>4, <1>5, SaysOne
<1>7. Says(<<W(Plain(kind), r)>>, a, FoldChat(a, Plain(kind)))
  BY <1>3, <1>4, <1>5, SaysOne
<1> QED  BY <1>6, <1>7

\* The failure of a run that is not quiet.
LEMMA FailSays ==
  ASSUME NEW a \in Fold, NEW x, NEW r \in 0..MaxRuns
  PROVE  /\ x.quiet => Says(FailWrites(x, r), a, a)
         /\ ~x.quiet => Says(FailWrites(x, r), a, NothingRuns(a, "failed"))
<1>1. Says(<<WThen(Plain("failed"), r, "kill")>>, a, FoldChat(a, Plain("failed")))
  BY SaysPlain DEF Conts
<1>2. Says(<<WThen(Plain("failed"), r, "kill")>>, a, NothingRuns(a, "failed"))
  BY <1>1, PlainSays
<1> QED  BY <1>2, SaysNothing DEF FailWrites

\* The resolution of every request that is open.
LEMMA CancelOpenSays ==
  ASSUME NEW a \in Fold, NEW x \in RunRecord, NEW r \in 0..MaxRuns, NEW cont \in Conts \ {"hold", "call"},
         x.open = a.open \/ x.open = {}, NEW b, b = [a EXCEPT !.open = IF x.open = {} THEN @ ELSE {}]
  PROVE  Says(CancelOpenWrites(x, r, cont), a, b)
<1>1. CASE x.open = {}
  <2>1. b = a
    BY <1>1 DEF Fold
  <2> QED  BY <1>1, <2>1, SaysNothing DEF CancelOpenWrites
<1>2. CASE x.open # {}
  <2> DEFINE e == ResolvedEvent(x.open)
             w == WThen(e, r, cont)
  <2>1. e \in Event /\ e.kind = "resolved" /\ e.reqs = x.open
    BY EventType DEF RunRecord, ResolvedEvent, Plain
  <2>2. FoldChat(a, e) = [a EXCEPT !.open = a.open \ x.open]
    BY EventSays
  <2> HIDE DEF e
  <2>3. w \in Write /\ w.ev = e /\ w.cont = cont
    BY <2>1, WriteType DEF WThen
  <2>4. EventFits(a, e)
    BY <1>2, <2>1 DEF EventFits
  <2>5. FoldChat(a, e) = b
    <3>1. a.open \ x.open = {}
      BY <1>2
    <3> QED  BY <1>2, <2>2, <3>1
  <2> HIDE DEF w
  <2>6. Says(<<w>>, a, b)
    BY <2>1, <2>3, <2>4, <2>5, SaysOne
  <2> QED  BY <1>2, <2>6 DEF CancelOpenWrites, w, e
<1> QED  BY <1>1, <1>2

\* The background of a run that is not quiet.
LEMMA BackgroundSays ==
  ASSUME NEW a \in Fold, NEW x \in RunRecord, NEW r \in 0..MaxRuns, NEW job \in BOOLEAN, NEW own \in BOOLEAN,
         x.quiet \/ (a.job = x.job /\ a.own = x.own),
         NEW b, b = IF x.quiet THEN a ELSE [a EXCEPT !.job = job, !.own = own]
  PROVE  Says(SetBackgroundWrites(x, r, job, own), a, b)
<1>1. CASE x.quiet \/ (x.job = job /\ x.own = own)
  <2>1. b = a
    BY <1>1 DEF Fold
  <2> QED  BY <1>1, <2>1, SaysNothing DEF SetBackgroundWrites
<1>2. CASE ~(x.quiet \/ (x.job = job /\ x.own = own))
  <2> DEFINE e == BackgroundEvent(job, own)
             w == W(e, r)
  <2>1. e \in Event /\ e.kind = "background" /\ e.job = job /\ e.own = own
    BY EventType DEF BackgroundEvent, Plain
  <2> HIDE DEF e
  <2>2. FoldChat(a, e) = [a EXCEPT !.job = job, !.own = own]
    <3>1. FoldChat(a, BackgroundEvent(job, own)) = [a EXCEPT !.job = job, !.own = own]
      BY EventSays, Zenon
    <3> QED  BY <3>1, Zenon DEF e
  <2>6. FoldChat(a, e) = b
    BY <1>2, <2>2
  <2>3. w \in Write /\ w.ev = e /\ w.cont = "none"
    BY <2>1, WriteType DEF W
  <2>4. EventFits(a, e)
    BY <1>2, <2>1 DEF EventFits
  <2> HIDE DEF w
  <2>5. Says(<<w>>, a, b)
    BY <2>1, <2>3, <2>4, <2>6, SaysOne
  <2> QED  BY <1>2, <2>5 DEF SetBackgroundWrites, w, e
<1> QED  BY <1>1, <1>2

\* The end of a turn.
LEMMA EndTurnSays ==
  ASSUME NEW a \in Fold, NEW x \in RunRecord, NEW r \in 0..MaxRuns,
         x.quiet \/ (a.open = x.open /\ a.turn),
         NEW b, b = IF x.quiet THEN a ELSE [a EXCEPT !.turn = FALSE, !.open = {}]
  PROVE  Says(EndTurnWrites(x, r), a, b)
<1>1. CASE x.quiet
  BY <1>1, SaysNothing DEF EndTurnWrites
<1>2. CASE ~x.quiet
  <2> DEFINE kind == IF x.turnCancelled THEN "turn-cancelled" ELSE "turn-end"
             w == W(Plain(kind), r)
             c == [a EXCEPT !.open = IF x.open = {} THEN @ ELSE {}]
  <2>1. c \in Fold /\ c.turn
    BY <1>2 DEF Fold
  <2>2. Says(CancelOpenWrites(x, r, "none"), a, c)
    <3> HIDE DEF c
    <3>1. "none" \in Conts \ {"hold", "call"}
      BY DEF Conts
    <3> QED  BY <1>2, <3>1, CancelOpenSays DEF c
  <2>3. kind \in {"turn-end", "turn-cancelled"} /\ kind \in EventKinds
    BY DEF EventKinds
  <2>4. FoldChat(c, Plain(kind)) = [c EXCEPT !.turn = FALSE, !.open = {}]
    BY <2>1, PlainSays
  <2>5. [c EXCEPT !.turn = FALSE, !.open = {}] = b
    BY <1>2 DEF Fold
  <2> HIDE DEF kind, c
  <2>6. Plain(kind) \in Event /\ Plain(kind).kind = kind
    BY <2>3, EventType DEF Plain
  <2>7. w \in Write /\ w.ev = Plain(kind) /\ w.cont = "none"
    BY <2>6, WriteType DEF W
  <2>8. EventFits(c, Plain(kind))
    BY <2>1, <2>3, <2>6 DEF EventFits
  <2> HIDE DEF w
  <2>9. Says(<<w>>, c, b)
    BY <2>3, <2>4, <2>5, <2>6, <2>7, <2>8, SaysOne
  <2>10. Says(CancelOpenWrites(x, r, "none") \o <<w>>, a, b)
    BY <2>2, <2>9, SaysBoth
  <2> QED  BY <1>2, <2>10 DEF EndTurnWrites, w, kind
<1> QED  BY <1>1, <1>2

\* An update.
LEMMA WorkSays ==
  ASSUME NEW a \in Fold, NEW r \in 0..MaxRuns PROVE Says(WorkWrites(r), a, a)
<1>1. Says(<<W(Plain("work"), r)>>, a, FoldChat(a, Plain("work")))
  <2>1. "end" \in Conts \ {"hold", "call"}
    BY DEF Conts
  <2>2. /\ Says(<<WThen(Plain("work"), r, "end")>>, a, FoldChat(a, Plain("work")))
        /\ Says(<<W(Plain("work"), r)>>, a, FoldChat(a, Plain("work")))
    BY <2>1, SaysPlain
  <2> QED  BY <2>2
<1>2. Says(<<W(Plain("work"), r)>>, a, a)
  BY <1>1, PlainSays
<1> QED  BY <1>2, SaysNothing DEF WorkWrites

-----------------------------------------------------------------------------
(* The invariant. *)

\* A run that has not sent its first prompt, and one that nothing was written for yet.
InStart(x) == x.turning /\ (x.pickRelaunch \/ ~x.reaches)
Before == {"reopen", "interrupt"}
InTurn == {"prompt", "check"}

\* A run that writes nothing any more: it is quiet, or its exit was handled between two turns.
Mute(x) ==
  /\ x.open = {} /\ x.idle = "off"
  /\ x.quiet \/ (x.proc \in {"exited", "ended"} /\ x.handled /\ ~x.turning /\ ~x.job /\ ~x.own)

Mutes ==
  /\ \A r \in 1..used : r # cur => Mute(run[r])
  /\ cur # NoRun => ~run[cur].quiet

\* The current run, by itself.
Shape(x) ==
  /\ ~x.turning => x.reaches /\ ~x.pickRelaunch
  /\ x.pc \in InTurn => x.turning /\ x.reaches /\ ~x.pickRelaunch
  /\ x.pickRelaunch => x.held = <<>>
  /\ x.pickRelaunch /\ x.pc = "resumed" => x.reaches
  /\ x.pc \in Before \union {"resumed"} => x.pickRelaunch \/ x.held # <<>>
  /\ x.pc = "held" => ~x.pickRelaunch /\ x.held # <<>>
  /\ x.turning => x.marker # "on" /\ x.stopper # "on"
  /\ InStart(x) => ~x.job /\ ~x.own
  /\ x.pc \in Before => x.reopened = "wait" /\ InStart(x) /\ x.open = {}
  /\ x.reopened # "failed"

\* What the log says once all is written is what the current run has in mind.
Mirrors(x, a) ==
  /\ IF x.pc = "reopen" THEN ~AgentActive(a)
     ELSE a.open = x.open /\ a.job = x.job /\ a.own = x.own
  /\ ~x.turning \/ x.pickRelaunch \/ x.pc = "interrupt" => ~a.turn
  /\ x.pc \in InTurn => a.turn

\* A message that joined a start began its turn, unless a pick began that start.
StartShows(x, a, calls) ==
  x.turning /\ ~x.pickRelaunch /\ x.pc \notin Before
    /\ (x.held = <<>> \/ \E i \in 1..Len(x.held) : calls[x.held[i]].st \in {"write", "done"})
  => a.turn

\* An adapter that reports no background commands has no background and no check of it.
NoBackground(x) == ~x.job /\ ~x.own /\ x.marker # "on" /\ x.stopper # "on"

LogOf(x, a, calls) ==
  /\ Shape(x) /\ Mirrors(x, a) /\ StartShows(x, a, calls)
  /\ ~HasBackground => NoBackground(x)

LogFits ==
  IF cur = NoRun THEN ~AgentActive(AllWritten) ELSE LogOf(run[cur], AllWritten, msg)

\* A message in a start that goes on belongs to it, once, in the order of the calls.
HeldFits(r, i) ==
  LET x == run[r]
      m == msg[x.held[i]] IN
  /\ m.run = r /\ m.st \in {"wait", "write", "done", "refused"}
  /\ m.st \in {"wait", "write"} => InStart(x) /\ ~x.pickRelaunch
  /\ m.st = "refused" => stopping
  /\ m.st = "write" => \A j \in 1..(i - 1) : Settled(x.held[j])
  /\ x.pc \in Before => m.st = "wait"
  /\ \A j \in 1..(i - 1) : x.held[j] # x.held[i]

HeldsFit == \A r \in 1..used : ~run[r].quiet => \A i \in 1..Len(run[r].held) : HeldFits(r, i)

\* The write of a message finds its call, and each message has one write.
IsCall(w) == w.cont \in {"call", "hold"}
CallFits(w, calls) ==
  /\ w.ev.kind = "user" => IsCall(w)
  /\ w.cont = "call" => w.ev.text # <<>> /\ calls[w.ev.text[1]].st = "call"
  /\ w.cont = "hold" => calls[w.ev.text[1]].st = "write"
CallsFit ==
  /\ \A n \in 1..Len(writes) : CallFits(writes[n], msg)
  /\ \A m, n \in 1..Len(writes) : m # n /\ IsCall(writes[m]) /\ IsCall(writes[n]) =>
        writes[m].ev.text[1] # writes[n].ev.text[1]

\* The messages that wait to be written in a start are its own.
HeldUser(x, w) ==
  w.ev.kind = "user" => w.cont = "hold" /\ \E i \in 1..Len(x.held) : x.held[i] = w.ev.text[1]
ReopenLast(r, k) ==
  /\ writes[k].cont = "reopen" /\ writes[k].by = r
  /\ \A n \in 1..Len(writes) : n > k => writes[n].ev.kind # "user"
UsersFit ==
  cur # NoRun /\ InStart(run[cur]) =>
    /\ run[cur].pc = "interrupt" => \E k \in 1..Len(writes) : ReopenLast(cur, k)
    /\ run[cur].pc \notin Before => \A n \in 1..Len(writes) : HeldUser(run[cur], writes[n])

NoFaults ==
  /\ \A r \in Runs : run[r].pc # "halted"
  /\ \A t \in Texts : msg[t].st # "halt"
  /\ end.st # "fails"

QueueFits == Fitting(fold, writes)

MirrorInv == Mutes /\ LogFits /\ HeldsFit /\ CallsFit /\ UsersFit /\ NoFaults /\ QueueFits

\* Until a write fails.
LogInv == ~faulted => MirrorInv

-----------------------------------------------------------------------------
(* What a step does to the queue and to the messages. *)

\* It calls writes of no message, which take the state of the chat to b.
Calls(b) == fold' = fold /\ \E s : writes' = writes \o s /\ Says(s, AllWritten, b)

\* A message that is in no start that goes on, and has no write.
Free(t) ==
  /\ msg[t].st \notin {"write", "call"}
  /\ \A r \in 1..used : ~run[r].quiet => \A i \in 1..Len(run[r].held) : run[r].held[i] # t

\* A message that a step may change: it has no write, and is in no start that goes on after it.
Frees(t) ==
  /\ msg[t].st \notin {"write", "call"}
  /\ \A r \in 1..used : ~run[r].quiet /\ ~run'[r].quiet =>
        \A i \in 1..Len(run[r].held) : run[r].held[i] # t
MsgKept == \A t \in Texts : msg'[t] = msg[t] \/ (Frees(t) /\ msg'[t].st # "halt")

QueueGrows ==
  /\ Len(writes) <= Len(writes')
  /\ \A n \in 1..Len(writes') :
       IF n <= Len(writes) THEN writes'[n] = writes[n]
       ELSE writes'[n].ev.kind # "user" /\ ~IsCall(writes'[n])

\* What a step leaves that takes no part in the log.
Aloof ==
  /\ used' = used /\ (stopping => stopping') /\ left'["background"] = left["background"]
  /\ end'.st # "fails"

\* The types of the state, of the queue and of what it ends in.
LEMMA LogTyped ==
  ASSUME TypeInv PROVE fold \in Fold /\ writes \in Seq(Write) /\ Len(writes) \in Nat /\ AllWritten \in Fold
<1>1. fold \in Fold /\ writes \in Seq(Write)
  BY DEF TypeInv, TypeOK
<1>2. AllWritten \in Fold
  BY <1>1, WrittenType, WrittenIs
<1> QED  BY <1>1, <1>2

\* What a step calls goes to the end of the queue, and fits there.
LEMMA CallsGrow ==
  ASSUME TypeInv, QueueFits, NEW b, Calls(b)
  PROVE  QueueGrows /\ QueueFits' /\ AllWritten' = b
<1>1. PICK s : writes' = writes \o s /\ Says(s, AllWritten, b)
  BY DEF Calls
<1>2. fold' = fold
  BY DEF Calls
<1>3. fold \in Fold /\ writes \in Seq(Write) /\ Len(writes) \in Nat
  BY LogTyped
<1>4. Fitting(fold, writes \o s) /\ Written(fold, writes \o s) = b
  BY <1>1, <1>3, WrittenIs DEF Says, QueueFits
<1>5. QueueFits' /\ AllWritten' = b
  <2>1. QueueFits' <=> Fitting(fold', writes')
    BY DEF QueueFits
  <2>2. AllWritten' = Written(fold', writes')
    BY DEF AllWritten, Written
  <2> QED  BY <1>1, <1>2, <1>4, <2>1, <2>2
<1>6. QueueGrows
  <2>1. s \in Seq(Write) /\ Len(s) \in Nat
    BY <1>1 DEF Says
  <2>2. Len(writes') = Len(writes) + Len(s)
    BY <1>1, <1>3, <2>1
  <2>3. ASSUME NEW n \in 1..Len(writes'), n <= Len(writes) PROVE writes'[n] = writes[n]
    BY <1>1, <1>3, <2>1, <2>2, <2>3
  <2>4. ASSUME NEW n \in 1..Len(writes'), ~(n <= Len(writes))
        PROVE  writes'[n].ev.kind # "user" /\ ~IsCall(writes'[n])
    <3>1. n - Len(writes) \in 1..Len(s) /\ writes'[n] = s[n - Len(writes)]
      BY <1>1, <1>3, <2>1, <2>2, <2>4
    <3> QED  BY <1>1, <3>1 DEF Says, IsCall
  <2>5. Len(writes) <= Len(writes')
    BY <1>3, <2>1, <2>2
  <2> QED  BY <2>3, <2>4, <2>5 DEF QueueGrows
<1> QED  BY <1>5, <1>6

\* A step that leaves the calls of the messages that are being written.
CallsStay == \A t \in Texts : msg[t].st \in {"write", "call"} => msg'[t].st = msg[t].st

\* The calls of the messages fit on while the queue grows by other writes.
LEMMA CallsFitOn ==
  ASSUME TypeInv, TypeInv', CallsFit, QueueGrows, CallsStay PROVE CallsFit'
<1>1. writes \in Seq(Write) /\ Len(writes) \in Nat
  BY LogTyped
<1>2. writes' \in Seq(Write) /\ Len(writes') \in Nat
  BY DEF TypeInv, TypeOK
<1>3. ASSUME NEW n \in 1..Len(writes')
      PROVE  \/ n \in 1..Len(writes) /\ writes'[n] = writes[n]
             \/ writes'[n].ev.kind # "user" /\ ~IsCall(writes'[n])
  BY <1>1, <1>2 DEF QueueGrows
<1>4. ASSUME NEW n \in 1..Len(writes), IsCall(writes[n])
      PROVE  msg'[writes[n].ev.text[1]].st = msg[writes[n].ev.text[1]].st
  <2> DEFINE w == writes[n]
             t == w.ev.text[1]
  <2>1. w \in Write
    BY <1>1
  <2>2. w.ev.text \in Seq(Texts) /\ w.ev.text # <<>>
    BY <1>4, <2>1 DEF CallsFit, CallFits, IsCall, Write, Event
  <2>3. t \in Texts
    BY <2>2
  <2>4. msg[t].st \in {"write", "call"}
    BY <1>4 DEF CallsFit, CallFits, IsCall
  <2> QED  BY <2>3, <2>4 DEF CallsStay
<1>5. \A n \in 1..Len(writes') : CallFits(writes'[n], msg')
  <2> SUFFICES ASSUME NEW n \in 1..Len(writes') PROVE CallFits(writes'[n], msg')
    OBVIOUS
  <2>1. CASE n \in 1..Len(writes) /\ writes'[n] = writes[n]
    <3>1. CallFits(writes[n], msg)
      BY <2>1 DEF CallsFit
    <3>2. CASE IsCall(writes[n])
      BY <1>4, <2>1, <3>1, <3>2 DEF CallFits, IsCall
    <3>3. CASE ~IsCall(writes[n])
      BY <2>1, <3>1, <3>3 DEF CallFits, IsCall
    <3> QED  BY <3>2, <3>3
  <2>2. CASE writes'[n].ev.kind # "user" /\ ~IsCall(writes'[n])
    BY <2>2 DEF CallFits, IsCall
  <2> QED  BY <1>3, <2>1, <2>2
<1>6. ASSUME NEW m \in 1..Len(writes'), NEW n \in 1..Len(writes'), m # n,
             IsCall(writes'[m]), IsCall(writes'[n])
      PROVE  writes'[m].ev.text[1] # writes'[n].ev.text[1]
  <2>1. /\ m \in 1..Len(writes) /\ writes'[m] = writes[m]
        /\ n \in 1..Len(writes) /\ writes'[n] = writes[n]
    BY <1>3, <1>6
  <2> QED  BY <1>6, <2>1 DEF CallsFit
<1> QED  BY <1>5, <1>6 DEF CallsFit

\* The same, for a step that changes no message that is being written.
LEMMA CallsKeep ==
  ASSUME TypeInv, TypeInv', CallsFit, QueueGrows, MsgKept PROVE CallsFit'
<1>1. CallsStay
  BY DEF CallsStay, MsgKept, Frees
<1> QED  BY <1>1, CallsFitOn

\* A step of the current run that goes on in its start, or out of it.
StartGoesOn(x, y) ==
  InStart(y) =>
    /\ InStart(x) /\ y.held = x.held
    /\ y.pc = "interrupt" => x.pc = "interrupt"
    /\ y.pc \in Before \/ x.pc \notin Before

\* A start that goes on keeps the writes of its messages.
LEMMA UsersKeep ==
  ASSUME TypeInv, TypeInv', UsersFit, QueueGrows, cur' = cur \/ cur' = NoRun,
         cur' # NoRun => StartGoesOn(run[cur], run'[cur])
  PROVE  UsersFit'
<1>1. Len(writes) \in Nat /\ Len(writes') \in Nat
  BY DEF TypeInv, TypeOK
<1>2. ASSUME NEW n \in 1..Len(writes')
      PROVE  \/ n \in 1..Len(writes) /\ writes'[n] = writes[n]
             \/ writes'[n].ev.kind # "user"
  BY <1>1 DEF QueueGrows
<1>3. \A n \in 1..Len(writes) : n \in 1..Len(writes') /\ writes'[n] = writes[n]
  BY <1>1 DEF QueueGrows
<1> SUFFICES ASSUME cur' # NoRun, InStart(run'[cur])
             PROVE  /\ run'[cur].pc = "interrupt" => \E k \in 1..Len(writes') : ReopenLast(cur, k)'
                    /\ run'[cur].pc \notin Before =>
                         \A n \in 1..Len(writes') : HeldUser(run'[cur], writes'[n])
  BY DEF UsersFit
<1>4. StartGoesOn(run[cur], run'[cur]) /\ cur' = cur
  OBVIOUS
<1>5. ASSUME run'[cur].pc = "interrupt" PROVE \E k \in 1..Len(writes') : ReopenLast(cur, k)'
  <2>1. PICK k \in 1..Len(writes) : ReopenLast(cur, k)
    BY <1>4, <1>5 DEF StartGoesOn, UsersFit
  <2>2. k \in 1..Len(writes')
    BY <1>3
  <2>3. writes'[k].cont = "reopen" /\ writes'[k].by = cur
    BY <1>3, <2>1 DEF ReopenLast
  <2>4. \A n \in 1..Len(writes') : n > k => writes'[n].ev.kind # "user"
    BY <1>2, <2>1 DEF ReopenLast
  <2>5. ReopenLast(cur, k)'
    BY <1>4, <2>3, <2>4 DEF ReopenLast
  <2> QED  BY <2>2, <2>5
<1>6. ASSUME run'[cur].pc \notin Before, NEW n \in 1..Len(writes')
      PROVE  HeldUser(run'[cur], writes'[n])
  <2>1. run[cur].pc \notin Before /\ InStart(run[cur]) /\ run'[cur].held = run[cur].held
    BY <1>4, <1>6 DEF StartGoesOn
  <2>2. \A m \in 1..Len(writes) : HeldUser(run[cur], writes[m])
    BY <1>4, <2>1 DEF UsersFit
  <2> QED  BY <1>2, <2>1, <2>2 DEF HeldUser
<1> QED  BY <1>5, <1>6

\* What a step does to a run whose messages are still its own.
HeldGoesOn(r) ==
  LET x == run[r]
      y == run'[r] IN
  ~y.quiet =>
    /\ ~x.quiet /\ y.held = x.held
    /\ y.pc \in Before => x.pc \in Before
    /\ InStart(x) /\ ~x.pickRelaunch => (InStart(y) /\ ~y.pickRelaunch) \/ HeldSettled(r)

\* A message of a start that goes on fits on.
LEMMA HeldKeeps ==
  ASSUME TypeInv, HeldsFit, MsgKept, stopping => stopping', NEW r \in 1..used, HeldGoesOn(r),
         ~run'[r].quiet, NEW i \in 1..Len(run'[r].held)
  PROVE  HeldFits(r, i)'
<1> DEFINE x == run[r]
           y == run'[r]
<1>1. /\ ~x.quiet /\ y.held = x.held
      /\ y.pc \in Before => x.pc \in Before
      /\ InStart(x) /\ ~x.pickRelaunch => (InStart(y) /\ ~y.pickRelaunch) \/ HeldSettled(r)
  BY DEF HeldGoesOn
<1>2. x \in RunRecord
  BY Registry DEF TypeInv
<1>3. x.held \in Seq(Texts) /\ \A j \in 1..Len(x.held) : x.held[j] \in Texts
  BY <1>2 DEF RunRecord
<1>4. \A j \in 1..Len(x.held) : msg'[x.held[j]] = msg[x.held[j]]
  BY <1>1, <1>3 DEF MsgKept, Frees
<1>5. i \in 1..Len(x.held)
  BY <1>1
<1>6. HeldFits(r, i)
  BY <1>1, <1>5 DEF HeldsFit
<1> PICK t : t = x.held[i]
  OBVIOUS
<1>7. msg'[t] = msg[t] /\ run'[r].held[i] = t /\ run[r].held[i] = t
  BY <1>1, <1>4, <1>5
<1>8. /\ msg[t].run = r /\ msg[t].st \in {"wait", "write", "done", "refused"}
      /\ msg[t].st \in {"wait", "write"} => InStart(x) /\ ~x.pickRelaunch
      /\ msg[t].st = "refused" => stopping
      /\ msg[t].st = "write" => \A j \in 1..(i - 1) : Settled(x.held[j])
      /\ x.pc \in Before => msg[t].st = "wait"
      /\ \A j \in 1..(i - 1) : x.held[j] # t
  BY <1>6, <1>7 DEF HeldFits
<1>9. HeldSettled(r) => msg[t].st \in {"done", "refused"}
  <2>1. DOMAIN x.held = 1..Len(x.held)
    BY <1>3
  <2> QED  BY <1>5, <1>7, <2>1 DEF HeldSettled, Settled
<1>10. \A j \in 1..(i - 1) :
         Settled(x.held[j]) => msg'[run'[r].held[j]].st \in {"done", "refused"}
  <2>1. \A j \in 1..(i - 1) : j \in 1..Len(x.held)
    BY <1>3, <1>5
  <2> QED  BY <1>1, <1>4, <2>1 DEF Settled
<1>11. /\ msg'[t].run = r /\ msg'[t].st \in {"wait", "write", "done", "refused"}
       /\ msg'[t].st \in {"wait", "write"} => InStart(y) /\ ~y.pickRelaunch
       /\ msg'[t].st = "refused" => stopping'
       /\ y.pc \in Before => msg'[t].st = "wait"
  BY <1>1, <1>7, <1>8, <1>9
<1>12. msg'[t].st = "write" =>
         \A j \in 1..(i - 1) : msg'[run'[r].held[j]].st \in {"done", "refused"}
  BY <1>7, <1>8, <1>10
<1>14. \A j \in 1..(i - 1) : run'[r].held[j] # t
  BY <1>1, <1>8
<1> HIDE DEF x, y
<1>13. /\ msg'[t].run = r /\ msg'[t].st \in {"wait", "write", "done", "refused"}
       /\ msg'[t].st \in {"wait", "write"} => InStart(run'[r]) /\ ~run'[r].pickRelaunch
       /\ msg'[t].st = "refused" => stopping'
       /\ run'[r].pc \in Before => msg'[t].st = "wait"
  BY <1>11 DEF y
<1> QED  BY <1>7, <1>12, <1>13, <1>14 DEF HeldFits, Settled

\* So do all of them.
LEMMA HeldsKeep ==
  ASSUME TypeInv, HeldsFit, MsgKept, used' = used, stopping => stopping',
         \A r \in 1..used : HeldGoesOn(r)
  PROVE  HeldsFit'
<1> SUFFICES ASSUME NEW r \in 1..used, ~run'[r].quiet, NEW i \in 1..Len(run'[r].held)
             PROVE  HeldFits(r, i)'
  BY DEF HeldsFit
<1> QED  BY HeldKeeps

-----------------------------------------------------------------------------
(* Steps of one run, by what they leave of the invariant. *)

\* A step that sets one run leaves the others.
LEMMA RunGiven ==
  ASSUME TypeInv, NEW r \in 1..used, NEW y, run' = [run EXCEPT ![r] = y]
  PROVE  run'[r] = y /\ \A s \in Runs : s # r => run'[s] = run[s]
  BY Registry DEF TypeInv, TypeOK

\* A run that leaves the chat, or has left it: it writes nothing any more.
StaysOut(x, y) == y.quiet \/ (~x.quiet /\ y.held = x.held /\ y.pc \notin Before /\ ~x.turning)
Leaves(x, y) == Mute(y) /\ y.pc # "halted" /\ StaysOut(x, y)

\* Without a failed write nothing comes to wait for a halt.
LEMMA NoFaultsKeep ==
  ASSUME TypeInv, NoFaults, MsgKept, Aloof, \A r \in Runs : run'[r].pc # "halted" PROVE NoFaults'
<1>1. \A t \in Texts : msg'[t].st # "halt"
  BY DEF NoFaults, MsgKept
<1> QED  BY <1>1 DEF NoFaults, Aloof

\* What a message in a start shows stays, if the step takes no part in it.
LEMMA LogStays ==
  ASSUME TypeInv, NEW r \in 1..used, ~run[r].quiet, ~run'[r].quiet, MsgKept, Aloof,
         NEW y, y.held = run[r].held,
         NEW b, LogOf(y, b, msg)
  PROVE  Shape(y) /\ Mirrors(y, b) /\ StartShows(y, b, msg') /\ (~HasBackground' => NoBackground(y))
<1>1. run[r].held \in Seq(Texts)
  BY Registry DEF TypeInv, RunRecord
<1>2. \A i \in 1..Len(y.held) : msg'[y.held[i]] = msg[y.held[i]]
  BY <1>1 DEF MsgKept, Frees
<1>3. HasBackground' <=> HasBackground
  BY DEF HasBackground, Aloof
<1> QED  BY <1>2, <1>3 DEF LogOf, StartShows

\* A step with which a run leaves the chat keeps the invariant, if the log ends at rest.
LEMMA LeaveHolds ==
  ASSUME TypeInv, TypeInv', MirrorInv, NEW r \in 1..used, NEW y, run' = [run EXCEPT ![r] = y],
         cur' = IF cur = r THEN NoRun ELSE cur, NEW b, Calls(b), MsgKept, Aloof,
         Leaves(run[r], y), IF cur = r THEN ~AgentActive(b) ELSE b = AllWritten
  PROVE  MirrorInv'
<1>1. run'[r] = y /\ \A s \in Runs : s # r => run'[s] = run[s]
  BY RunGiven
<1>2. /\ \A s \in 1..used : s \in Runs /\ run[s] \in RunRecord
      /\ cur # NoRun => cur \in 1..used
      /\ NoRun \notin 1..used
  BY Registry DEF TypeInv, NoRun
<1>3. used' = used /\ (stopping => stopping')
  BY DEF Aloof
<1>4. QueueGrows /\ QueueFits' /\ AllWritten' = b
  BY CallsGrow DEF MirrorInv
<1>5. Mutes'
  <2>1. ASSUME NEW s \in 1..used, s # cur' PROVE Mute(run'[s])
    <3>1. CASE s = r
      BY <1>1, <3>1 DEF Leaves
    <3>2. CASE s # r
      BY <1>1, <1>2, <2>1, <3>2 DEF MirrorInv, Mutes
    <3> QED  BY <3>1, <3>2
  <2>2. cur' # NoRun => ~run'[cur'].quiet
    BY <1>1, <1>2 DEF MirrorInv, Mutes
  <2> QED  BY <1>3, <2>1, <2>2 DEF Mutes
<1>6. LogFits'
  <2>1. CASE cur = r
    <3>1. cur' = NoRun
      BY <2>1
    <3> QED  BY <1>4, <2>1, <3>1 DEF LogFits
  <2>2. CASE cur # r /\ cur = NoRun
    BY <1>4, <2>2 DEF LogFits, MirrorInv
  <2>3. CASE cur # r /\ cur # NoRun
    <3>1. cur' = cur /\ run'[cur] = run[cur] /\ ~run[cur].quiet /\ cur \in 1..used
      BY <1>1, <1>2, <2>3 DEF MirrorInv, Mutes
    <3>2. LogOf(run[cur], AllWritten, msg)
      BY <2>3 DEF MirrorInv, LogFits
    <3>3. /\ Shape(run[cur]) /\ Mirrors(run[cur], AllWritten) /\ StartShows(run[cur], AllWritten, msg')
          /\ ~HasBackground' => NoBackground(run[cur])
      BY <3>1, <3>2, LogStays
    <3>4. LogOf(run[cur], AllWritten, msg)'
      BY <1>4, <2>3, <3>1, <3>3 DEF LogOf
    <3> QED  BY <2>3, <3>1, <3>4 DEF LogFits
  <2> QED  BY <2>1, <2>2, <2>3
<1>7. HeldsFit'
  <2>1. ASSUME NEW s \in 1..used PROVE HeldGoesOn(s)
    <3>1. CASE s = r
      BY <1>1, <3>1 DEF HeldGoesOn, Leaves, StaysOut, InStart
    <3>2. CASE s # r
      BY <1>1, <1>2, <3>2 DEF HeldGoesOn
    <3> QED  BY <3>1, <3>2
  <2> QED  BY <1>3, <2>1, HeldsKeep DEF MirrorInv
<1>8. CallsFit'
  BY <1>4, CallsKeep DEF MirrorInv
<1>9. UsersFit'
  <2>1. cur' # NoRun => StartGoesOn(run[cur], run'[cur])
    BY <1>1, <1>2 DEF StartGoesOn
  <2> QED  BY <1>4, <2>1, UsersKeep DEF MirrorInv
<1>10. NoFaults'
  <2>1. \A s \in Runs : run'[s].pc # "halted"
    BY <1>1 DEF MirrorInv, NoFaults, Leaves
  <2> QED  BY <2>1, NoFaultsKeep DEF MirrorInv
<1> QED  BY <1>4, <1>5, <1>6, <1>7, <1>8, <1>9, <1>10 DEF MirrorInv

\* What the current run keeps while it stays the one of the chat.
GoesOn(x, y) ==
  /\ ~y.quiet /\ y.held = x.held /\ y.pc # "halted"
  /\ y.pc \in Before => x.pc \in Before
StaysOwn(r, y) == InStart(run[r]) /\ ~run[r].pickRelaunch => (InStart(y) /\ ~y.pickRelaunch) \/ HeldSettled(r)

\* All but the writes of messages.
CurParts == Mutes' /\ LogFits' /\ HeldsFit' /\ CallsFit' /\ NoFaults' /\ QueueFits'

\* A step with which the current run goes on keeps all parts but one.
LEMMA CurKeeps ==
  ASSUME TypeInv, TypeInv', MirrorInv, cur # NoRun, NEW y, run' = [run EXCEPT ![cur] = y],
         cur' = cur, NEW b, Calls(b), MsgKept, Aloof,
         GoesOn(run[cur], y), StaysOwn(cur, y), LogOf(y, b, msg)
  PROVE  CurParts /\ QueueGrows
<1>0. cur \in 1..used /\ \A s \in 1..used : s \in Runs
  BY Registry DEF TypeInv
<1>1. run'[cur] = y /\ \A s \in Runs : s # cur => run'[s] = run[s]
  BY <1>0, RunGiven
<1>3. used' = used /\ (stopping => stopping')
  BY DEF Aloof
<1>4. QueueGrows /\ QueueFits' /\ AllWritten' = b
  BY CallsGrow DEF MirrorInv
<1>5. Mutes'
  BY <1>0, <1>1, <1>3 DEF MirrorInv, Mutes, GoesOn
<1>6. LogFits'
  <2>1. ~run[cur].quiet /\ y.held = run[cur].held /\ ~run'[cur].quiet
    BY <1>1 DEF MirrorInv, Mutes, GoesOn
  <2>2. /\ Shape(y) /\ Mirrors(y, b) /\ StartShows(y, b, msg')
        /\ ~HasBackground' => NoBackground(y)
    BY <1>0, <2>1, LogStays
  <2>3. LogOf(run[cur], AllWritten, msg)'
    BY <1>1, <1>4, <2>2 DEF LogOf
  <2> QED  BY <2>3 DEF LogFits
<1>7. HeldsFit'
  <2>1. ASSUME NEW s \in 1..used PROVE HeldGoesOn(s)
    <3>1. CASE s = cur
      BY <1>1, <3>1 DEF HeldGoesOn, GoesOn, StaysOwn, MirrorInv, Mutes
    <3>2. CASE s # cur
      BY <1>0, <1>1, <3>2 DEF HeldGoesOn
    <3> QED  BY <3>1, <3>2
  <2> QED  BY <1>3, <2>1, HeldsKeep DEF MirrorInv
<1>8. CallsFit'
  BY <1>4, CallsKeep DEF MirrorInv
<1>10. NoFaults'
  <2>1. \A s \in Runs : run'[s].pc # "halted"
    BY <1>1 DEF MirrorInv, NoFaults, GoesOn
  <2> QED  BY <2>1, NoFaultsKeep DEF MirrorInv
<1> QED  BY <1>4, <1>5, <1>6, <1>7, <1>8, <1>10 DEF CurParts

\* It keeps the invariant, if its start goes on as well.
LEMMA CurHolds ==
  ASSUME TypeInv, TypeInv', MirrorInv, cur # NoRun, NEW y, run' = [run EXCEPT ![cur] = y],
         cur' = cur, NEW b, Calls(b), MsgKept, Aloof,
         GoesOn(run[cur], y), StaysOwn(cur, y), StartGoesOn(run[cur], y), LogOf(y, b, msg)
  PROVE  MirrorInv'
<1>1. CurParts /\ QueueGrows
  BY CurKeeps
<1>2. run'[cur] = y
  BY RunGiven, Registry DEF TypeInv
<1>3. UsersFit'
  <2>1. cur' # NoRun => StartGoesOn(run[cur], run'[cur])
    BY <1>2
  <2> QED  BY <1>1, <2>1, UsersKeep DEF MirrorInv
<1> QED  BY <1>1, <1>3 DEF MirrorInv, CurParts

\* A step of a run that changes nothing of what it writes or of its turn.
PlaceEases(p, q) ==
  /\ q \in Before \union {"resumed", "held"} \/ p \in Before => q = p
  /\ q \in InTurn => p \in InTurn
  /\ q # "halted"
Eases(x, y) ==
  /\ y.quiet = x.quiet /\ y.turning = x.turning /\ y.reaches = x.reaches
  /\ y.pickRelaunch = x.pickRelaunch /\ y.held = x.held /\ y.reopened = x.reopened
  /\ y.open = x.open /\ y.job = x.job /\ y.own = x.own
  /\ y.marker = "on" => x.marker = "on" \/ (~x.turning /\ HasBackground)
  /\ y.stopper = "on" => x.stopper = "on" \/ (~x.turning /\ HasBackground)
  /\ Mute(x) => Mute(y)
  /\ PlaceEases(x.pc, y.pc)

\* What the log says of a run that such a step changes.
LEMMA EaseLog ==
  ASSUME NEW x, NEW y, Eases(x, y), NEW a, LogOf(x, a, msg) PROVE LogOf(y, a, msg)
<1>1. Shape(y)
  BY DEF Shape, LogOf, Eases, PlaceEases, InStart, Before, InTurn
<1>2. Mirrors(y, a)
  BY DEF Mirrors, LogOf, Eases, PlaceEases, Before, InTurn
<1>3. StartShows(y, a, msg)
  BY DEF StartShows, LogOf, Eases, PlaceEases, Before
<1> QED  BY <1>1, <1>2, <1>3 DEF LogOf, Eases, NoBackground

\* A step that changes nothing of what a run writes or of its turn keeps the invariant.
LEMMA EaseHolds ==
  ASSUME TypeInv, TypeInv', PlaceInv, MirrorInv, NEW r \in 1..used, NEW y, run' = [run EXCEPT ![r] = y],
         cur' = cur, Calls(AllWritten), MsgKept, Aloof, Eases(run[r], y)
  PROVE  MirrorInv'
<1>1. CASE r = cur
  <2>1. cur # NoRun
    BY <1>1, Registry DEF TypeInv, NoRun
  <2>2. LogOf(y, AllWritten, msg)
    BY <1>1, <2>1, EaseLog DEF MirrorInv, LogFits
  <2>3. GoesOn(run[cur], y)
    BY <1>1, <2>1 DEF GoesOn, Eases, PlaceEases, MirrorInv, Mutes, Before
  <2>4. StaysOwn(cur, y) /\ StartGoesOn(run[cur], y)
    BY <1>1 DEF StaysOwn, StartGoesOn, Eases, PlaceEases, InStart, Before
  <2> QED  BY <1>1, <2>1, <2>2, <2>3, <2>4, CurHolds
<1>2. CASE r # cur
  <2>1. Mute(run[r])
    BY <1>2 DEF MirrorInv, Mutes
  <2>2. Leaves(run[r], y)
    <3>1. ~run[r].quiet => ~run[r].turning /\ run[r].pc \notin Before
      BY <2>1 DEF Mute, PlaceInv, TurnsFit, TurnFits, Before
    <3> QED  BY <2>1, <3>1 DEF Leaves, StaysOut, Eases, PlaceEases
  <2> QED  BY <1>2, <2>2, LeaveHolds
<1> QED  BY <1>1, <1>2

-----------------------------------------------------------------------------
(* The steps that take no part in the log. *)

\* A step that calls no write.
LEMMA CallsNothing == ASSUME TypeInv, fold' = fold, writes' = writes PROVE Calls(AllWritten)
<1>1. writes \in Seq(Write)
  BY LogTyped
<1>2. writes' = writes \o <<>>
  BY <1>1
<1> QED  BY <1>2, SaysNothing DEF Calls

\* A step that calls a sequence of writes.
LEMMA CallsSays ==
  ASSUME fold' = fold, NEW s, writes' = writes \o s, NEW b, Says(s, AllWritten, b) PROVE Calls(b)
  BY DEF Calls

\* A step that calls one write.
LEMMA CallsOne ==
  ASSUME TypeInv, fold' = fold, NEW w, writes' = Append(writes, w), NEW b, Says(<<w>>, AllWritten, b)
  PROVE  Calls(b)
<1>1. writes \in Seq(Write)
  BY LogTyped
<1>2. writes' = writes \o <<w>>
  BY <1>1
<1> QED  BY <1>2, CallsSays

\* A step of no message, that stops, ends and registers nothing.
Spends == \E what \in Bounded \ {"background"} : Spend(what)
Rests == used' = used /\ stopping' = stopping /\ end' = end /\ msg' = msg /\ (left' = left \/ Spends)

\* A budget that is not the background leaves it.
LEMMA LeftSpends ==
  ASSUME TypeInv, left' = left \/ Spends PROVE left'["background"] = left["background"]
<1>1. CASE left' = left
  BY <1>1
<1>2. CASE Spends
  <2>1. PICK what \in Bounded \ {"background"} : Spend(what)
    BY <1>2 DEF Spends
  <2>2. left' = [left EXCEPT ![what] = @ - 1] /\ what # "background"
    BY <2>1 DEF Spend
  <2>3. left \in [Bounded -> Nat] /\ "background" \in Bounded
    BY DEF TypeInv, TypeOK, Bounded
  <2> QED  BY <2>2, <2>3
<1> QED  BY <1>1, <1>2

\* A step that only spends takes no part in the log.
LEMMA RestsAloof == ASSUME TypeInv, MirrorInv, Rests PROVE Aloof /\ MsgKept
<1>1. left'["background"] = left["background"]
  BY LeftSpends DEF Rests
<1> QED  BY <1>1 DEF Rests, Aloof, MsgKept, MirrorInv, NoFaults

\* Such a step with no write, of one run, keeps the invariant.
LEMMA EaseStep ==
  ASSUME TypeInv, TypeInv', PlaceInv, MirrorInv, Rests, UNCHANGED <<fold, writes, cur>>,
         NEW r \in 1..used, NEW y, run' = [run EXCEPT ![r] = y], Eases(run[r], y)
  PROVE  MirrorInv'
<1>1. Aloof /\ MsgKept
  BY RestsAloof
<1>2. Calls(AllWritten)
  BY CallsNothing
<1> QED  BY <1>1, <1>2, EaseHolds

\* What such a step may do to the record of a run.
LEMMA TouchEases == ASSUME NEW x \in RunRecord, x.pc # "halted" PROVE Eases(x, Touch(x))
<1>1. CASE x.idle = "check"
  <2>1. Touch(x) = [x EXCEPT !.idle = "stale"]
    BY <1>1 DEF Touch
  <2> QED  BY <1>1, <2>1 DEF Eases, PlaceEases, Mute, RunRecord
<1>2. CASE x.idle # "check"
  BY <1>2 DEF Touch, Eases, PlaceEases, RunRecord
<1> QED  BY <1>1, <1>2

\* A run that only goes on to another place.
LEMMA PlaceEase ==
  ASSUME NEW x \in RunRecord, NEW p, PlaceEases(x.pc, p) PROVE Eases(x, [x EXCEPT !.pc = p])
  BY DEF Eases, Mute, RunRecord

\* A run that is not quiet and has a turn, or waits at its agent, is not out of the chat.
LEMMA NotMute ==
  ASSUME NEW x, ~x.quiet, x.turning \/ x.proc \notin {"exited", "ended"} PROVE ~Mute(x)
  BY DEF Mute

\* A start, from the launch to its options.
LEMMA StartEases ==
  ASSUME TypeInv, TypeInv', PlaceInv, StartInv, MirrorInv, NEW r \in 1..used,
         \/ LaunchOver(r) \/ Spawn(r) \/ Initialized(r) \/ SessionResumed(r)
         \/ OptionSent(r) \/ OptionAnswered(r) \/ OptionsQuiet(r)
  PROVE  MirrorInv'
<1> DEFINE x == run[r]
<1>0. x \in RunRecord /\ r \in Runs
  BY Registry DEF TypeInv
<1>1. UNCHANGED <<fold, writes, cur>> /\ Rests
  BY DEF LaunchOver, Spawn, Initialized, SessionResumed, OptionSent, OptionAnswered, OptionsQuiet,
         Rests, chat, table, daemon
<1>2. CASE LaunchOver(r)
  <2>1. run' = [run EXCEPT ![r] = [x EXCEPT !.pc = "over"]] /\ x.pc = "launch"
    BY <1>2 DEF LaunchOver
  <2>2. PlaceEases(x.pc, "over")
    BY <2>1 DEF PlaceEases, Before, InTurn
  <2> QED  BY <1>0, <1>1, <2>1, <2>2, PlaceEase, EaseStep
<1>3. CASE Spawn(r)
  <2>1. /\ run' = [run EXCEPT ![r] = [x EXCEPT !.pc = "init", !.proc = "alive", !.idle = "on"]]
        /\ x.pc = "launch" /\ ~x.quiet
    BY <1>3 DEF Spawn
  <2>2. x.proc = "none"
    BY <1>0, <2>1 DEF StartInv, Unspawned, Early
  <2>3. ~Mute(x)
    BY <2>1, <2>2, NotMute
  <2>4. Eases(x, [x EXCEPT !.pc = "init", !.proc = "alive", !.idle = "on"])
    BY <1>0, <2>1, <2>3 DEF Eases, PlaceEases, Before, InTurn, RunRecord
  <2> QED  BY <1>1, <2>1, <2>4, EaseStep
<1>4. CASE Initialized(r)
  <2> DEFINE y == IF x.quiet THEN [x EXCEPT !.pc = "over"] ELSE OpenSession(x)
  <2>1. run' = [run EXCEPT ![r] = y] /\ x.pc = "init"
    BY <1>4 DEF Initialized
  <2>2. Eases(x, y)
    BY <1>0, <2>1 DEF OpenSession, Eases, PlaceEases, Before, InTurn, RunRecord, Mute
  <2> HIDE DEF y
  <2> QED  BY <1>1, <2>1, <2>2, EaseStep
<1>5. CASE SessionResumed(r)
  <2>1. run' = [run EXCEPT ![r] = [x EXCEPT !.pc = "options"]] /\ x.pc = "open"
    BY <1>5 DEF SessionResumed
  <2>2. PlaceEases(x.pc, "options")
    BY <2>1 DEF PlaceEases, Before, InTurn
  <2> QED  BY <1>0, <1>1, <2>1, <2>2, PlaceEase, EaseStep
<1>6. CASE OptionSent(r)
  <2> DEFINE p == IF Connected(x) THEN "pick" ELSE "over"
  <2>1. run' = [run EXCEPT ![r] = [x EXCEPT !.pc = p]] /\ x.pc = "options"
    BY <1>6 DEF OptionSent
  <2>2. PlaceEases(x.pc, p)
    BY <2>1 DEF PlaceEases, Before, InTurn
  <2> HIDE DEF p
  <2> QED  BY <1>0, <1>1, <2>1, <2>2, PlaceEase, EaseStep
<1>7. CASE OptionAnswered(r)
  <2>1. run' = [run EXCEPT ![r] = [x EXCEPT !.pc = "options"]] /\ x.pc = "pick"
    BY <1>7 DEF OptionAnswered
  <2>2. PlaceEases(x.pc, "options")
    BY <2>1 DEF PlaceEases, Before, InTurn
  <2> QED  BY <1>0, <1>1, <2>1, <2>2, PlaceEase, EaseStep
<1>8. CASE OptionsQuiet(r)
  <2>1. run' = [run EXCEPT ![r] = [x EXCEPT !.pc = "over"]] /\ x.pc = "options"
    BY <1>8 DEF OptionsQuiet
  <2>2. PlaceEases(x.pc, "over")
    BY <2>1 DEF PlaceEases, Before, InTurn
  <2> QED  BY <1>0, <1>1, <2>1, <2>2, PlaceEase, EaseStep
<1> QED  BY <1>2, <1>3, <1>4, <1>5, <1>6, <1>7, <1>8

\* A turn.
LEMMA TurnEases ==
  ASSUME TypeInv, TypeInv', PlaceInv, MirrorInv, NEW r \in 1..used,
         \/ \E reason \in BOOLEAN : PromptReturned(r, reason)
         \/ \E t \in Texts : AgentInjects(r, t) \/ SteerAnswered(r, t)
         \/ NextPrompt(r) \/ OwnTurnMarker(r)
  PROVE  MirrorInv'
<1> DEFINE x == run[r]
<1>0. x \in RunRecord /\ r \in Runs /\ x.pc # "halted"
  BY Registry DEF TypeInv, MirrorInv, NoFaults
<1>1. UNCHANGED <<fold, writes, cur>> /\ Rests
  BY DEF PromptReturned, AgentInjects, SteerAnswered, NextPrompt, OwnTurnMarker,
         Rests, chat, table, daemon, history
<1>2. ASSUME NEW reason \in BOOLEAN, PromptReturned(r, reason) PROVE MirrorInv'
  <2> DEFINE y == [x EXCEPT !.pc = "check", !.endCheck = TRUE, !.turnCancelled = reason]
  <2>1. run' = [run EXCEPT ![r] = y] /\ x.pc = "prompt"
    BY <1>2 DEF PromptReturned
  <2>2. Eases(x, y)
    BY <1>0, <2>1 DEF Eases, PlaceEases, Before, InTurn, RunRecord, Mute
  <2> HIDE DEF y
  <2> QED  BY <1>1, <2>1, <2>2, EaseStep
<1>3. ASSUME NEW t \in Texts, AgentInjects(r, t) PROVE MirrorInv'
  <2> DEFINE y == [x EXCEPT !.injected = @ \union {t}]
  <2>1. run' = [run EXCEPT ![r] = y]
    BY <1>3 DEF AgentInjects
  <2>2. Eases(x, y)
    BY <1>0 DEF Eases, PlaceEases, RunRecord, Mute
  <2> HIDE DEF y
  <2> QED  BY <1>1, <2>1, <2>2, EaseStep
<1>4. ASSUME NEW t \in Texts, SteerAnswered(r, t) PROVE MirrorInv'
  <2> DEFINE y == [x EXCEPT !.steering = @ \ {t}, !.injected = @ \ {t},
                            !.unsent = IF t \in x.injected THEN Without(@, t) ELSE @]
  <2>1. run' = [run EXCEPT ![r] = y]
    BY <1>4 DEF SteerAnswered
  <2>2. Eases(x, y)
    BY <1>0 DEF Eases, PlaceEases, RunRecord, Mute
  <2> HIDE DEF y
  <2> QED  BY <1>1, <2>1, <2>2, EaseStep
<1>5. CASE NextPrompt(r)
  <2> DEFINE y == IF stopping THEN [x EXCEPT !.pc = "over", !.endCheck = FALSE]
                  ELSE RunTurn([x EXCEPT !.endCheck = FALSE])
  <2>1. run' = [run EXCEPT ![r] = y] /\ x.pc = "check" /\ ~x.quiet
    BY <1>5 DEF NextPrompt
  <2>2. x.turning
    BY <2>1 DEF PlaceInv, TurnsFit, TurnFits
  <2>3. ~Mute(x)
    BY <2>1, <2>2, NotMute
  <2>4. Eases(x, y)
    BY <1>0, <2>1, <2>3 DEF Eases, PlaceEases, Before, InTurn, RunRecord, RunTurn, EndProcess
  <2> HIDE DEF y
  <2> QED  BY <1>1, <2>1, <2>4, EaseStep
<1>6. CASE OwnTurnMarker(r)
  <2> DEFINE z == [x EXCEPT !.ownStopped = FALSE, !.marker = IF x.own THEN "on" ELSE x.marker]
  <2>1. run' = [run EXCEPT ![r] = Touch(z)] /\ ~x.turning /\ HasBackground
    BY <1>6 DEF OwnTurnMarker
  <2>2. Eases(x, Touch(z))
    BY <1>0, <2>1 DEF Eases, PlaceEases, RunRecord, Mute, Touch
  <2> HIDE DEF z
  <2> QED  BY <1>1, <2>1, <2>2, EaseStep
<1> QED  BY <1>2, <1>3, <1>4, <1>5, <1>6

\* The process of a run and its idle timer.
LEMMA ProcessEases ==
  ASSUME TypeInv, TypeInv', PlaceInv, MirrorInv, NEW r \in 1..used,
         \/ ConnectionCut(r) \/ (\E clean \in BOOLEAN : Exit(r, clean)) \/ GroupEnded(r)
         \/ (IdleExpires(r) /\ HasBackground) \/ IdleOvertaken(r)
  PROVE  MirrorInv'
<1> DEFINE x == run[r]
<1>0. x \in RunRecord /\ r \in Runs /\ x.pc # "halted"
  BY Registry DEF TypeInv, MirrorInv, NoFaults
<1>1. UNCHANGED <<fold, writes, cur>> /\ Rests
  <2>1. "exit" \in Bounded \ {"background"}
    BY DEF Bounded
  <2> QED
    BY <2>1 DEF ConnectionCut, Exit, GroupEnded, IdleExpires, IdleOvertaken,
           Rests, Spends, chat, table, daemon, history
<1>2. CASE ConnectionCut(r)
  <2> DEFINE y == [ConnectionLost(x) EXCEPT !.proc = "cut"]
  <2>1. run' = [run EXCEPT ![r] = y] /\ x.proc = "alive"
    BY <1>2 DEF ConnectionCut
  <2>2. Eases(x, y)
    BY <1>0, <2>1 DEF Eases, PlaceEases, Before, InTurn, RunRecord, Mute, ConnectionLost, AtAgent
  <2> HIDE DEF y
  <2> QED  BY <1>1, <2>1, <2>2, EaseStep
<1>3. ASSUME NEW clean \in BOOLEAN, Exit(r, clean) PROVE MirrorInv'
  <2> DEFINE y == [ConnectionLost(x) EXCEPT !.proc = "exited", !.clean = clean]
  <2>1. run' = [run EXCEPT ![r] = y] /\ x.proc \in {"alive", "ending", "cut"}
    BY <1>3 DEF Exit
  <2>2. Eases(x, y)
    BY <1>0, <2>1 DEF Eases, PlaceEases, Before, InTurn, RunRecord, Mute, ConnectionLost, AtAgent
  <2> HIDE DEF y
  <2> QED  BY <1>1, <2>1, <2>2, EaseStep
<1>4. CASE GroupEnded(r)
  <2>1. run' = [run EXCEPT ![r] = [x EXCEPT !.proc = "ended"]] /\ x.proc = "exited"
    BY <1>4 DEF GroupEnded
  <2>2. Eases(x, [x EXCEPT !.proc = "ended"])
    BY <1>0, <2>1 DEF Eases, PlaceEases, RunRecord, Mute
  <2> QED  BY <1>1, <2>1, <2>2, EaseStep
<1>5. CASE IdleExpires(r) /\ HasBackground
  <2>1. run' = [run EXCEPT ![r] = [x EXCEPT !.idle = "check"]] /\ x.idle = "on" /\ UNCHANGED cur
    BY <1>5 DEF IdleExpires
  <2>2. Eases(x, [x EXCEPT !.idle = "check"])
    BY <1>0, <2>1 DEF Eases, PlaceEases, RunRecord, Mute
  <2> QED  BY <1>1, <2>1, <2>2, EaseStep
<1>6. CASE IdleOvertaken(r)
  <2> DEFINE y == [x EXCEPT !.idle = IF stopping THEN "off" ELSE "on"]
  <2>1. run' = [run EXCEPT ![r] = y] /\ x.idle \in {"check", "stale"}
    BY <1>6 DEF IdleOvertaken
  <2>2. Eases(x, y)
    BY <1>0, <2>1 DEF Eases, PlaceEases, RunRecord, Mute
  <2> HIDE DEF y
  <2> QED  BY <1>1, <2>1, <2>2, EaseStep
<1> QED  BY <1>2, <1>3, <1>4, <1>5, <1>6

\* A write that changes nothing in the log.
LEMMA SessionCreatedEases ==
  ASSUME TypeInv, TypeInv', PlaceInv, MirrorInv, NEW r \in 1..used, SessionCreated(r)
  PROVE  MirrorInv'
<1> DEFINE x == run[r]
           y == [x EXCEPT !.pc = "store", !.created = TRUE]
<1>0. x \in RunRecord /\ r \in 0..MaxRuns
  BY Registry DEF TypeInv
<1>1. run' = [run EXCEPT ![r] = y] /\ x.pc = "create" /\ cur' = cur /\ fold' = fold
  BY DEF SessionCreated, chat
<1>2. Eases(x, y)
  BY <1>0, <1>1 DEF Eases, PlaceEases, Before, InTurn, RunRecord, Mute
<1>3. Aloof /\ MsgKept
  <2>1. Rests
    BY DEF SessionCreated, Rests, chat, table, daemon
  <2> QED  BY <2>1, RestsAloof
<1>4. Says(<<WThen(Plain("other"), r, "session")>>, AllWritten, AllWritten)
  <2>1. AllWritten \in Fold /\ "session" \in Conts \ {"hold", "call"}
    BY LogTyped DEF Conts
  <2>2. Says(<<WThen(Plain("other"), r, "session")>>, AllWritten, FoldChat(AllWritten, Plain("other")))
    BY <1>0, <2>1, SaysPlain
  <2> QED  BY <2>1, <2>2, PlainSays
<1>5. Calls(AllWritten)
  BY <1>1, <1>4, CallsOne DEF SessionCreated
<1> HIDE DEF y
<1> QED  BY <1>1, <1>2, <1>3, <1>5, EaseHolds

\* The work of an agent, which says nothing of the turn.
LEMMA AgentWorksEases ==
  ASSUME TypeInv, TypeInv', PlaceInv, MirrorInv, NEW r \in 1..used, AgentWorks(r)
  PROVE  MirrorInv'
<1>0. run[r] \in RunRecord /\ r \in 0..MaxRuns /\ r \in Runs /\ run[r].pc # "halted"
  BY Registry DEF TypeInv, MirrorInv, NoFaults
<1>1. run' = [run EXCEPT ![r] = Touch(run[r])] /\ cur' = cur /\ fold' = fold
  BY DEF AgentWorks, chat
<1>2. Eases(run[r], Touch(run[r]))
  BY <1>0, TouchEases
<1>3. Aloof /\ MsgKept
  <2>1. Rests
    BY DEF AgentWorks, Rests, chat, table, daemon
  <2> QED  BY <2>1, RestsAloof
<1>4. Says(WorkWrites(r), AllWritten, AllWritten)
  BY <1>0, LogTyped, WorkSays
<1>5. Calls(AllWritten)
  BY <1>1, <1>4, CallsSays DEF AgentWorks
<1> QED  BY <1>1, <1>2, <1>3, <1>5, EaseHolds

\* Every run at once.
LEMMA AllEase ==
  ASSUME TypeInv, TypeInv', PlaceInv, MirrorInv, cur' = cur, Calls(AllWritten), MsgKept, Aloof,
         \A r \in Runs : run'[r].pc # "halted", \A r \in 1..used : Eases(run[r], run'[r])
  PROVE  MirrorInv'
<1>2. (cur # NoRun => cur \in 1..used) /\ NoRun \notin 1..used
  BY Registry DEF TypeInv, NoRun
<1>3. used' = used /\ (stopping => stopping')
  BY DEF Aloof
<1>4. QueueGrows /\ QueueFits' /\ AllWritten' = AllWritten
  BY CallsGrow DEF MirrorInv
<1>5. Mutes'
  BY <1>2, <1>3 DEF MirrorInv, Mutes, Eases
<1>6. LogFits'
  <2>1. CASE cur = NoRun
    BY <1>4, <2>1 DEF LogFits, MirrorInv
  <2>2. CASE cur # NoRun
    <3>1. run'[cur].held = run[cur].held /\ ~run[cur].quiet /\ ~run'[cur].quiet /\ cur \in 1..used
      BY <1>2, <2>2 DEF MirrorInv, Mutes, Eases
    <3>2. LogOf(run[cur], AllWritten, msg)
      BY <2>2 DEF MirrorInv, LogFits
    <3> PICK y : y = run'[cur]
      OBVIOUS
    <3>3. LogOf(y, AllWritten, msg)
      BY <3>1, <3>2, EaseLog
    <3>4. /\ Shape(y) /\ Mirrors(y, AllWritten) /\ StartShows(y, AllWritten, msg')
          /\ ~HasBackground' => NoBackground(y)
      BY <3>1, <3>3, LogStays
    <3>5. LogOf(run[cur], AllWritten, msg)'
      BY <1>4, <2>2, <3>4 DEF LogOf
    <3> QED  BY <2>2, <3>5 DEF LogFits
  <2> QED  BY <2>1, <2>2
<1>7. HeldsFit'
  <2>1. ASSUME NEW s \in 1..used PROVE HeldGoesOn(s)
    BY DEF HeldGoesOn, Eases, PlaceEases, InStart, Before
  <2> QED  BY <1>3, <2>1, HeldsKeep DEF MirrorInv
<1>8. CallsFit'
  BY <1>4, CallsKeep DEF MirrorInv
<1>9. UsersFit'
  <2>1. cur' # NoRun => StartGoesOn(run[cur], run'[cur])
    BY <1>2 DEF StartGoesOn, Eases, PlaceEases, InStart, Before
  <2> QED  BY <1>4, <2>1, UsersKeep DEF MirrorInv
<1>10. NoFaults'
  BY NoFaultsKeep DEF MirrorInv
<1> QED  BY <1>4, <1>5, <1>6, <1>7, <1>8, <1>9, <1>10 DEF MirrorInv

\* A step that changes no run and calls no write keeps the invariant.
LEMMA SameEases ==
  ASSUME TypeInv, TypeInv', PlaceInv, MirrorInv, UNCHANGED <<fold, writes, cur, run>>, MsgKept, Aloof
  PROVE  MirrorInv'
<1>1. Calls(AllWritten)
  BY CallsNothing
<1>2. \A r \in Runs : run[r].pc # "halted"
  BY DEF MirrorInv, NoFaults
<1>3. \A r \in 1..used : Eases(run[r], run[r])
  BY <1>2, Registry DEF Eases, PlaceEases, TypeInv
<1> QED  BY <1>1, <1>2, <1>3, AllEase

\* A message that is new, or starts over, is in no start that goes on.
LEMMA SentFree ==
  ASSUME MirrorInv, NEW t \in Texts, Sent(t) PROVE Free(t)
<1>1. msg[t].st \notin {"write", "call", "wait", "done", "refused"}
  BY DEF Sent
<1> QED  BY <1>1 DEF Free, MirrorInv, HeldsFit, HeldFits

\* A message of a run that is quiet is in no start that goes on either.
LEMMA QuietFree ==
  ASSUME MirrorInv, NEW t \in Texts, msg[t].st = "wait", run[msg[t].run].quiet PROVE Free(t)
  BY DEF Free, MirrorInv, HeldsFit, HeldFits

\* A message that is refused at once.
LEMMA RefuseEases ==
  ASSUME TypeInv, TypeInv', PlaceInv, MirrorInv, NEW t \in Texts, RefuseMessage(t) PROVE MirrorInv'
<1>1. Free(t)
  BY SentFree DEF RefuseMessage
<1>2. /\ UNCHANGED <<fold, writes, cur, run, used, stopping, left, end>>
      /\ msg' = [msg EXCEPT ![t].st = "refused"] /\ msg \in [Texts -> Message]
  BY DEF RefuseMessage, chat, table, daemon, TypeInv, TypeOK
<1>3. MsgKept
  BY <1>1, <1>2 DEF MsgKept, Message, Free, Frees
<1>4. Aloof
  BY <1>2 DEF Aloof, MirrorInv, NoFaults
<1> QED  BY <1>2, <1>3, <1>4, SameEases

\* The picks of a chat with a run.
LEMMA PickEases ==
  ASSUME TypeInv, TypeInv', PlaceInv, MirrorInv,
         SetOption \/ PickRefused \/ PickWaits \/ PickDirect \/ PickAnswered
  PROVE  MirrorInv'
<1>1. UNCHANGED <<fold, writes, cur>> /\ Rests
  BY DEF SetOption, PickRefused, PickWaits, PickDirect, PickAnswered, Rests, chat, table, daemon
<1>2. Aloof /\ MsgKept
  BY <1>1, RestsAloof
<1>3. CASE run' = run
  BY <1>1, <1>2, <1>3, SameEases
<1>4. CASE PickDirect
  <2>1. run' = [run EXCEPT ![cur] = Touch(run[cur])] /\ cur # NoRun
    BY <1>4 DEF PickDirect
  <2>2. cur \in 1..used /\ run[cur] \in RunRecord /\ run[cur].pc # "halted"
    BY <2>1, Registry DEF TypeInv, MirrorInv, NoFaults
  <2>3. Eases(run[cur], Touch(run[cur]))
    BY <2>2, TouchEases
  <2> QED  BY <1>1, <2>1, <2>2, <2>3, EaseStep
<1> QED  BY <1>3, <1>4 DEF SetOption, PickRefused, PickWaits, PickAnswered

\* The ends of a chat with no run, or with nothing more to do.
LEMMA EndEases ==
  ASSUME TypeInv, TypeInv', PlaceInv, MirrorInv, EndWithNoRun \/ EndRefused \/ EndResolves
  PROVE  MirrorInv'
<1>1. UNCHANGED <<fold, writes, cur, run, used, stopping, msg>>
  BY DEF EndWithNoRun, EndRefused, EndResolves, chat, table, daemon
<1>2. end'.st # "fails"
  BY DEF EndWithNoRun, EndRefused, EndResolves, NoEnd
<1>3. left'["background"] = left["background"]
  <2>1. left' = left \/ Spends
    <3>1. "end" \in Bounded \ {"background"}
      BY DEF Bounded
    <3> QED  BY <3>1 DEF EndWithNoRun, EndRefused, EndResolves, Spends
  <2> QED  BY <2>1, LeftSpends
<1>4. Aloof /\ MsgKept
  BY <1>1, <1>2, <1>3 DEF Aloof, MsgKept
<1> QED  BY <1>1, <1>4, SameEases

\* The stop of the daemon: it ends no run, and sets no idle timer.
LEMMA StopStartsEases ==
  ASSUME TypeInv, TypeInv', PlaceInv, MirrorInv, StopStarts PROVE MirrorInv'
<1>1. /\ UNCHANGED <<fold, writes, cur, used, msg, end>> /\ stopping'
      /\ run' = [r \in Runs |-> IF r = cur THEN [run[r] EXCEPT !.idle = "off"] ELSE run[r]]
  BY DEF StopStarts, chat, table
<1>2. left'["background"] = left["background"]
  <2>1. "stop" \in Bounded \ {"background"}
    BY DEF Bounded
  <2> QED  BY <2>1, LeftSpends DEF StopStarts, Spends
<1>3. Aloof /\ MsgKept
  BY <1>1, <1>2 DEF Aloof, MsgKept, MirrorInv, NoFaults
<1>4. \A r \in Runs : run[r].pc # "halted"
  BY DEF MirrorInv, NoFaults
<1>5. ASSUME NEW r \in Runs PROVE Eases(run[r], run'[r])
  <2>1. run[r] \in RunRecord
    BY DEF TypeInv, TypeOK
  <2>2. run'[r] \in {run[r], [run[r] EXCEPT !.idle = "off"]}
    BY <1>1
  <2> QED  BY <1>4, <2>1, <2>2 DEF Eases, PlaceEases, Mute, RunRecord
<1>6. \A r \in 1..used : r \in Runs
  BY Registry DEF TypeInv
<1>7. \A r \in Runs : run'[r].pc # "halted"
  BY <1>5 DEF Eases, PlaceEases
<1>8. Calls(AllWritten)
  BY <1>1, CallsNothing
<1> QED  BY <1>1, <1>3, <1>5, <1>6, <1>7, <1>8, AllEase

-----------------------------------------------------------------------------
(* The steps of the current run. *)

\* A step that calls two sequences of writes.
LEMMA CallsTwo ==
  ASSUME TypeInv, fold' = fold, NEW s, NEW u, writes' = writes \o s \o u, NEW b, NEW c,
         Says(s, AllWritten, b), Says(u, b, c)
  PROVE  Calls(c)
<1>1. writes \in Seq(Write) /\ s \in Seq(Write) /\ u \in Seq(Write)
  BY LogTyped DEF Says
<1>2. writes' = writes \o (s \o u)
  BY <1>1, ConcatAssociative
<1> QED  BY <1>2, SaysBoth DEF Calls

\* What the invariant says of the current run.
LEMMA CurFacts ==
  ASSUME TypeInv, MirrorInv, cur # NoRun
  PROVE  /\ cur \in 1..used /\ cur \in 0..MaxRuns /\ cur \in Runs
         /\ run[cur] \in RunRecord /\ ~run[cur].quiet /\ run[cur].pc # "halted"
         /\ LogOf(run[cur], AllWritten, msg) /\ AllWritten \in Fold
<1>1. cur \in 1..used /\ cur \in 0..MaxRuns /\ cur \in Runs /\ run[cur] \in RunRecord
  BY Registry DEF TypeInv
<1>2. ~run[cur].quiet /\ run[cur].pc # "halted" /\ LogOf(run[cur], AllWritten, msg)
  BY <1>1 DEF MirrorInv, Mutes, NoFaults, LogFits
<1> QED  BY <1>1, <1>2, LogTyped

\* A run that is at work is the current one.
LEMMA WorkIsCur ==
  ASSUME TypeInv, MirrorInv, NEW r \in 1..used, ~run[r].quiet,
         run[r].turning \/ run[r].proc \notin {"exited", "ended"}
  PROVE  cur = r /\ cur # NoRun
<1>1. ~Mute(run[r])
  BY NotMute
<1>2. cur = r
  BY <1>1 DEF MirrorInv, Mutes
<1> QED  BY <1>2 DEF NoRun

\* What a run that is quiet does changes nothing.
LEMMA QuietHolds ==
  ASSUME TypeInv, TypeInv', MirrorInv, NEW r \in 1..used, run[r].quiet,
         NEW y, run' = [run EXCEPT ![r] = y], cur' = cur, Calls(AllWritten), MsgKept, Aloof,
         y.quiet, y.pc # "halted", Mute(run[r]) => Mute(y)
  PROVE  MirrorInv'
<1>1. r # cur
  BY Registry DEF TypeInv, MirrorInv, Mutes, NoRun
<1>2. Mute(run[r])
  BY <1>1 DEF MirrorInv, Mutes
<1>3. Leaves(run[r], y)
  BY <1>2 DEF Leaves, StaysOut
<1> QED  BY <1>1, <1>3, LeaveHolds

\* The end of a turn, after the check of the background.
LEMMA TurnOverHolds ==
  ASSUME TypeInv, TypeInv', PlaceInv, MirrorInv, NEW r \in 1..used, NEW jobs \in BOOLEAN, TurnOver(r, jobs)
  PROVE  MirrorInv'
<1> DEFINE x == [run[r] EXCEPT !.endCheck = FALSE]
           said == IF jobs THEN SetBackgroundWrites(x, r, TRUE, FALSE) ELSE <<>>
           y == IF jobs THEN SetBackground(x, TRUE, FALSE) ELSE x
           z == EndTurn(y)
<1>0. run[r] \in RunRecord /\ r \in 0..MaxRuns /\ r \in Runs
  BY Registry DEF TypeInv
<1>1. /\ run' = [run EXCEPT ![r] = z] /\ cur' = cur /\ fold' = fold
      /\ writes' = writes \o said \o EndTurnWrites(y, r)
      /\ run[r].pc = "check" /\ (jobs => HasBackground)
  BY DEF TurnOver, chat
<1>2. Aloof /\ MsgKept
  <2>1. Rests
    BY DEF TurnOver, Rests, chat, table, daemon
  <2> QED  BY <2>1, RestsAloof
<1>3. x \in RunRecord /\ x.quiet = run[r].quiet
  BY <1>0 DEF RunRecord
<1>4. y \in RunRecord /\ y.quiet = run[r].quiet
  <2>1. y \in RunRecord
    <3> HIDE DEF x
    <3> QED  BY <1>3, SetBackgroundType
  <2> QED  BY <1>0, <2>1 DEF SetBackground, RunRecord
<1>5. CASE run[r].quiet
  <2>1. said = <<>>
    BY <1>3, <1>5 DEF SetBackgroundWrites
  <2>2. EndTurnWrites(y, r) = <<>>
    BY <1>4, <1>5 DEF EndTurnWrites
  <2>3. Calls(AllWritten)
    <3> HIDE DEF said, y
    <3> QED  BY <1>1, <2>1, <2>2, SaysNothing, CallsTwo
  <2>4. z.quiet /\ z.pc # "halted" /\ (Mute(run[r]) => Mute(z))
    BY <1>0, <1>5 DEF SetBackground, EndTurn, Mute, RunRecord
  <2> HIDE DEF z, said
  <2> QED  BY <1>1, <1>2, <1>5, <2>3, <2>4, QuietHolds
<1>6. CASE ~run[r].quiet
  <2>1. run[r].turning
    BY <1>1 DEF PlaceInv, TurnsFit, TurnFits
  <2>2. cur = r /\ cur # NoRun
    BY <1>6, <2>1, WorkIsCur
  <2> DEFINE a == AllWritten
             b == IF jobs THEN [a EXCEPT !.job = TRUE, !.own = FALSE] ELSE a
             c == [b EXCEPT !.turn = FALSE, !.open = {}]
  <2>3. LogOf(run[r], a, msg) /\ a \in Fold
    BY <2>2, CurFacts
  <2>4. /\ run[r].reaches /\ ~run[r].pickRelaunch
        /\ a.open = run[r].open /\ a.job = run[r].job /\ a.own = run[r].own /\ a.turn
    BY <1>1, <2>3 DEF LogOf, Shape, Mirrors, InTurn
  <2> HIDE DEF a
  <2>5. Says(said, a, b)
    <3>1. CASE jobs
      <4>1. x.job = run[r].job /\ x.own = run[r].own
        BY <1>0 DEF RunRecord
      <4>2. TRUE \in BOOLEAN /\ FALSE \in BOOLEAN /\ b = [a EXCEPT !.job = TRUE, !.own = FALSE]
        BY <3>1
      <4> HIDE DEF x, b
      <4>3. Says(SetBackgroundWrites(x, r, TRUE, FALSE), a, b)
        BY <1>0, <1>3, <1>6, <2>3, <2>4, <4>1, <4>2, BackgroundSays
      <4> QED  BY <3>1, <4>3
    <3>2. CASE ~jobs
      BY <3>2, SaysNothing
    <3> QED  BY <3>1, <3>2
  <2>6. b \in Fold /\ b.turn /\ b.open = y.open
    BY <1>0, <2>3, <2>4 DEF Fold, SetBackground, RunRecord
  <2>7. Says(EndTurnWrites(y, r), b, c)
    <3> HIDE DEF y, b
    <3> QED  BY <1>0, <1>4, <1>6, <2>6, EndTurnSays
  <2>8. Calls(c)
    <3> HIDE DEF said, y, b, c
    <3> QED  BY <1>1, <2>5, <2>7, CallsTwo DEF a
  <2>9. /\ z.turning = FALSE /\ z.pc = "idle" /\ z.open = {} /\ ~z.quiet
        /\ z.held = run[r].held /\ z.reaches /\ ~z.pickRelaunch /\ z.reopened = run[r].reopened
        /\ z.marker = run[r].marker /\ z.stopper = run[r].stopper
        /\ z.job = b.job /\ z.own = b.own
    BY <1>0, <1>6, <2>3, <2>4 DEF EndTurn, Touch, SetBackground, RunRecord, Fold
  <2>10. b \in Fold
    BY <2>6
  <2>11. (jobs => b.job /\ ~b.own) /\ (~jobs => b = a)
    BY <2>3 DEF Fold
  <2> HIDE DEF x, y, z, b
  <2>12. ~c.turn /\ c.open = {} /\ c.job = z.job /\ c.own = z.own
    BY <2>9, <2>10 DEF Fold
  <2> HIDE DEF c
  <2>13. LogOf(z, c, msg)
    <3>1. Shape(z)
      BY <2>3, <2>9 DEF LogOf, Shape, InTurn, Before, InStart
    <3>2. Mirrors(z, c)
      BY <2>9, <2>12 DEF Mirrors, InTurn
    <3>3. StartShows(z, c, msg)
      BY <2>9 DEF StartShows
    <3>4. ~HasBackground => NoBackground(z)
      BY <1>1, <2>3, <2>4, <2>9, <2>11 DEF LogOf, NoBackground
    <3> QED  BY <3>1, <3>2, <3>3, <3>4 DEF LogOf
  <2>14. GoesOn(run[cur], z) /\ StaysOwn(cur, z) /\ StartGoesOn(run[cur], z)
    BY <2>2, <2>4, <2>9 DEF GoesOn, StaysOwn, StartGoesOn, InStart, Before
  <2> QED  BY <1>1, <1>2, <2>2, <2>8, <2>13, <2>14, CurHolds
<1> QED  BY <1>5, <1>6

\* A step of the current run that keeps its place and its turn: the log gets the requests and the
\* background that it has after it.
Works(x, y, a, b) ==
  /\ y.quiet = x.quiet /\ y.pc = x.pc /\ y.turning = x.turning /\ y.reaches = x.reaches
  /\ y.pickRelaunch = x.pickRelaunch /\ y.held = x.held /\ y.reopened = x.reopened
  /\ y.marker = "on" => x.marker = "on" \/ (~x.turning /\ HasBackground)
  /\ y.stopper = "on" => x.stopper = "on" \/ (~x.turning /\ HasBackground)
  /\ InStart(x) => y.job = x.job /\ y.own = x.own
  /\ ~HasBackground => (y.job => x.job) /\ (y.own => x.own)
  /\ x.pc \in Before => y.open = {}
  /\ IF x.pc = "reopen" THEN b = a ELSE b.open = y.open /\ b.job = y.job /\ b.own = y.own
  /\ b.turn = a.turn

\* A step that works on the requests and on the background of the current run keeps the invariant.
LEMMA WorksHolds ==
  ASSUME TypeInv, TypeInv', MirrorInv, cur # NoRun, NEW y, run' = [run EXCEPT ![cur] = y],
         cur' = cur, NEW b, Calls(b), MsgKept, Aloof, Works(run[cur], y, AllWritten, b)
  PROVE  MirrorInv'
<1> DEFINE x == run[cur]
           a == AllWritten
<1>1. ~x.quiet /\ x.pc # "halted" /\ LogOf(x, a, msg)
  BY CurFacts
<1>2. Works(x, y, a, b)
  OBVIOUS
<1> HIDE DEF a, x
<1>3. Shape(y)
  BY <1>1, <1>2 DEF LogOf, Shape, Works, InStart, Before, InTurn
<1>4. Mirrors(y, b)
  BY <1>1, <1>2 DEF LogOf, Mirrors, Works, Before, InTurn
<1>5. StartShows(y, b, msg)
  BY <1>1, <1>2 DEF LogOf, StartShows, Works
<1>6. ~HasBackground => NoBackground(y)
  BY <1>1, <1>2 DEF LogOf, NoBackground, Works
<1>7. LogOf(y, b, msg)
  BY <1>3, <1>4, <1>5, <1>6 DEF LogOf
<1>8. GoesOn(x, y) /\ StartGoesOn(x, y) /\ (InStart(x) /\ ~x.pickRelaunch => InStart(y) /\ ~y.pickRelaunch)
  BY <1>1, <1>2 DEF GoesOn, StartGoesOn, Works, InStart, Before
<1> QED  BY <1>7, <1>8, CurHolds DEF StaysOwn, x

\* The background of the current run.
LEMMA BackgroundWorks ==
  ASSUME TypeInv, MirrorInv, cur # NoRun, NEW job \in BOOLEAN, NEW own \in BOOLEAN, ~InStart(run[cur]),
         NEW x \in RunRecord, ~x.quiet, x.pc = run[cur].pc, x.turning = run[cur].turning,
         x.reaches = run[cur].reaches, x.pickRelaunch = run[cur].pickRelaunch, x.held = run[cur].held,
         x.reopened = run[cur].reopened, x.open = run[cur].open,
         x.job = run[cur].job, x.own = run[cur].own,
         x.marker = "on" => run[cur].marker = "on", x.stopper = "on" => run[cur].stopper = "on",
         HasBackground \/ ((job => x.job) /\ (own => x.own)),
         NEW b, b = [AllWritten EXCEPT !.job = job, !.own = own]
  PROVE  /\ Says(SetBackgroundWrites(x, cur, job, own), AllWritten, b)
         /\ Works(run[cur], SetBackground(x, job, own), AllWritten, b)
<1> DEFINE a == AllWritten
           y == SetBackground(x, job, own)
<1>1. LogOf(run[cur], a, msg) /\ a \in Fold /\ cur \in 0..MaxRuns /\ ~run[cur].quiet
  BY CurFacts
<1>2. b = [a EXCEPT !.job = job, !.own = own]
  OBVIOUS
<1> HIDE DEF a
<1>3. run[cur].pc \notin Before
  BY <1>1 DEF LogOf, Shape
<1>4. a.open = x.open /\ a.job = x.job /\ a.own = x.own
  BY <1>1, <1>3 DEF LogOf, Mirrors, Before
<1>5. Says(SetBackgroundWrites(x, cur, job, own), a, b)
  BY <1>1, <1>2, <1>4, BackgroundSays
<1>6. b.open = x.open /\ b.job = job /\ b.own = own /\ b.turn = a.turn
  BY <1>1, <1>2, <1>4 DEF Fold
<1>7. /\ y.quiet = x.quiet /\ y.pc = x.pc /\ y.turning = x.turning /\ y.reaches = x.reaches
      /\ y.pickRelaunch = x.pickRelaunch /\ y.held = x.held /\ y.reopened = x.reopened
      /\ y.marker = x.marker /\ y.stopper = x.stopper /\ y.open = x.open /\ y.job = job /\ y.own = own
  BY DEF SetBackground, RunRecord
<1> HIDE DEF y
<1>8. y.quiet = run[cur].quiet
  <2>1. x.quiet = FALSE /\ run[cur].quiet = FALSE
    BY <1>1, CurFacts DEF RunRecord
  <2> QED  BY <1>7, <2>1
<1>9. Works(run[cur], y, a, b)
  BY <1>3, <1>6, <1>7, <1>8 DEF Works, Before
<1> QED  BY <1>5, <1>9 DEF a, y

\* Checks of the background.
LEMMA CheckHolds ==
  ASSUME TypeInv, TypeInv', PlaceInv, MirrorInv, NEW r \in 1..used, NEW jobs \in BOOLEAN,
         MarkerChecked(r, jobs) \/ StopChecked(r, jobs)
  PROVE  MirrorInv'
<1>0. run[r] \in RunRecord /\ r \in 0..MaxRuns /\ r \in Runs /\ run[r].pc # "halted"
  BY Registry DEF TypeInv, MirrorInv, NoFaults
<1>1. cur' = cur /\ fold' = fold
  BY DEF MarkerChecked, StopChecked, chat
<1>2. Aloof /\ MsgKept
  <2>1. Rests
    BY DEF MarkerChecked, StopChecked, Rests, chat, table, daemon
  <2> QED  BY <2>1, RestsAloof
<1>3. PICK x \in RunRecord :
        /\ x \in {[run[r] EXCEPT !.marker = "off"], [run[r] EXCEPT !.stopper = "off"]}
        /\ \/ /\ run' = [run EXCEPT ![r] = x] /\ writes' = writes \o <<>>
           \/ /\ cur = r /\ (run[r].marker = "on" \/ run[r].stopper = "on")
              /\ run' = [run EXCEPT ![r] = SetBackground(x, jobs, FALSE)]
              /\ writes' = writes \o SetBackgroundWrites(x, r, jobs, FALSE)
  <2>1. [run[r] EXCEPT !.marker = "off"] \in RunRecord /\ [run[r] EXCEPT !.stopper = "off"] \in RunRecord
    BY <1>0 DEF RunRecord, Checks
  <2>2. CASE MarkerChecked(r, jobs)
    BY <2>1, <2>2 DEF MarkerChecked
  <2>3. CASE StopChecked(r, jobs)
    BY <2>1, <2>3 DEF StopChecked
  <2> QED  BY <2>2, <2>3
<1>4. /\ x.quiet = run[r].quiet /\ x.pc = run[r].pc /\ x.turning = run[r].turning
      /\ x.reaches = run[r].reaches /\ x.pickRelaunch = run[r].pickRelaunch /\ x.held = run[r].held
      /\ x.reopened = run[r].reopened /\ x.open = run[r].open /\ x.job = run[r].job /\ x.own = run[r].own
      /\ (x.marker = "on" => run[r].marker = "on") /\ (x.stopper = "on" => run[r].stopper = "on")
      /\ x.idle = run[r].idle /\ x.proc = run[r].proc /\ x.handled = run[r].handled
  <2>1. CASE x = [run[r] EXCEPT !.marker = "off"]
    BY <1>0, <2>1 DEF RunRecord
  <2>2. CASE x = [run[r] EXCEPT !.stopper = "off"]
    BY <1>0, <2>2 DEF RunRecord
  <2> QED  BY <1>3, <2>1, <2>2
<1>5. CASE run' = [run EXCEPT ![r] = x] /\ writes' = writes \o <<>>
  <2>1. Eases(run[r], x)
    BY <1>0, <1>4 DEF Eases, PlaceEases, Mute
  <2>2. Calls(AllWritten)
    BY <1>1, <1>5, SaysNothing, CallsSays
  <2> QED  BY <1>1, <1>2, <1>5, <2>1, <2>2, EaseHolds
<1>6. CASE /\ cur = r /\ (run[r].marker = "on" \/ run[r].stopper = "on")
           /\ run' = [run EXCEPT ![r] = SetBackground(x, jobs, FALSE)]
           /\ writes' = writes \o SetBackgroundWrites(x, r, jobs, FALSE)
  <2>0. cur # NoRun
    BY <1>6 DEF NoRun
  <2>1. LogOf(run[cur], AllWritten, msg) /\ ~run[cur].quiet
    BY <2>0, CurFacts
  <2>2. ~InStart(run[cur]) /\ HasBackground
    BY <1>6, <2>1 DEF LogOf, Shape, NoBackground, InStart
  <2> DEFINE b == [AllWritten EXCEPT !.job = jobs, !.own = FALSE]
  <2> HIDE DEF b
  <2>3. FALSE \in BOOLEAN /\ b = [AllWritten EXCEPT !.job = jobs, !.own = FALSE] /\ ~x.quiet
    BY <1>4, <1>6, <2>1 DEF b
  <2>4. /\ Says(SetBackgroundWrites(x, cur, jobs, FALSE), AllWritten, b)
        /\ Works(run[cur], SetBackground(x, jobs, FALSE), AllWritten, b)
    BY <1>4, <1>6, <2>0, <2>1, <2>2, <2>3, BackgroundWorks
  <2>5. Calls(b)
    BY <1>1, <1>6, <2>4, CallsSays
  <2> QED  BY <1>1, <1>2, <1>6, <2>0, <2>4, <2>5, WorksHolds
<1> QED  BY <1>3, <1>5, <1>6

\* Output with no turn of a message.
LEMMA OwnOutputHolds ==
  ASSUME TypeInv, TypeInv', PlaceInv, MirrorInv, NEW r \in 1..used, OwnOutput(r)
  PROVE  MirrorInv'
<1> DEFINE x == StaleMarker(Touch(run[r]))
<1>0. run[r] \in RunRecord /\ r \in 0..MaxRuns /\ r \in Runs
  BY Registry DEF TypeInv
<1>1. cur' = cur /\ fold' = fold /\ ~run[r].turning /\ HasBackground /\ ~run[r].quiet
  BY DEF OwnOutput, chat, Speaks, Hears
<1>2. Aloof /\ MsgKept
  <2>1. Rests
    BY DEF OwnOutput, Rests, chat, table, daemon
  <2> QED  BY <2>1, RestsAloof
<1>3. cur = r /\ cur # NoRun
  <2>1. run[r].proc \notin {"exited", "ended"}
    BY DEF OwnOutput, Speaks, Hears, Connected
  <2> QED  BY <1>1, <2>1, WorkIsCur
<1>4. x \in RunRecord
  BY <1>0, TouchType, StaleType
<1>5. /\ x.quiet = run[r].quiet /\ x.pc = run[r].pc /\ x.turning = run[r].turning
      /\ x.reaches = run[r].reaches /\ x.pickRelaunch = run[r].pickRelaunch /\ x.held = run[r].held
      /\ x.reopened = run[r].reopened /\ x.open = run[r].open /\ x.job = run[r].job /\ x.own = run[r].own
      /\ (x.marker = "on" => run[r].marker = "on") /\ (x.stopper = "on" => run[r].stopper = "on")
      /\ x.ownStopped = run[r].ownStopped
  BY <1>0 DEF StaleMarker, Touch, RunRecord
<1>6. Says(WorkWrites(r), AllWritten, AllWritten) /\ AllWritten \in Fold
  BY <1>0, LogTyped, WorkSays
<1>7. /\ run' = [run EXCEPT ![r] = IF x.ownStopped THEN x ELSE SetBackground(x, x.job, TRUE)]
      /\ writes' = writes \o (IF x.ownStopped THEN <<>> ELSE SetBackgroundWrites(x, r, x.job, TRUE))
                          \o WorkWrites(r)
  BY DEF OwnOutput
<1> HIDE DEF x
<1>8. ~InStart(run[cur]) /\ ~x.quiet
  BY <1>1, <1>3, <1>5 DEF InStart
<1>9. CASE x.ownStopped
  <2>1. run' = [run EXCEPT ![cur] = x] /\ writes' = writes \o <<>> \o WorkWrites(r)
    BY <1>3, <1>7, <1>9
  <2>2. Calls(AllWritten)
    BY <1>1, <1>6, <2>1, SaysNothing, CallsTwo
  <2>3. Works(run[cur], x, AllWritten, AllWritten)
    <3>1. LogOf(run[cur], AllWritten, msg)
      BY <1>3, CurFacts
    <3>2. run[cur].pc \notin Before
      BY <1>8, <3>1 DEF LogOf, Shape
    <3> QED  BY <1>3, <1>5, <3>1, <3>2 DEF Works, LogOf, Mirrors, Before
  <2> QED  BY <1>1, <1>2, <1>3, <2>1, <2>2, <2>3, WorksHolds
<1>10. CASE ~x.ownStopped
  <2>1. /\ run' = [run EXCEPT ![cur] = SetBackground(x, x.job, TRUE)]
        /\ writes' = writes \o SetBackgroundWrites(x, cur, x.job, TRUE) \o WorkWrites(r)
    BY <1>3, <1>7, <1>10
  <2> DEFINE b == [AllWritten EXCEPT !.job = x.job, !.own = TRUE]
  <2>2. x.job \in BOOLEAN /\ TRUE \in BOOLEAN
    BY <1>4 DEF RunRecord
  <2>3. b \in Fold
    BY <1>6, <2>2 DEF Fold
  <2> HIDE DEF b
  <2>4. b = [AllWritten EXCEPT !.job = x.job, !.own = TRUE]
    BY DEF b
  <2>5. /\ Says(SetBackgroundWrites(x, cur, x.job, TRUE), AllWritten, b)
        /\ Works(run[cur], SetBackground(x, x.job, TRUE), AllWritten, b)
    BY <1>1, <1>3, <1>4, <1>5, <1>8, <2>2, <2>4, BackgroundWorks
  <2>6. Says(WorkWrites(r), b, b)
    BY <1>0, <2>3, WorkSays
  <2>7. Calls(b)
    BY <1>1, <2>1, <2>5, <2>6, CallsTwo
  <2> QED  BY <1>1, <1>2, <1>3, <2>1, <2>5, <2>7, WorksHolds
<1> QED  BY <1>9, <1>10

\* A record that keeps what the log shows of a run, and its turn.
Same(x, y) ==
  /\ y.quiet = x.quiet /\ y.pc = x.pc /\ y.turning = x.turning /\ y.reaches = x.reaches
  /\ y.pickRelaunch = x.pickRelaunch /\ y.held = x.held /\ y.reopened = x.reopened
  /\ y.open = x.open /\ y.job = x.job /\ y.own = x.own

\* Requests that the current run asks or resolves.
LEMMA OpenWorks ==
  ASSUME TypeInv, MirrorInv, cur # NoRun, NEW y \in RunRecord,
         NEW z, Same(run[cur], z), y.open = {} \/ run[cur].pc \notin Before,
         y.quiet = z.quiet, y.pc = z.pc, y.turning = z.turning, y.reaches = z.reaches,
         y.pickRelaunch = z.pickRelaunch, y.held = z.held, y.reopened = z.reopened,
         y.job = z.job, y.own = z.own,
         y.marker = "on" => run[cur].marker = "on" \/ (~run[cur].turning /\ HasBackground),
         y.stopper = "on" => run[cur].stopper = "on" \/ (~run[cur].turning /\ HasBackground),
         NEW b, IF run[cur].pc = "reopen" THEN b = AllWritten ELSE b = [AllWritten EXCEPT !.open = y.open]
  PROVE  Works(run[cur], y, AllWritten, b)
<1> DEFINE a == AllWritten
<1>1. LogOf(run[cur], a, msg) /\ a \in Fold
  BY CurFacts
<1>2. IF run[cur].pc = "reopen" THEN b = a ELSE b = [a EXCEPT !.open = y.open]
  OBVIOUS
<1>3. run[cur].pc # "reopen" => a.job = run[cur].job /\ a.own = run[cur].own
  BY <1>1 DEF LogOf, Mirrors
<1> HIDE DEF a
<1>4. IF run[cur].pc = "reopen" THEN b = a
      ELSE b.open = y.open /\ b.job = a.job /\ b.own = a.own /\ b.turn = a.turn
  BY <1>1, <1>2 DEF Fold
<1>5. Works(run[cur], y, a, b)
  BY <1>3, <1>4 DEF Works, Same
<1> QED  BY <1>5 DEF a

\* A request of the agent, and its answer.
LEMMA RequestHolds ==
  ASSUME TypeInv, TypeInv', PlaceInv, StartInv, MirrorInv, NEW r \in 1..used, NEW q \in Requests,
         Ask(r, q) \/ Resolve(r, q)
  PROVE  MirrorInv'
<1>0. run[r] \in RunRecord /\ r \in 0..MaxRuns /\ r \in Runs
  BY Registry DEF TypeInv
<1>1. cur' = cur /\ fold' = fold
  BY DEF Ask, Resolve, chat
<1>2. Aloof /\ MsgKept
  <2>1. Rests
    BY DEF Ask, Resolve, Rests, chat, table, daemon
  <2> QED  BY <2>1, RestsAloof
<1>3. PICK e \in Event, o \in SUBSET Requests :
        /\ run' = [run EXCEPT ![r] = Touch([run[r] EXCEPT !.open = o])]
        /\ writes' = Append(writes, W(e, r))
        /\ e.kind # "user"
        /\ cur = r /\ cur # NoRun /\ run[r].pc \notin Before
        /\ EventFits(AllWritten, e)
        /\ FoldChat(AllWritten, e) = [AllWritten EXCEPT !.open = o]
  <2>1. CASE Ask(r, q)
    <3>1. /\ run' = [run EXCEPT ![r] = Touch([run[r] EXCEPT !.open = run[r].open \union {q}])]
          /\ writes' = Append(writes, W(AskEvent(q), r)) /\ q \notin run[r].open
      BY <2>1 DEF Ask
    <3>2. cur = r /\ cur # NoRun /\ run[r].proc # "none"
      <4>1. ~run[r].quiet /\ run[r].proc \notin {"none", "exited", "ended"}
        BY <2>1 DEF Ask, Speaks, Hears, Connected
      <4> QED  BY <4>1, WorkIsCur
    <3>3. run[r].pc \notin Before
      BY <1>0, <3>2 DEF StartInv, Unspawned, Early, Before
    <3>4. AllWritten \in Fold /\ AllWritten.open = run[r].open
      BY <3>2, <3>3, CurFacts DEF LogOf, Mirrors, Before
    <3>5. AskEvent(q) \in Event /\ AskEvent(q).kind = "ask" /\ AskEvent(q).reqs = {q}
      BY EventType DEF AskEvent, Plain
    <3>6. FoldChat(AllWritten, AskEvent(q)) = [AllWritten EXCEPT !.open = AllWritten.open \union {q}]
      BY <3>4, EventSays
    <3>7. EventFits(AllWritten, AskEvent(q))
      BY <3>1, <3>4, <3>5 DEF EventFits
    <3>8. run[r].open \union {q} \in SUBSET Requests
      BY <1>0 DEF RunRecord
    <3> QED  BY <3>1, <3>2, <3>3, <3>4, <3>5, <3>6, <3>7, <3>8
  <2>2. CASE Resolve(r, q)
    <3>1. /\ run' = [run EXCEPT ![r] = Touch([run[r] EXCEPT !.open = run[r].open \ {q}])]
          /\ writes' = Append(writes, W(ResolvedEvent({q}), r)) /\ q \in run[r].open
      BY <2>2 DEF Resolve
    <3>2. cur = r /\ cur # NoRun
      <4>1. ~Mute(run[r])
        BY <3>1 DEF Mute
      <4>2. cur = r
        BY <4>1 DEF MirrorInv, Mutes
      <4> QED  BY <4>2 DEF NoRun
    <3>3. LogOf(run[r], AllWritten, msg) /\ AllWritten \in Fold
      BY <3>2, CurFacts
    <3>4. run[r].pc \notin Before
      BY <3>1, <3>3 DEF LogOf, Shape
    <3>5. AllWritten.open = run[r].open
      BY <3>3, <3>4 DEF LogOf, Mirrors, Before
    <3>6. /\ ResolvedEvent({q}) \in Event /\ ResolvedEvent({q}).kind = "resolved"
          /\ ResolvedEvent({q}).reqs = {q}
      BY EventType DEF ResolvedEvent, Plain
    <3>7. FoldChat(AllWritten, ResolvedEvent({q})) = [AllWritten EXCEPT !.open = AllWritten.open \ {q}]
      BY <3>3, EventSays
    <3>8. EventFits(AllWritten, ResolvedEvent({q}))
      BY <3>1, <3>5, <3>6 DEF EventFits
    <3>9. run[r].open \ {q} \in SUBSET Requests
      BY <1>0 DEF RunRecord
    <3> QED  BY <3>1, <3>2, <3>4, <3>5, <3>6, <3>7, <3>8, <3>9
  <2> QED  BY <2>1, <2>2
<1> DEFINE y == Touch([run[r] EXCEPT !.open = o])
           b == [AllWritten EXCEPT !.open = o]
<1>4. W(e, r) \in Write /\ W(e, r).ev = e /\ W(e, r).cont = "none"
  BY <1>0, WriteType DEF W
<1>5. Says(<<W(e, r)>>, AllWritten, b)
  BY <1>3, <1>4, SaysOne
<1>6. Calls(b)
  <2> HIDE DEF b
  <2> QED  BY <1>1, <1>3, <1>5, CallsOne
<1>7. y \in RunRecord
  <2>1. [run[r] EXCEPT !.open = o] \in RunRecord
    BY <1>0, <1>3 DEF RunRecord
  <2> QED  BY <2>1, TouchType
<1>8. /\ Same(run[cur], run[cur]) /\ y.open = o
      /\ y.quiet = run[cur].quiet /\ y.pc = run[cur].pc /\ y.turning = run[cur].turning
      /\ y.reaches = run[cur].reaches /\ y.pickRelaunch = run[cur].pickRelaunch /\ y.held = run[cur].held
      /\ y.reopened = run[cur].reopened /\ y.job = run[cur].job /\ y.own = run[cur].own
      /\ y.marker = run[cur].marker /\ y.stopper = run[cur].stopper
  BY <1>0, <1>3 DEF Touch, Same, RunRecord
<1>9. run[cur].pc # "reopen" /\ run[cur].pc \notin Before
  BY <1>3 DEF Before
<1>10. run' = [run EXCEPT ![cur] = y] /\ cur # NoRun
  BY <1>3
<1>11. b = [AllWritten EXCEPT !.open = y.open]
  BY <1>8
<1> HIDE DEF y, b
<1>12. Works(run[cur], y, AllWritten, b)
  BY <1>7, <1>8, <1>9, <1>10, <1>11, OpenWorks
<1> QED  BY <1>1, <1>2, <1>6, <1>10, <1>12, WorksHolds

\* The resolution of every request of the current run.
CancelledOpen(x, a) == [a EXCEPT !.open = IF x.open = {} THEN @ ELSE {}]

\* What a cancel writes of the requests of the current run.
LEMMA CancelSays ==
  ASSUME TypeInv, MirrorInv, cur # NoRun, NEW z \in RunRecord, Same(run[cur], z),
         NEW cont \in Conts \ {"hold", "call"}
  PROVE  /\ Says(CancelOpenWrites(z, cur, cont), AllWritten, CancelledOpen(z, AllWritten))
         /\ CancelOpen(z).open = {}
         /\ IF run[cur].pc = "reopen" THEN CancelledOpen(z, AllWritten) = AllWritten
            ELSE CancelledOpen(z, AllWritten) = [AllWritten EXCEPT !.open = {}]
<1> DEFINE a == AllWritten
           b == CancelledOpen(z, a)
<1>1. LogOf(run[cur], a, msg) /\ a \in Fold /\ cur \in 0..MaxRuns
  BY CurFacts
<1>2. b = [a EXCEPT !.open = IF z.open = {} THEN @ ELSE {}]
  BY DEF CancelledOpen
<1> HIDE DEF a, b
<1>3. z.open = run[cur].open /\ (run[cur].pc = "reopen" => z.open = {})
      /\ (run[cur].pc # "reopen" => a.open = z.open)
  BY <1>1 DEF LogOf, Shape, Mirrors, Same, Before
<1>4. Says(CancelOpenWrites(z, cur, cont), a, b)
  BY <1>1, <1>2, <1>3, CancelOpenSays
<1>5. CancelOpen(z).open = {}
  <2>1. CASE z.open = {}
    BY <2>1 DEF CancelOpen
  <2>2. CASE z.open # {}
    BY <2>2 DEF CancelOpen, Touch, RunRecord
  <2> QED  BY <2>1, <2>2
<1>6. IF run[cur].pc = "reopen" THEN b = a ELSE b = [a EXCEPT !.open = {}]
  BY <1>1, <1>2, <1>3 DEF Fold
<1> QED  BY <1>4, <1>5, <1>6 DEF a, b

\* What a cancel leaves of the record of a run.
LEMMA CancelFields ==
  ASSUME NEW z \in RunRecord, NEW y, y = CancelOpen(z)
  PROVE  /\ y.quiet = z.quiet /\ y.pc = z.pc /\ y.turning = z.turning /\ y.reaches = z.reaches
         /\ y.pickRelaunch = z.pickRelaunch /\ y.held = z.held /\ y.reopened = z.reopened
         /\ y.job = z.job /\ y.own = z.own /\ y.marker = z.marker /\ y.stopper = z.stopper
  BY DEF CancelOpen, Touch, RunRecord

\* A cancel of the current run, whatever else it sets.
LEMMA CancelWorks ==
  ASSUME TypeInv, TypeInv', MirrorInv, cur # NoRun, NEW z \in RunRecord, Same(run[cur], z),
         z.marker = run[cur].marker, z.stopper = run[cur].stopper, NEW cont \in Conts \ {"hold", "call"},
         run' = [run EXCEPT ![cur] = CancelOpen(z)], cur' = cur, fold' = fold,
         writes' = writes \o CancelOpenWrites(z, cur, cont), MsgKept, Aloof
  PROVE  MirrorInv'
<1> DEFINE b == CancelledOpen(z, AllWritten)
<1> PICK y : y = CancelOpen(z)
  OBVIOUS
<1>1. /\ Says(CancelOpenWrites(z, cur, cont), AllWritten, b)
      /\ CancelOpen(z).open = {}
      /\ IF run[cur].pc = "reopen" THEN b = AllWritten ELSE b = [AllWritten EXCEPT !.open = {}]
  BY CancelSays
<1>2. /\ y.quiet = z.quiet /\ y.pc = z.pc /\ y.turning = z.turning /\ y.reaches = z.reaches
      /\ y.pickRelaunch = z.pickRelaunch /\ y.held = z.held /\ y.reopened = z.reopened
      /\ y.job = z.job /\ y.own = z.own /\ y.marker = z.marker /\ y.stopper = z.stopper
  BY CancelFields
<1>3. y \in RunRecord /\ y.open = {}
  BY <1>1, CancelOpenType
<1> HIDE DEF b
<1>4. IF run[cur].pc = "reopen" THEN b = AllWritten ELSE b = [AllWritten EXCEPT !.open = y.open]
  BY <1>1, <1>3
<1>5. Works(run[cur], y, AllWritten, b)
  BY <1>2, <1>3, <1>4, OpenWorks
<1>6. Calls(b)
  BY <1>1, CallsSays
<1> QED  BY <1>5, <1>6, WorksHolds

\* The cancels, and the end that starts with one.
LEMMA CancelHoldsLog ==
  ASSUME TypeInv, TypeInv', PlaceInv, MirrorInv, CancelOwnTurn \/ CancelTurn \/ CancelEarly \/ EndCancels
  PROVE  MirrorInv'
<1> DEFINE x == run[cur]
<1>1. /\ cur # NoRun /\ cur' = cur /\ fold' = fold
      /\ UNCHANGED <<used, stopping, msg>>
  BY DEF CancelOwnTurn, CancelTurn, CancelEarly, EndCancels, chat, table, daemon
<1>2. x \in RunRecord /\ cur \in 1..used /\ x.pc # "halted" /\ x.quiet = FALSE /\ cur \in Runs
  BY <1>1, CurFacts DEF RunRecord
<1>3. MsgKept /\ Aloof
  <2>1. left' = left \/ Spends
    <3>1. "cancel" \in Bounded \ {"background"} /\ "end" \in Bounded \ {"background"}
      BY DEF Bounded
    <3> QED  BY <3>1 DEF CancelOwnTurn, CancelTurn, CancelEarly, EndCancels, Spends
  <2>2. end'.st # "fails"
    BY DEF CancelOwnTurn, CancelTurn, CancelEarly, EndCancels, MirrorInv, NoFaults
  <2> QED  BY <1>1, <2>1, <2>2, LeftSpends DEF Aloof, MsgKept
<1>4. "none" \in Conts \ {"hold", "call"} /\ "end" \in Conts \ {"hold", "call"}
  BY DEF Conts
<1>5. CASE CancelOwnTurn
  <2> DEFINE y == [CancelOpen(x) EXCEPT !.ownStopped = TRUE, !.stopper = "on"]
             b == CancelledOpen(x, AllWritten)
  <2>1. /\ run' = [run EXCEPT ![cur] = y] /\ x.own /\ ~x.turning
        /\ writes' = writes \o CancelOpenWrites(x, cur, "none")
    BY <1>5 DEF CancelOwnTurn
  <2>2. HasBackground
    BY <1>1, <2>1, CurFacts DEF LogOf, NoBackground
  <2>3. Same(x, x)
    BY DEF Same
  <2>4. /\ Says(CancelOpenWrites(x, cur, "none"), AllWritten, b)
        /\ CancelOpen(x).open = {}
        /\ IF x.pc = "reopen" THEN b = AllWritten ELSE b = [AllWritten EXCEPT !.open = {}]
    BY <1>1, <1>2, <1>4, <2>3, CancelSays
  <2>5. CancelOpen(x) \in RunRecord
    BY <1>2, CancelOpenType
  <2> PICK z \in RunRecord : z = CancelOpen(x)
    BY <2>5
  <2>6. /\ z.quiet = x.quiet /\ z.pc = x.pc /\ z.turning = x.turning /\ z.reaches = x.reaches
        /\ z.pickRelaunch = x.pickRelaunch /\ z.held = x.held /\ z.reopened = x.reopened
        /\ z.job = x.job /\ z.own = x.own /\ z.marker = x.marker /\ z.stopper = x.stopper
    BY <1>2, CancelFields
  <2>7. /\ y \in RunRecord /\ y.open = {}
        /\ y.quiet = z.quiet /\ y.pc = z.pc /\ y.turning = z.turning /\ y.reaches = z.reaches
        /\ y.pickRelaunch = z.pickRelaunch /\ y.held = z.held /\ y.reopened = z.reopened
        /\ y.job = z.job /\ y.own = z.own /\ y.marker = z.marker /\ y.stopper = "on"
    <3>1. "on" \in Checks
      BY DEF Checks
    <3> QED  BY <2>4, <3>1 DEF RunRecord
  <2> HIDE DEF y, b
  <2>8. IF x.pc = "reopen" THEN b = AllWritten ELSE b = [AllWritten EXCEPT !.open = y.open]
    BY <2>4, <2>7
  <2>9. Works(run[cur], y, AllWritten, b)
    BY <1>1, <2>1, <2>2, <2>3, <2>6, <2>7, <2>8, OpenWorks
  <2>10. Calls(b)
    BY <1>1, <2>1, <2>4, CallsSays
  <2> QED  BY <1>1, <1>3, <2>1, <2>9, <2>10, WorksHolds
<1>6. ASSUME NEW z, NEW cont \in {"none", "end"},
             z \in {[x EXCEPT !.cancelAsked = TRUE, !.unsent = <<>>],
                    [x EXCEPT !.cancelledEarly = TRUE, !.earlyCancels = @ + 1,
                              !.unsent = IF answers.answered THEN <<>> ELSE @]},
             run' = [run EXCEPT ![cur] = CancelOpen(z)],
             writes' = writes \o CancelOpenWrites(z, cur, cont)
      PROVE  MirrorInv'
  <2>1. <<>> \in Seq(Texts)
    OBVIOUS
  <2>2. CASE z = [x EXCEPT !.cancelAsked = TRUE, !.unsent = <<>>]
    <3>1. z \in RunRecord /\ Same(run[cur], z) /\ z.marker = run[cur].marker /\ z.stopper = run[cur].stopper
      BY <1>2, <2>1, <2>2 DEF Same, RunRecord
    <3> QED  BY <1>1, <1>3, <1>4, <1>6, <3>1, CancelWorks
  <2>3. CASE z = [x EXCEPT !.cancelledEarly = TRUE, !.earlyCancels = @ + 1,
                           !.unsent = IF answers.answered THEN <<>> ELSE @]
    <3>0. (IF answers.answered THEN <<>> ELSE x.unsent) \in Seq(Texts) /\ x.earlyCancels + 1 \in Nat
      BY <1>2, <2>1 DEF RunRecord
    <3>1. z \in RunRecord /\ Same(run[cur], z) /\ z.marker = run[cur].marker /\ z.stopper = run[cur].stopper
      BY <1>2, <3>0, <2>3 DEF Same, RunRecord
    <3> QED  BY <1>1, <1>3, <1>4, <1>6, <3>1, CancelWorks
  <2> QED  BY <1>6, <2>2, <2>3
<1>7. CASE CancelTurn
  <2> DEFINE y == [x EXCEPT !.cancelAsked = TRUE, !.unsent = <<>>]
  <2>1. CASE x.endCheck
    <3>1. run' = [run EXCEPT ![cur] = y] /\ writes' = writes
      BY <1>7, <2>1 DEF CancelTurn
    <3>2. Eases(run[cur], y)
      BY <1>2 DEF Eases, PlaceEases, RunRecord, Mute
    <3>3. Calls(AllWritten)
      BY <1>1, <3>1, CallsNothing
    <3> HIDE DEF y
    <3> QED  BY <1>1, <1>2, <1>3, <3>1, <3>2, <3>3, EaseHolds
  <2>2. CASE ~x.endCheck
    BY <1>6, <1>7, <2>2 DEF CancelTurn
  <2> QED  BY <2>1, <2>2
<1>8. CASE CancelEarly
  <2> DEFINE z == [x EXCEPT !.cancelledEarly = TRUE, !.earlyCancels = @ + 1,
                            !.unsent = IF answers.answered THEN <<>> ELSE @]
  <2>1. run' = [run EXCEPT ![cur] = CancelOpen(z)]
    BY <1>8 DEF CancelEarly
  <2>2. writes' = writes \o CancelOpenWrites(z, cur, "none")
    <3>1. writes' = writes \o CancelOpenWrites(x, cur, "none")
      BY <1>8 DEF CancelEarly
    <3>2. z.open = x.open
      BY <1>2 DEF RunRecord
    <3> QED  BY <3>1, <3>2 DEF CancelOpenWrites
  <2> QED  BY <1>6, <2>1, <2>2
<1>9. CASE EndCancels
  <2> DEFINE z == [x EXCEPT !.cancelAsked = TRUE, !.unsent = <<>>]
  <2>1. run' = [run EXCEPT ![cur] = CancelOpen(z)]
    BY <1>9 DEF EndCancels
  <2>2. writes' = writes \o CancelOpenWrites(z, cur, "end")
    <3>1. writes' = writes \o CancelOpenWrites(x, cur, "end")
      BY <1>9 DEF EndCancels
    <3>2. z.open = x.open
      BY <1>2 DEF RunRecord
    <3> QED  BY <3>1, <3>2 DEF CancelOpenWrites
  <2> QED  BY <1>6, <2>1, <2>2
<1> QED  BY <1>5, <1>7, <1>8, <1>9

-----------------------------------------------------------------------------
(* The first turn of a start. *)

\* The turn that the log already shows goes to the agent, or ends at once.
LEMMA FirstTurnHolds ==
  ASSUME TypeInv, TypeInv', PlaceInv, MirrorInv, cur # NoRun, NEW x \in RunRecord, Same(run[cur], x),
         x.marker = run[cur].marker, x.stopper = run[cur].stopper,
         run[cur].pc \notin Before, run[cur].turning, ~run[cur].pickRelaunch, AllWritten.turn,
         HeldSettled(cur), run' = [run EXCEPT ![cur] = FirstTurn(x)], cur' = cur, fold' = fold,
         writes' = writes \o FirstTurnWrites(x, cur), MsgKept, Aloof
  PROVE  MirrorInv'
<1> DEFINE w == run[cur]
           a == AllWritten
<1>1. /\ w \in RunRecord /\ w.quiet = FALSE /\ LogOf(w, a, msg) /\ a \in Fold /\ a.turn
      /\ cur \in 0..MaxRuns /\ w.pc \notin Before /\ w.turning /\ ~w.pickRelaunch
  BY CurFacts DEF RunRecord
<1>2. /\ x.quiet = w.quiet /\ x.pc = w.pc /\ x.turning = w.turning /\ x.pickRelaunch = w.pickRelaunch
      /\ x.held = w.held /\ x.reopened = w.reopened /\ x.open = w.open /\ x.job = w.job /\ x.own = w.own
      /\ x.marker = w.marker /\ x.stopper = w.stopper
  BY DEF Same
<1>3. /\ a.open = w.open /\ a.job = w.job /\ a.own = w.own /\ w.reopened # "failed"
      /\ w.marker # "on" /\ w.stopper # "on" /\ (~HasBackground => NoBackground(w))
  BY <1>1 DEF LogOf, Mirrors, Shape, Before
<1>4. StaysOwn(cur, FirstTurn(x))
  BY DEF StaysOwn
<1> DEFINE y == FirstTurn(x)
<1>5. CASE ~x.cancelledEarly
  <2>1. /\ y.quiet = w.quiet /\ y.turning = w.turning /\ y.pickRelaunch = w.pickRelaunch
        /\ y.held = w.held /\ y.reopened = w.reopened /\ y.open = w.open /\ y.job = w.job /\ y.own = w.own
        /\ y.marker = w.marker /\ y.stopper = w.stopper /\ y.reaches /\ y.pc \in {"prompt", "over"}
    BY <1>2, <1>5 DEF FirstTurn, RunTurn, EndProcess, RunRecord
  <2>2. Calls(a)
    BY <1>5, SaysNothing, CallsSays DEF FirstTurnWrites
  <2> HIDE DEF y, a, w
  <2>3. Shape(y)
    BY <1>1, <1>3, <2>1 DEF Shape, InStart, Before, InTurn
  <2>4. Mirrors(y, a)
    BY <1>1, <1>3, <2>1 DEF Mirrors
  <2>5. LogOf(y, a, msg)
    BY <1>1, <1>3, <2>1, <2>3, <2>4 DEF LogOf, StartShows, NoBackground
  <2>6. GoesOn(w, y) /\ StartGoesOn(w, y)
    BY <1>1, <2>1 DEF GoesOn, StartGoesOn, InStart, Before
  <2> QED  BY <1>4, <2>2, <2>5, <2>6, CurHolds DEF y, w
<1>6. CASE x.cancelledEarly
  <2> DEFINE z == [x EXCEPT !.turnCancelled = TRUE]
             b == [a EXCEPT !.turn = FALSE, !.open = {}]
  <2>1. /\ y.quiet = w.quiet /\ ~y.turning /\ y.pickRelaunch = w.pickRelaunch
        /\ y.held = w.held /\ y.reopened = w.reopened /\ y.open = {} /\ y.job = w.job /\ y.own = w.own
        /\ y.marker = w.marker /\ y.stopper = w.stopper /\ y.reaches /\ y.pc = "idle"
    BY <1>1, <1>2, <1>6 DEF FirstTurn, EndTurn, Touch, RunRecord
  <2>2. z \in RunRecord /\ z.quiet = FALSE /\ z.open = a.open
    BY <1>1, <1>2, <1>3 DEF RunRecord
  <2>3. FirstTurnWrites(x, cur) = EndTurnWrites(z, cur)
    BY <1>6 DEF FirstTurnWrites
  <2>4. b.turn = FALSE /\ b.open = {} /\ b.job = a.job /\ b.own = a.own
    BY <1>1 DEF Fold
  <2>5. b = [a EXCEPT !.turn = FALSE, !.open = {}]
    OBVIOUS
  <2> HIDE DEF z, b, y, w, a
  <2>6. Says(EndTurnWrites(z, cur), a, b)
    BY <1>1, <2>2, <2>5, EndTurnSays
  <2>7. Calls(b)
    BY <2>3, <2>6, CallsSays DEF a
  <2>8. Shape(y)
    BY <1>1, <1>3, <2>1 DEF Shape, InStart, Before, InTurn
  <2>9. Mirrors(y, b)
    BY <1>1, <1>3, <2>1, <2>4 DEF Mirrors, InTurn
  <2>10. LogOf(y, b, msg)
    BY <1>1, <1>3, <2>1, <2>8, <2>9 DEF LogOf, StartShows, NoBackground
  <2>11. GoesOn(w, y) /\ StartGoesOn(w, y)
    BY <1>1, <2>1 DEF GoesOn, StartGoesOn, InStart, Before
  <2> QED  BY <1>4, <2>7, <2>10, <2>11, CurHolds DEF y, w
<1> QED  BY <1>5, <1>6

\* A start that goes on to the messages that joined it, or that ends with no turn.
LEMMA HeldLog ==
  ASSUME NEW x, NEW y, NEW a, LogOf(x, a, msg), x.pc \notin Before, x.held # <<>>, ~x.pickRelaunch,
         x.turning, y.pc = "held",
         y.quiet = x.quiet, y.turning = x.turning, y.reaches = x.reaches,
         y.pickRelaunch = x.pickRelaunch, y.held = x.held, y.reopened = x.reopened,
         y.open = x.open, y.job = x.job, y.own = x.own, y.marker = x.marker, y.stopper = x.stopper
  PROVE  LogOf(y, a, msg)
<1>1. Shape(y)
  BY DEF LogOf, Shape, InStart, Before, InTurn
<1>2. Mirrors(y, a)
  BY DEF LogOf, Mirrors, Before, InTurn
<1>3. StartShows(y, a, msg)
  BY DEF LogOf, StartShows, Before
<1> QED  BY <1>1, <1>2, <1>3 DEF LogOf, NoBackground

\* A start of a pick that ends with no turn.
LEMMA PickOverLog ==
  ASSUME NEW x, NEW y, NEW a, LogOf(x, a, msg), x.pc \notin Before, x.pickRelaunch, x.turning,
         y.pc = "idle", y.quiet = x.quiet, ~y.turning, y.reaches, ~y.pickRelaunch,
         y.reopened = x.reopened, y.open = x.open, y.job = x.job, y.own = x.own,
         y.marker = x.marker, y.stopper = x.stopper
  PROVE  LogOf(y, a, msg)
<1>1. Shape(y)
  BY DEF LogOf, Shape, InStart, Before, InTurn
<1>2. Mirrors(y, a)
  BY DEF LogOf, Mirrors, Before, InTurn
<1>3. StartShows(y, a, msg)
  BY DEF StartShows
<1> QED  BY <1>1, <1>2, <1>3 DEF LogOf, NoBackground

\* The last option of a start: its first turn begins, or the messages that joined it are awaited.
LEMMA OptionsDoneHolds ==
  ASSUME TypeInv, TypeInv', PlaceInv, MirrorInv, NEW r \in 1..used, OptionsDone(r) PROVE MirrorInv'
<1> DEFINE x == [run[r] EXCEPT !.session = TRUE]
<1>0. run[r] \in RunRecord
  BY Registry DEF TypeInv
<1>1. /\ cur' = cur /\ fold' = fold /\ run[r].pc = "options" /\ ~run[r].quiet /\ ~run[r].pickRelaunch
      /\ \/ x.held # <<>> /\ run' = [run EXCEPT ![r] = [x EXCEPT !.pc = "held"]] /\ writes' = writes
         \/ /\ x.held = <<>> /\ run' = [run EXCEPT ![r] = FirstTurn(x)]
            /\ writes' = writes \o FirstTurnWrites(x, r)
  BY DEF OptionsDone, chat
<1>2. Aloof /\ MsgKept
  <2>1. Rests
    BY DEF OptionsDone, Rests, chat, table, daemon
  <2> QED  BY <2>1, RestsAloof
<1>3. run[r].turning /\ run[r].pc \notin Before
  BY <1>1 DEF PlaceInv, TurnsFit, TurnFits, Before
<1>4. cur = r /\ cur # NoRun
  BY <1>1, <1>3, WorkIsCur
<1>5. LogOf(run[cur], AllWritten, msg) /\ run[cur].pc # "halted"
  BY <1>4, CurFacts
<1>6. /\ x \in RunRecord /\ Same(run[r], x) /\ x.marker = run[r].marker /\ x.stopper = run[r].stopper
  BY <1>0 DEF Same, RunRecord
<1>7. CASE x.held # <<>> /\ run' = [run EXCEPT ![r] = [x EXCEPT !.pc = "held"]] /\ writes' = writes
  <2> DEFINE y == [x EXCEPT !.pc = "held"]
  <2>1. /\ y.pc = "held" /\ y.quiet = run[r].quiet /\ y.turning = run[r].turning /\ y.reaches = run[r].reaches
        /\ y.pickRelaunch = run[r].pickRelaunch /\ y.held = run[r].held /\ y.reopened = run[r].reopened
        /\ y.open = run[r].open /\ y.job = run[r].job /\ y.own = run[r].own
        /\ y.marker = run[r].marker /\ y.stopper = run[r].stopper /\ run[r].held # <<>>
    BY <1>0, <1>7 DEF RunRecord
  <2> HIDE DEF y
  <2>2. LogOf(y, AllWritten, msg)
    BY <1>1, <1>3, <1>4, <1>5, <2>1, HeldLog
  <2>3. GoesOn(run[cur], y) /\ StaysOwn(cur, y) /\ StartGoesOn(run[cur], y)
    BY <1>1, <1>3, <1>4, <2>1 DEF GoesOn, StaysOwn, StartGoesOn, InStart, Before
  <2>4. Calls(AllWritten) /\ run' = [run EXCEPT ![cur] = y]
    BY <1>1, <1>4, <1>7, CallsNothing DEF y
  <2> QED  BY <1>1, <1>2, <1>4, <2>2, <2>3, <2>4, CurHolds
<1>8. CASE /\ x.held = <<>> /\ run' = [run EXCEPT ![r] = FirstTurn(x)]
           /\ writes' = writes \o FirstTurnWrites(x, r)
  <2>1. run[cur].held = <<>>
    BY <1>4, <1>6, <1>8 DEF Same
  <2>2. HeldSettled(cur)
    BY <2>1 DEF HeldSettled
  <2>3. AllWritten.turn
    BY <1>1, <1>3, <1>4, <1>5, <2>1 DEF LogOf, StartShows
  <2> HIDE DEF x
  <2> QED  BY <1>1, <1>2, <1>3, <1>4, <1>6, <1>8, <2>2, <2>3, FirstTurnHolds
<1> QED  BY <1>1, <1>7, <1>8

\* The messages that joined the start are there: its first turn begins.
LEMMA HeldOverHolds ==
  ASSUME TypeInv, TypeInv', PlaceInv, MirrorInv, NEW r \in 1..used, HeldOver(r) PROVE MirrorInv'
<1>0. run[r] \in RunRecord /\ answers.unanswered \in Seq(Texts)
  BY Registry DEF TypeInv, TypeOK, Answers
<1>1. /\ cur' = cur /\ fold' = fold /\ run[r].pc = "held" /\ HeldSettled(r)
  BY DEF HeldOver, chat
<1>2. Rests
  BY DEF HeldOver, Rests, chat, table, daemon
<1>3. Aloof /\ MsgKept
  BY <1>2, RestsAloof
<1>4. CASE run[r].quiet \/ stopping
  <2>1. run' = [run EXCEPT ![r] = [run[r] EXCEPT !.pc = "over"]] /\ writes' = writes
    BY <1>4 DEF HeldOver
  <2>2. PlaceEases(run[r].pc, "over")
    BY <1>1 DEF PlaceEases, Before, InTurn
  <2> QED  BY <1>0, <1>1, <1>2, <2>1, <2>2, PlaceEase, EaseStep
<1>5. CASE ~run[r].quiet /\ ~stopping
  <2> DEFINE x == [run[r] EXCEPT !.unsent = IF run[r].created THEN answers.unanswered ELSE @]
  <2>1. run' = [run EXCEPT ![r] = FirstTurn(x)] /\ writes' = writes \o FirstTurnWrites(x, r)
    BY <1>5 DEF HeldOver
  <2>2. run[r].turning /\ run[r].pc \notin Before
    BY <1>1 DEF PlaceInv, TurnsFit, TurnFits, Before
  <2>3. cur = r /\ cur # NoRun
    BY <1>5, <2>2, WorkIsCur
  <2>4. LogOf(run[cur], AllWritten, msg)
    BY <2>3, CurFacts
  <2>5. x \in RunRecord /\ Same(run[r], x) /\ x.marker = run[r].marker /\ x.stopper = run[r].stopper
    BY <1>0 DEF Same, RunRecord
  <2>6. ~run[r].pickRelaunch /\ run[r].held # <<>>
    BY <1>1, <2>3, <2>4 DEF LogOf, Shape
  <2>7. AllWritten.turn
    <3>1. 1 \in 1..Len(run[r].held) /\ 1 \in DOMAIN run[r].held
      BY <1>0, <2>6 DEF RunRecord
    <3>2. HeldFits(r, 1)
      BY <1>5, <3>1 DEF MirrorInv, HeldsFit
    <3>3. msg[run[r].held[1]].st = "done"
      BY <1>1, <1>5, <3>1, <3>2 DEF HeldSettled, Settled, HeldFits
    <3> QED  BY <2>2, <2>3, <2>4, <2>6, <3>1, <3>3 DEF LogOf, StartShows
  <2> HIDE DEF x
  <2> QED  BY <1>1, <1>3, <2>1, <2>2, <2>3, <2>5, <2>6, <2>7, FirstTurnHolds
<1> QED  BY <1>4, <1>5

\* The end of a start that a pick began.
LEMMA PickOptionsHolds ==
  ASSUME TypeInv, TypeInv', PlaceInv, MirrorInv, NEW r \in 1..used, PickOptionsDone(r) PROVE MirrorInv'
<1> DEFINE x == [run[r] EXCEPT !.session = TRUE, !.reaches = TRUE]
           w == WThen(Plain("resumed"), r, "resumed")
           b == [AllWritten EXCEPT !.stopped = "none"]
<1>0. run[r] \in RunRecord /\ r \in 0..MaxRuns
  BY Registry DEF TypeInv
<1>1. /\ cur' = cur /\ fold' = fold /\ run[r].pc = "options" /\ ~run[r].quiet /\ run[r].pickRelaunch
      /\ \/ run' = [run EXCEPT ![r] = [x EXCEPT !.pc = "resumed"]] /\ writes' = Append(writes, w)
         \/ run' = [run EXCEPT ![r] = PickRelaunchOver(x)] /\ writes' = writes
  BY DEF PickOptionsDone, chat
<1>2. Aloof /\ MsgKept
  <2>1. Rests
    BY DEF PickOptionsDone, Rests, chat, table, daemon
  <2> QED  BY <2>1, RestsAloof
<1>3. run[r].turning /\ run[r].pc \notin Before
  BY <1>1 DEF PlaceInv, TurnsFit, TurnFits, Before
<1>4. cur = r /\ cur # NoRun
  BY <1>1, <1>3, WorkIsCur
<1>5. LogOf(run[cur], AllWritten, msg) /\ AllWritten \in Fold
  BY <1>4, CurFacts
<1>6. CASE run' = [run EXCEPT ![r] = [x EXCEPT !.pc = "resumed"]] /\ writes' = Append(writes, w)
  <2> DEFINE y == [x EXCEPT !.pc = "resumed"]
  <2>1. /\ y.pc = "resumed" /\ y.quiet = run[r].quiet /\ y.turning = run[r].turning /\ y.reaches
        /\ y.pickRelaunch = run[r].pickRelaunch /\ y.held = run[r].held /\ y.reopened = run[r].reopened
        /\ y.open = run[r].open /\ y.job = run[r].job /\ y.own = run[r].own
        /\ y.marker = run[r].marker /\ y.stopper = run[r].stopper
    BY <1>0 DEF RunRecord
  <2>2. Calls(b)
    <3>1. "resumed" \in Conts \ {"hold", "call"}
      BY DEF Conts
    <3>2. Says(<<w>>, AllWritten, FoldChat(AllWritten, Plain("resumed")))
      BY <1>0, <1>5, <3>1, SaysPlain
    <3>3. Says(<<w>>, AllWritten, b)
      BY <1>5, <3>2, PlainSays
    <3> HIDE DEF w, b
    <3> QED  BY <1>1, <1>6, <3>3, CallsOne
  <2>3. b.open = AllWritten.open /\ b.job = AllWritten.job /\ b.own = AllWritten.own /\ b.turn = AllWritten.turn
    BY <1>5 DEF Fold
  <2> HIDE DEF y, b, x
  <2>4. LogOf(y, b, msg)
    <3>1. Shape(y)
      BY <1>1, <1>3, <1>4, <1>5, <2>1 DEF LogOf, Shape, InStart, Before, InTurn
    <3>2. Mirrors(y, b)
      BY <1>1, <1>3, <1>4, <1>5, <2>1, <2>3 DEF LogOf, Mirrors, Before, InTurn
    <3>3. StartShows(y, b, msg)
      BY <1>1, <2>1 DEF StartShows
    <3> QED  BY <1>4, <1>5, <2>1, <3>1, <3>2, <3>3 DEF LogOf, NoBackground
  <2>5. GoesOn(run[cur], y) /\ StaysOwn(cur, y) /\ StartGoesOn(run[cur], y)
    BY <1>1, <1>3, <1>4, <2>1 DEF GoesOn, StaysOwn, StartGoesOn, InStart, Before
  <2>6. run' = [run EXCEPT ![cur] = y]
    BY <1>4, <1>6 DEF y
  <2> QED  BY <1>1, <1>2, <1>4, <2>2, <2>4, <2>5, <2>6, CurHolds
<1>7. CASE run' = [run EXCEPT ![r] = PickRelaunchOver(x)] /\ writes' = writes
  <2> DEFINE y == PickRelaunchOver(x)
  <2>1. /\ y.pc = "idle" /\ y.quiet = run[r].quiet /\ ~y.turning /\ y.reaches
        /\ ~y.pickRelaunch /\ y.held = run[r].held /\ y.reopened = run[r].reopened
        /\ y.open = run[r].open /\ y.job = run[r].job /\ y.own = run[r].own
        /\ y.marker = run[r].marker /\ y.stopper = run[r].stopper
    BY <1>0 DEF RunRecord, PickRelaunchOver, Touch
  <2> HIDE DEF y, x
  <2>2. LogOf(y, AllWritten, msg)
    BY <1>1, <1>3, <1>4, <1>5, <2>1, PickOverLog
  <2>3. GoesOn(run[cur], y) /\ StaysOwn(cur, y) /\ StartGoesOn(run[cur], y)
    BY <1>1, <1>3, <1>4, <2>1 DEF GoesOn, StaysOwn, StartGoesOn, InStart, Before
  <2>4. Calls(AllWritten) /\ run' = [run EXCEPT ![cur] = y]
    BY <1>1, <1>4, <1>7, CallsNothing DEF y
  <2> QED  BY <1>1, <1>2, <1>4, <2>2, <2>3, <2>4, CurHolds
<1> QED  BY <1>1, <1>6, <1>7

-----------------------------------------------------------------------------
(* The messages, and the runs that they start. *)

\* A run that a message or a pick starts, once the last one left.
LEMMA RegisterLogs ==
  ASSUME TypeInv, TypeInv', MirrorInv, cur = NoRun, NEW x \in RunRecord, Register(x),
         UNCHANGED <<fold, writes, stopping, left, end>>, MsgKept,
         x.pc = "reopen", ~x.quiet, x.turning, ~x.reaches, x.open = {}, ~x.job, ~x.own,
         x.marker = "off", x.stopper = "off",
         \/ x.pickRelaunch /\ x.held = <<>>
         \/ \E t \in Texts : /\ ~x.pickRelaunch /\ x.held = <<t>>
                             /\ msg'[t].st = "wait" /\ msg'[t].run = used + 1
  PROVE  MirrorInv'
<1> DEFINE r == used + 1
<1> PICK y : y = Registered(x)
  OBVIOUS
<1>1. /\ used \in Nat /\ used' = r /\ cur' = r /\ r \in Runs /\ r # NoRun
      /\ \A s \in 1..used : s \in Runs /\ s # r /\ s # NoRun
      /\ \A s \in 1..used' : s \in 1..used \/ s = r
  BY RunnerAssumption DEF Register, TypeInv, TypeOK, Runs, NoRun
<1>2. run'[r] = y /\ \A s \in 1..used : run'[s] = run[s]
  BY <1>1 DEF Register, TypeInv, TypeOK
<1>3. /\ y.pc = "reopen" /\ ~y.quiet /\ y.turning /\ ~y.reaches /\ y.open = {} /\ ~y.job /\ ~y.own
      /\ y.marker = "off" /\ y.stopper = "off" /\ y.reopened = "wait"
      /\ y.pickRelaunch = x.pickRelaunch /\ y.held = x.held
  BY DEF Registered, RunRecord
<1>4. QueueGrows /\ QueueFits' /\ AllWritten' = AllWritten
  BY CallsNothing, CallsGrow DEF MirrorInv
<1>5. Mutes'
  BY <1>1, <1>2, <1>3 DEF MirrorInv, Mutes
<1>6. LogFits'
  <2>1. ~AgentActive(AllWritten)
    BY DEF MirrorInv, LogFits
  <2>2. Shape(y)
    <3>1. (y.pickRelaunch /\ y.held = <<>>) \/ (~y.pickRelaunch /\ y.held # <<>>)
      <4>1. CASE x.pickRelaunch /\ x.held = <<>>
        BY <1>3, <4>1
      <4>2. ASSUME NEW t \in Texts, ~x.pickRelaunch, x.held = <<t>> PROVE ~y.pickRelaunch /\ y.held # <<>>
        <5>1. y.held = <<t>>
          BY <1>3, <4>2
        <5>2. <<t>> # <<>>
          OBVIOUS
        <5> QED  BY <1>3, <4>2, <5>1, <5>2
      <4> QED  BY <4>1, <4>2
    <3> QED  BY <1>3, <3>1 DEF Shape, InTurn, InStart, Before
  <2>3. Mirrors(y, AllWritten)
    BY <1>3, <2>1 DEF Mirrors, InTurn, AgentActive, TurnRuns
  <2>4. StartShows(y, AllWritten, msg')
    BY <1>3 DEF StartShows, Before
  <2>5. NoBackground(y)
    BY <1>3 DEF NoBackground
  <2>6. LogOf(run[cur], AllWritten, msg)'
    BY <1>1, <1>2, <1>4, <2>2, <2>3, <2>4, <2>5 DEF LogOf
  <2> QED  BY <1>1, <2>6 DEF LogFits
<1>7. HeldsFit'
  <2> SUFFICES ASSUME NEW s \in 1..used', ~run'[s].quiet, NEW i \in 1..Len(run'[s].held)
               PROVE  HeldFits(s, i)'
    BY DEF HeldsFit
  <2>1. CASE s \in 1..used
    <3>1. HeldGoesOn(s)
      BY <1>2, <2>1 DEF HeldGoesOn
    <3> QED  BY <2>1, <3>1, HeldKeeps DEF MirrorInv
  <2>2. CASE s = r
    <3>1. PICK t \in Texts : ~y.pickRelaunch /\ y.held = <<t>> /\ msg'[t].st = "wait" /\ msg'[t].run = r
      BY <1>2, <1>3, <2>2
    <3>2. i = 1 /\ 1..(i - 1) = {}
      <4>1. run'[s].held = <<t>>
        BY <1>2, <2>2, <3>1
      <4>2. Len(run'[s].held) = 1
        BY <4>1
      <4>3. i = 1
        BY <4>2
      <4> QED  BY <4>3
    <3> QED  BY <1>2, <1>3, <2>2, <3>1, <3>2 DEF HeldFits, InStart
  <2> QED  BY <1>1, <2>1, <2>2
<1>8. CallsFit'
  BY <1>4, CallsKeep DEF MirrorInv
<1>9. UsersFit'
  BY <1>1, <1>2, <1>3 DEF UsersFit, Before
<1>10. NoFaults'
  <2>1. \A s \in Runs : run'[s].pc # "halted"
    BY <1>3 DEF Register, MirrorInv, NoFaults, TypeInv, TypeOK
  <2>2. \A t \in Texts : msg'[t].st # "halt"
    BY DEF MirrorInv, NoFaults, MsgKept
  <2> QED  BY <2>1, <2>2 DEF MirrorInv, NoFaults
<1> QED  BY <1>4, <1>5, <1>6, <1>7, <1>8, <1>9, <1>10 DEF MirrorInv

\* A message or a pick that starts a run.
LEMMA RestartLogs ==
  ASSUME TypeInv, TypeInv', MirrorInv, PickRelaunches \/ \E t \in Texts : Restart(t) PROVE MirrorInv'
<1>1. CASE PickRelaunches
  <2> DEFINE x == [NewRun EXCEPT !.byPick = TRUE, !.pickRelaunch = TRUE]
  <2>1. /\ x \in RunRecord /\ x.pc = "reopen" /\ ~x.quiet /\ x.turning /\ ~x.reaches /\ x.open = {}
        /\ ~x.job /\ ~x.own /\ x.marker = "off" /\ x.stopper = "off" /\ x.pickRelaunch /\ x.held = <<>>
    BY NewRunType DEF NewRun, RunRecord
  <2>2. Register(x) /\ cur = NoRun /\ UNCHANGED <<fold, writes, stopping, left, end, msg>>
    BY <1>1 DEF PickRelaunches, chat, daemon
  <2>3. MsgKept
    BY <2>2 DEF MsgKept
  <2> HIDE DEF x
  <2> QED  BY <2>1, <2>2, <2>3, RegisterLogs
<1>2. ASSUME NEW t \in Texts, Restart(t) PROVE MirrorInv'
  <2> DEFINE x == Hold(NewRun, t)
  <2>1. /\ x \in RunRecord /\ x.pc = "reopen" /\ ~x.quiet /\ x.turning /\ ~x.reaches /\ x.open = {}
        /\ ~x.job /\ ~x.own /\ x.marker = "off" /\ x.stopper = "off" /\ ~x.pickRelaunch /\ x.held = <<t>>
    <3>1. Append(<<>>, t) = <<t>>
      OBVIOUS
    <3>2. x = [NewRun EXCEPT !.cancelledEarly = FALSE, !.held = <<t>>]
      BY <3>1 DEF Hold, NewRun
    <3>3. x \in RunRecord
      BY NewRunType, HoldType
    <3> HIDE DEF x
    <3> QED  BY <3>2, <3>3 DEF NewRun
  <2>2. /\ Register(x) /\ cur = NoRun /\ UNCHANGED <<fold, writes, stopping, left, end>>
        /\ Sent(t) /\ msg' = HoldCall(t, used + 1, 0)
    BY <1>2 DEF Restart, chat, daemon
  <2>3. /\ msg'[t].st = "wait" /\ msg'[t].run = used + 1 /\ \A u \in Texts : u # t => msg'[u] = msg[u]
    BY <2>2 DEF HoldCall, TypeInv, TypeOK, Message
  <2>4. Free(t)
    BY <2>2, SentFree
  <2>5. MsgKept
    BY <2>3, <2>4 DEF MsgKept, Free, Frees
  <2> HIDE DEF x
  <2> QED  BY <2>1, <2>2, <2>3, <2>5, RegisterLogs
<1> QED  BY <1>1, <1>2

\* A step that takes one message in, and calls no write.
LEMMA OneKept ==
  ASSUME MirrorInv, NEW t \in Texts, Free(t), msg'[t].st # "halt",
         \A u \in Texts : u # t => msg'[u] = msg[u]
  PROVE  MsgKept
<1>1. Frees(t)
  BY DEF Free, Frees
<1> QED  BY <1>1 DEF MsgKept

\* A message that joins the start of a pick makes it a start of its own.
LEMMA JoinType ==
  ASSUME NEW x \in RunRecord, NEW n \in 0..MaxPicks
  PROVE  [x EXCEPT !.pickRelaunch = FALSE, !.reaches = FALSE, !.earlierPicks = n] \in RunRecord
  BY DEF RunRecord

\* What it takes for the message u of a start to fit in the next state.
HeldNext(r, i, y, u) ==
  /\ run'[r] = y /\ y.held[i] = u /\ msg'[u].run = r
  /\ msg'[u].st \in {"wait", "write", "done", "refused"}
  /\ msg'[u].st \in {"wait", "write"} => InStart(y) /\ ~y.pickRelaunch
  /\ msg'[u].st = "refused" => stopping'
  /\ msg'[u].st = "write" => \A j \in 1..(i - 1) : msg'[y.held[j]].st \in {"done", "refused"}
  /\ y.pc \in Before => msg'[u].st = "wait"
  /\ \A j \in 1..(i - 1) : y.held[j] # u

\* A message of a start fits in the next state.
LEMMA HeldIs ==
  ASSUME NEW r, NEW i, NEW y, NEW u, HeldNext(r, i, y, u) PROVE HeldFits(r, i)'
  BY DEF HeldNext, HeldFits, Settled

\* A message that joins a start.
LEMMA JoinStartLogs ==
  ASSUME TypeInv, TypeInv', MirrorInv, NEW t \in Texts, JoinStart(t) PROVE MirrorInv'
<1>1. /\ cur # NoRun /\ cur' = cur /\ Sent(t) /\ UNCHANGED <<fold, writes, stopping, left, end, used>>
      /\ msg' = HoldCall(t, cur, run[cur].earlyCancels)
  BY DEF JoinStart, chat, table, daemon
<1>2. /\ cur \in 1..used /\ cur \in Runs /\ run[cur] \in RunRecord /\ ~run[cur].quiet
      /\ run[cur].pc # "halted" /\ LogOf(run[cur], AllWritten, msg)
  BY <1>1, CurFacts
<1> PICK x : x = run[cur]
  OBVIOUS
<1> PICK z : z = IF x.pickRelaunch
                 THEN [x EXCEPT !.pickRelaunch = FALSE, !.reaches = FALSE, !.earlierPicks = pick.issued]
                 ELSE x
  OBVIOUS
<1> PICK y : y = Hold(z, t)
  OBVIOUS
<1>3. /\ run' = [run EXCEPT ![cur] = y]
      /\ x.pickRelaunch \/ (x.turning /\ ~x.reaches)
  BY DEF JoinStart
<1>4. z \in RunRecord
  <2>1. pick.issued \in 0..MaxPicks
    BY DEF TypeInv, TypeOK, Pick
  <2>2. CASE x.pickRelaunch
    <3>1. z = [x EXCEPT !.pickRelaunch = FALSE, !.reaches = FALSE, !.earlierPicks = pick.issued]
      BY <2>2
    <3>2. x \in RunRecord
      BY <1>2
    <3> QED  BY <2>1, <3>1, <3>2, JoinType
  <2>3. CASE ~x.pickRelaunch
    BY <1>2, <2>3
  <2> QED  BY <2>2, <2>3
<1>5. /\ z.quiet = x.quiet /\ z.pc = x.pc /\ z.turning = x.turning /\ ~z.pickRelaunch
      /\ z.held = x.held /\ z.reopened = x.reopened /\ z.open = x.open /\ z.job = x.job /\ z.own = x.own
      /\ z.marker = x.marker /\ z.stopper = x.stopper /\ ~z.reaches
  BY <1>2, <1>3 DEF RunRecord
<1>6. /\ y.quiet = x.quiet /\ y.pc = x.pc /\ y.turning = x.turning /\ ~y.pickRelaunch
      /\ y.held = Append(x.held, t) /\ y.reopened = x.reopened /\ y.open = x.open
      /\ y.job = x.job /\ y.own = x.own
      /\ y.marker = x.marker /\ y.stopper = x.stopper /\ ~y.reaches
  <2>1. /\ y.quiet = z.quiet /\ y.pc = z.pc /\ y.turning = z.turning /\ y.reaches = z.reaches
        /\ y.pickRelaunch = z.pickRelaunch /\ y.held = Append(z.held, t) /\ y.reopened = z.reopened
        /\ y.open = z.open /\ y.job = z.job /\ y.own = z.own
        /\ y.marker = z.marker /\ y.stopper = z.stopper
    BY <1>4 DEF Hold, RunRecord
  <2> QED  BY <1>5, <2>1
<1>7. x.held \in Seq(Texts) /\ Len(x.held) \in Nat /\ Len(y.held) = Len(x.held) + 1
      /\ y.held[Len(x.held) + 1] = t /\ (\A i \in 1..Len(x.held) : y.held[i] = x.held[i] /\ x.held[i] \in Texts)
      /\ y.held # <<>>
  <2>1. x.held \in Seq(Texts)
    BY <1>2 DEF RunRecord
  <2>2. y.held = Append(x.held, t)
    BY <1>6
  <2> QED  BY <2>1, <2>2
<1>8. x.turning /\ InStart(x) /\ InStart(y)
  BY <1>2, <1>3, <1>6 DEF LogOf, Shape, InStart
<1>9. Free(t)
  BY <1>1, SentFree
<1>10. \A i \in 1..Len(x.held) : x.held[i] # t
  BY <1>2, <1>9 DEF Free
<1>11. msg'[t].st = "wait" /\ msg'[t].run = cur /\ \A u \in Texts : u # t => msg'[u] = msg[u]
  BY <1>1 DEF HoldCall, TypeInv, TypeOK, Message
<1>12. MsgKept
  BY <1>9, <1>11, OneKept
<1>13. run'[cur] = y /\ \A s \in 1..used : s # cur => run'[s] = run[s]
  BY <1>2, <1>3, RunGiven, Registry DEF TypeInv
<1>14. QueueGrows /\ QueueFits' /\ AllWritten' = AllWritten
  BY <1>1, CallsNothing, CallsGrow DEF MirrorInv
<1>15. Aloof
  BY <1>1 DEF Aloof, MirrorInv, NoFaults
<1>16. Mutes'
  BY <1>1, <1>2, <1>6, <1>13 DEF MirrorInv, Mutes
<1>17. LogFits'
  <2>1. Shape(y)
    BY <1>2, <1>6, <1>7, <1>8 DEF LogOf, Shape, InTurn, InStart, Before
  <2>2. Mirrors(y, AllWritten)
    BY <1>2, <1>6, <1>8 DEF LogOf, Mirrors, InTurn
  <2>3. StartShows(y, AllWritten, msg')
    <3> SUFFICES ASSUME y.pc \notin Before, NEW i \in 1..Len(y.held), msg'[y.held[i]].st \in {"write", "done"}
                 PROVE  AllWritten.turn
      BY <1>7 DEF StartShows
    <3>1. i \in 1..Len(x.held)
      <4>1. CASE i = Len(x.held) + 1
        <5>1. y.held[i] = t
          BY <1>7, <4>1
        <5> QED  BY <1>11, <5>1
      <4> QED  BY <1>7, <4>1
    <3>2. msg[x.held[i]].st \in {"write", "done"} /\ x.held # <<>>
      BY <1>7, <1>10, <1>11, <3>1
    <3>3. ~x.pickRelaunch
      BY <1>2, <3>2 DEF LogOf, Shape
    <3> QED  BY <1>2, <1>6, <1>8, <3>1, <3>2, <3>3 DEF LogOf, StartShows
  <2>4. ~HasBackground' => NoBackground(y)
    BY <1>2, <1>6, <1>15 DEF LogOf, NoBackground, HasBackground, Aloof
  <2>5. LogOf(run[cur], AllWritten, msg)'
    BY <1>1, <1>13, <1>14, <2>1, <2>2, <2>3, <2>4 DEF LogOf
  <2> QED  BY <1>1, <2>5 DEF LogFits
<1>18. HeldsFit'
  <2> SUFFICES ASSUME NEW s \in 1..used', ~run'[s].quiet, NEW i \in 1..Len(run'[s].held)
               PROVE  HeldFits(s, i)'
    BY DEF HeldsFit
  <2>1. CASE s # cur
    <3>1. HeldGoesOn(s)
      BY <1>1, <1>13, <2>1 DEF HeldGoesOn
    <3> QED  BY <1>1, <1>12, <2>1, <3>1, HeldKeeps DEF MirrorInv
  <2>2. CASE s = cur /\ i \in 1..Len(x.held)
    <3>1. HeldFits(cur, i)
      BY <1>2, <2>2 DEF MirrorInv, HeldsFit
    <3>2. \A j \in 1..(i - 1) : j \in 1..Len(x.held)
      BY <1>7, <2>2
    <3>3. \A j \in 1..i : y.held[j] = x.held[j] /\ msg'[y.held[j]] = msg[x.held[j]]
      BY <1>7, <1>10, <1>11, <2>2, <3>2
    <3>4. i \in 1..i /\ \A j \in 1..(i - 1) : j \in 1..i
      BY <2>2
    <3>5. run'[s] = y /\ y.held[i] = x.held[i] /\ msg'[x.held[i]] = msg[x.held[i]]
      BY <1>13, <2>2, <3>3, <3>4
    <3>6. \A j \in 1..(i - 1) : y.held[j] = x.held[j] /\ msg'[x.held[j]] = msg[x.held[j]]
      BY <3>3, <3>4
    <3> PICK u : u = x.held[i]
      OBVIOUS
    <3>7. /\ msg[u].run = cur /\ msg[u].st \in {"wait", "write", "done", "refused"}
          /\ msg[u].st = "refused" => stopping
          /\ msg[u].st = "write" => \A j \in 1..(i - 1) : msg[x.held[j]].st \in {"done", "refused"}
          /\ x.pc \in Before => msg[u].st = "wait"
          /\ \A j \in 1..(i - 1) : x.held[j] # u
      BY <3>1 DEF HeldFits, Settled
    <3>8. msg'[u] = msg[u] /\ y.held[i] = u
      BY <3>5
    <3>9. msg'[u].st = "write" => \A j \in 1..(i - 1) : msg'[y.held[j]].st \in {"done", "refused"}
      BY <3>6, <3>7, <3>8
    <3>10. /\ run'[s] = y /\ y.held[i] = u /\ msg'[u].run = s
           /\ msg'[u].st \in {"wait", "write", "done", "refused"}
           /\ msg'[u].st \in {"wait", "write"} => InStart(y) /\ ~y.pickRelaunch
           /\ msg'[u].st = "refused" => stopping'
           /\ y.pc \in Before => msg'[u].st = "wait"
           /\ \A j \in 1..(i - 1) : y.held[j] # u
      BY <1>1, <1>6, <1>8, <2>2, <3>5, <3>6, <3>7, <3>8
    <3>20. HeldNext(s, i, y, u)
      BY <3>9, <3>10 DEF HeldNext
    <3> QED  BY <3>20, HeldIs
  <2>3. CASE s = cur /\ i = Len(x.held) + 1
    <3>1. run'[s] = y /\ y.held[i] = t
      BY <1>7, <1>13, <2>3
    <3>2. \A j \in 1..(i - 1) : y.held[j] # t
      BY <1>7, <1>10, <2>3
    <3>10. /\ run'[s] = y /\ y.held[i] = t /\ msg'[t].run = s
           /\ msg'[t].st \in {"wait", "write", "done", "refused"}
           /\ msg'[t].st \in {"wait", "write"} => InStart(y) /\ ~y.pickRelaunch
           /\ msg'[t].st = "refused" => stopping'
           /\ y.pc \in Before => msg'[t].st = "wait"
           /\ \A j \in 1..(i - 1) : y.held[j] # t
           /\ msg'[t].st = "write" => \A j \in 1..(i - 1) : msg'[y.held[j]].st \in {"done", "refused"}
      BY <1>6, <1>8, <1>11, <2>3, <3>1, <3>2
    <3>20. HeldNext(s, i, y, t)
      BY <3>10 DEF HeldNext
    <3> QED  BY <3>20, HeldIs
  <2>4. s = cur => i \in 1..Len(x.held) \/ i = Len(x.held) + 1
    BY <1>7, <1>13
  <2> QED  BY <2>1, <2>2, <2>3, <2>4
<1>19. CallsFit'
  BY <1>12, <1>14, CallsKeep DEF MirrorInv
<1>20. UsersFit'
  <2>1. y.pc = "interrupt" => \E k \in 1..Len(writes) : ReopenLast(cur, k)
    BY <1>1, <1>6, <1>8 DEF MirrorInv, UsersFit
  <2>2. y.pc \notin Before => \A n \in 1..Len(writes) : HeldUser(y, writes[n])
    <3>1. SUFFICES ASSUME y.pc \notin Before, NEW n \in 1..Len(writes) PROVE HeldUser(y, writes[n])
      OBVIOUS
    <3>2. HeldUser(x, writes[n])
      BY <1>1, <1>6, <1>8, <3>1 DEF MirrorInv, UsersFit
    <3>3. \A i \in 1..Len(x.held) : i \in 1..Len(y.held) /\ y.held[i] = x.held[i]
      BY <1>7
    <3> QED  BY <3>2, <3>3 DEF HeldUser
  <2>3. \A k : ReopenLast(cur, k) <=> ReopenLast(cur, k)'
    BY <1>1 DEF ReopenLast
  <2> QED  BY <1>1, <1>13, <2>1, <2>2, <2>3 DEF UsersFit
<1>21. NoFaults'
  <2>1. \A s \in Runs : run'[s].pc # "halted"
    BY <1>2, <1>3, <1>6 DEF MirrorInv, NoFaults, TypeInv, TypeOK
  <2> QED  BY <1>12, <1>15, <2>1, NoFaultsKeep DEF MirrorInv
<1> QED  BY <1>14, <1>16, <1>17, <1>18, <1>19, <1>20, <1>21 DEF MirrorInv

\* What the log says after a message.
Begun(a) == [a EXCEPT !.turn = TRUE, !.job = FALSE, !.own = FALSE, !.stopped = "none"]

\* A step that calls the write of a message.
UserCall(t, r, cont) ==
  /\ writes' = Append(writes, WThen(UserEvent(t), r, cont))
  /\ msg[t].st \notin {"write", "call"}
  /\ cont = "call" => msg'[t].st = "call"
  /\ cont = "hold" => msg'[t].st = "write"
  /\ \A u \in Texts : u # t => msg'[u] = msg[u]

\* The write of a message begins a turn in the log, and is the one call of its message.
LEMMA UserCallHolds ==
  ASSUME TypeInv, TypeInv', MirrorInv, fold' = fold, NEW t \in Texts, NEW r \in 0..MaxRuns,
         NEW cont \in {"call", "hold"}, UserCall(t, r, cont)
  PROVE  /\ CallsFit' /\ QueueFits' /\ AllWritten' = Begun(AllWritten)
         /\ Len(writes') = Len(writes) + 1
         /\ \A n \in 1..Len(writes) : writes'[n] = writes[n]
         /\ writes'[Len(writes) + 1] = WThen(UserEvent(t), r, cont)
<1> PICK w : w = WThen(UserEvent(t), r, cont)
  OBVIOUS
<1>1. w.ev = UserEvent(t) /\ w.cont = cont /\ w.ev.kind = "user" /\ w.ev.text = <<t>> /\ w.ev.text # <<>>
      /\ w.ev.text[1] = t
  <2>1. w.ev = UserEvent(t) /\ w.cont = cont
    BY DEF WThen
  <2>2. UserEvent(t).kind = "user" /\ UserEvent(t).text = <<t>>
    BY DEF UserEvent, Plain
  <2>3. <<t>> # <<>> /\ <<t>>[1] = t
    OBVIOUS
  <2> QED  BY <2>1, <2>2, <2>3
<1>2. w \in Write
  <2>1. CASE cont = "hold"
    BY <2>1, HoldWriteType
  <2>2. CASE cont = "call"
    <3>1. "call" \in Conts \ {"hold"} /\ UserEvent(t) \in Event
      BY EventType DEF Conts
    <3> QED  BY <2>2, <3>1, WriteType
  <2> QED  BY <2>1, <2>2
<1>3. writes \in Seq(Write) /\ Len(writes) \in Nat /\ fold \in Fold /\ AllWritten \in Fold
  BY LogTyped
<1>4. writes' = Append(writes, w)
  BY DEF UserCall
<1>5. /\ Len(writes') = Len(writes) + 1
      /\ \A n \in 1..Len(writes) : writes'[n] = writes[n]
      /\ writes'[Len(writes) + 1] = w
  BY <1>2, <1>3, <1>4
<1>6. QueueFits' /\ AllWritten' = Begun(AllWritten)
  <2>1. EventFits(Written(fold, writes), w.ev)
    BY <1>1 DEF EventFits
  <2>2. Fitting(fold, Append(writes, w))
    BY <1>2, <1>3, <2>1, WrittenAppend DEF MirrorInv, QueueFits
  <2>3. Written(fold, Append(writes, w)) = FoldChat(AllWritten, w.ev)
    BY <1>2, <1>3, WrittenAppend, WrittenIs
  <2>4. FoldChat(AllWritten, UserEvent(t)) = Begun(AllWritten)
    BY <1>3, EventSays DEF Begun
  <2>5. QueueFits' <=> Fitting(fold', writes')
    BY DEF QueueFits
  <2>6. AllWritten' = Written(fold', writes')
    BY DEF AllWritten, Written
  <2> QED  BY <1>1, <1>4, <2>2, <2>3, <2>4, <2>5, <2>6
<1>7. ASSUME NEW n \in 1..Len(writes), IsCall(writes[n])
      PROVE  /\ writes[n].ev.text[1] # t
             /\ msg'[writes[n].ev.text[1]].st = msg[writes[n].ev.text[1]].st
  <2>1. writes[n] \in Write
    BY <1>3
  <2>2. writes[n].ev.text \in Seq(Texts) /\ writes[n].ev.text # <<>>
    BY <1>7, <2>1 DEF MirrorInv, CallsFit, CallFits, IsCall, Write, Event
  <2>3. writes[n].ev.text[1] \in Texts
    BY <2>2
  <2>4. msg[writes[n].ev.text[1]].st \in {"write", "call"}
    BY <1>7 DEF MirrorInv, CallsFit, CallFits, IsCall
  <2>5. writes[n].ev.text[1] # t
    BY <2>4 DEF UserCall
  <2> QED  BY <2>3, <2>5 DEF UserCall
<1>8. \A n \in 1..Len(writes') : n \in 1..Len(writes) \/ n = Len(writes) + 1
  BY <1>3, <1>5
<1>9. \A n \in 1..Len(writes') : CallFits(writes'[n], msg')
  <2>1. ASSUME NEW n \in 1..Len(writes) PROVE CallFits(writes'[n], msg')
    <3>1. CallFits(writes[n], msg) /\ writes'[n] = writes[n]
      BY <1>5 DEF MirrorInv, CallsFit
    <3>2. CASE IsCall(writes[n])
      BY <1>7, <3>1, <3>2 DEF CallFits, IsCall
    <3>3. CASE ~IsCall(writes[n])
      BY <3>1, <3>3 DEF CallFits, IsCall
    <3> QED  BY <3>2, <3>3
  <2>2. CallFits(w, msg')
    BY <1>1 DEF CallFits, IsCall, UserCall
  <2> QED  BY <1>5, <1>8, <2>1, <2>2
<1>10. ASSUME NEW m \in 1..Len(writes'), NEW n \in 1..Len(writes'), m # n,
             IsCall(writes'[m]), IsCall(writes'[n])
       PROVE  writes'[m].ev.text[1] # writes'[n].ev.text[1]
  <2>1. CASE m \in 1..Len(writes) /\ n \in 1..Len(writes)
    <3>1. writes'[m] = writes[m] /\ writes'[n] = writes[n]
      BY <1>5, <2>1
    <3> QED  BY <1>10, <2>1, <3>1 DEF MirrorInv, CallsFit
  <2>2. CASE m = Len(writes) + 1
    <3>1. n \in 1..Len(writes) /\ writes'[n] = writes[n] /\ writes'[m] = w
      BY <1>5, <1>8, <1>10, <2>2
    <3> QED  BY <1>1, <1>7, <1>10, <3>1
  <2>3. CASE n = Len(writes) + 1
    <3>1. m \in 1..Len(writes) /\ writes'[m] = writes[m] /\ writes'[n] = w
      BY <1>5, <1>8, <1>10, <2>3
    <3> QED  BY <1>1, <1>7, <1>10, <3>1
  <2> QED  BY <1>8, <2>1, <2>2, <2>3
<1>11. CallsFit'
  BY <1>9, <1>10 DEF CallsFit
<1> QED  BY <1>5, <1>6, <1>11

\* The activity that the idle timer sees.
LEMMA TouchFields ==
  ASSUME NEW x \in RunRecord, NEW y, y = Touch(x)
  PROVE  /\ y.quiet = x.quiet /\ y.pc = x.pc /\ y.turning = x.turning /\ y.reaches = x.reaches
         /\ y.pickRelaunch = x.pickRelaunch /\ y.held = x.held /\ y.reopened = x.reopened
         /\ y.open = x.open /\ y.job = x.job /\ y.own = x.own
         /\ y.marker = x.marker /\ y.stopper = x.stopper
  BY DEF Touch, RunRecord

\* A message to a turn, or one that begins a turn.
LEMMA TurnLogs ==
  ASSUME TypeInv, TypeInv', MirrorInv, NEW t \in Texts, JoinTurn(t) \/ StartTurn(t) PROVE MirrorInv'
<1>1. /\ cur # NoRun /\ cur' = cur /\ Sent(t) /\ UNCHANGED <<fold, stopping, left, end, used>>
      /\ writes' = Append(writes, WThen(UserEvent(t), cur, "call"))
      /\ msg' = [msg EXCEPT ![t].st = "call"]
      /\ ~run[cur].pickRelaunch /\ (run[cur].turning => run[cur].reaches)
  BY DEF JoinTurn, StartTurn, chat, table, daemon
<1>2. /\ cur \in 1..used /\ cur \in Runs /\ cur \in 0..MaxRuns /\ run[cur] \in RunRecord /\ ~run[cur].quiet
      /\ run[cur].pc # "halted" /\ LogOf(run[cur], AllWritten, msg) /\ AllWritten \in Fold
  BY <1>1, CurFacts
<1>3. run[cur].reaches /\ ~InStart(run[cur]) /\ run[cur].pc \notin Before
  BY <1>1, <1>2 DEF LogOf, Shape, InStart
<1>4. PICK y : /\ run' = [run EXCEPT ![cur] = y] /\ ~y.quiet /\ y.pc \in {run[cur].pc, "prompt", "over"}
               /\ y.turning /\ y.reaches /\ ~y.pickRelaunch /\ y.held = run[cur].held
               /\ y.reopened = run[cur].reopened /\ y.open = run[cur].open
               /\ ~y.job /\ ~y.own /\ y.marker # "on" /\ y.stopper # "on"
  <2>1. CASE JoinTurn(t)
    <3> PICK y : y = Touch([run[cur] EXCEPT !.unsent = Append(@, t), !.job = FALSE, !.own = FALSE,
                                  !.steering = IF ~run[cur].cancelAsked /\ Connected(run[cur])
                                               THEN @ \union {t} ELSE @])
      OBVIOUS
    <3>1. run' = [run EXCEPT ![cur] = y] /\ run[cur].turning
      BY <2>1 DEF JoinTurn
    <3>2. run[cur].marker # "on" /\ run[cur].stopper # "on"
      BY <1>2, <3>1 DEF LogOf, Shape
    <3>3. /\ ~y.quiet /\ y.pc = run[cur].pc /\ y.turning /\ y.reaches /\ ~y.pickRelaunch
          /\ y.held = run[cur].held /\ y.reopened = run[cur].reopened /\ y.open = run[cur].open
          /\ ~y.job /\ ~y.own /\ y.marker # "on" /\ y.stopper # "on"
      BY <1>1, <1>2, <1>3, <3>1, <3>2 DEF Touch, RunRecord
    <3> QED  BY <3>1, <3>3
  <2>2. CASE StartTurn(t)
    <3> PICK x : x = [run[cur] EXCEPT !.turning = TRUE, !.job = FALSE, !.own = FALSE, !.ownStopped = FALSE]
      OBVIOUS
    <3> PICK z : z = Touch(StaleAll(x))
      OBVIOUS
    <3> PICK y : y = RunTurn(z)
      OBVIOUS
    <3>1. run' = [run EXCEPT ![cur] = y]
      BY <2>2 DEF StartTurn
    <3>2. /\ x \in RunRecord /\ ~x.quiet /\ x.turning /\ x.reaches /\ ~x.pickRelaunch
          /\ x.held = run[cur].held /\ x.reopened = run[cur].reopened /\ x.open = run[cur].open
          /\ ~x.job /\ ~x.own
      BY <1>1, <1>2, <1>3 DEF RunRecord
    <3>3. /\ z \in RunRecord /\ ~z.quiet /\ z.turning /\ z.reaches /\ ~z.pickRelaunch
          /\ z.held = x.held /\ z.reopened = x.reopened /\ z.open = x.open
          /\ ~z.job /\ ~z.own /\ z.marker # "on" /\ z.stopper # "on"
      <4> PICK v : v = StaleAll(x)
        OBVIOUS
      <4>1. v \in RunRecord /\ z = Touch(v)
        BY <3>2, StaleType
      <4>2. /\ ~v.quiet /\ v.turning /\ v.reaches /\ ~v.pickRelaunch
            /\ v.held = x.held /\ v.reopened = x.reopened /\ v.open = x.open
            /\ ~v.job /\ ~v.own /\ v.marker # "on" /\ v.stopper # "on"
        BY <3>2 DEF StaleAll, RunRecord
      <4>3. z \in RunRecord
        BY <4>1, TouchType
      <4>4. /\ z.quiet = v.quiet /\ z.turning = v.turning /\ z.reaches = v.reaches
            /\ z.pickRelaunch = v.pickRelaunch /\ z.held = v.held /\ z.reopened = v.reopened
            /\ z.open = v.open /\ z.job = v.job /\ z.own = v.own
            /\ z.marker = v.marker /\ z.stopper = v.stopper
        BY <4>1, TouchFields
      <4> QED  BY <4>2, <4>3, <4>4
    <3>4. /\ ~y.quiet /\ y.pc \in {"prompt", "over"} /\ y.turning /\ y.reaches /\ ~y.pickRelaunch
          /\ y.held = z.held /\ y.reopened = z.reopened /\ y.open = z.open
          /\ ~y.job /\ ~y.own /\ y.marker # "on" /\ y.stopper # "on"
      BY <3>3 DEF RunTurn, EndProcess, RunRecord
    <3> QED  BY <3>1, <3>2, <3>3, <3>4
  <2> QED  BY <2>1, <2>2
<1>5. run'[cur] = y /\ \A s \in 1..used : s # cur => run'[s] = run[s]
  BY <1>2, <1>4, RunGiven, Registry DEF TypeInv
<1>6. Free(t)
  BY <1>1, SentFree
<1>7. msg'[t].st = "call" /\ \A u \in Texts : u # t => msg'[u] = msg[u]
  BY <1>1 DEF TypeInv, TypeOK, Message
<1>8. MsgKept
  BY <1>6, <1>7, OneKept
<1>9. CallsFit' /\ QueueFits' /\ AllWritten' = Begun(AllWritten)
  <2>1. UserCall(t, cur, "call")
    BY <1>1, <1>6, <1>7 DEF UserCall, Free
  <2> QED  BY <1>1, <1>2, <2>1, UserCallHolds
<1>10. Aloof
  BY <1>1 DEF Aloof, MirrorInv, NoFaults
<1>11. Mutes'
  BY <1>1, <1>2, <1>4, <1>5 DEF MirrorInv, Mutes
<1>12. ~InStart(y) /\ y.pc \notin Before
  BY <1>3, <1>4 DEF InStart, Before
<1>13. LogFits'
  <2> PICK b : b = Begun(AllWritten)
    OBVIOUS
  <2>1. b.turn /\ b.job = FALSE /\ b.own = FALSE /\ b.open = AllWritten.open
    BY <1>2 DEF Begun, Fold
  <2>2. Shape(y)
    <3>1. /\ run[cur].pc = "resumed" => run[cur].held # <<>>
          /\ run[cur].pc = "held" => run[cur].held # <<>>
          /\ run[cur].reopened # "failed"
      BY <1>1, <1>2 DEF LogOf, Shape
    <3> QED  BY <1>4, <1>12, <3>1 DEF Shape
  <2>3. Mirrors(y, b)
    <3>1. y.job = FALSE /\ y.own = FALSE
      BY <1>1, <1>2, <1>4, <1>5, Registry DEF TypeInv, TypeOK, RunRecord
    <3>2. AllWritten.open = run[cur].open
      BY <1>2, <1>3 DEF LogOf, Mirrors, Before
    <3> QED  BY <1>4, <1>12, <2>1, <3>1, <3>2 DEF Mirrors, Before
  <2>4. StartShows(y, b, msg')
    BY <2>1 DEF StartShows
  <2>5. NoBackground(y)
    BY <1>4 DEF NoBackground
  <2>6. LogOf(run[cur], AllWritten, msg)'
    BY <1>1, <1>5, <1>9, <2>2, <2>3, <2>4, <2>5 DEF LogOf
  <2> QED  BY <1>1, <2>6 DEF LogFits
<1>14. HeldsFit'
  <2>1. ASSUME NEW s \in 1..used PROVE HeldGoesOn(s)
    <3>1. CASE s = cur
      BY <1>2, <1>3, <1>4, <1>5, <1>12, <3>1 DEF HeldGoesOn
    <3>2. CASE s # cur
      BY <1>5, <3>2 DEF HeldGoesOn
    <3> QED  BY <3>1, <3>2
  <2> QED  BY <1>1, <1>8, <2>1, HeldsKeep DEF MirrorInv
<1>15. UsersFit'
  BY <1>1, <1>5, <1>12 DEF UsersFit
<1>16. NoFaults'
  <2>1. \A s \in Runs : run'[s].pc # "halted"
    BY <1>2, <1>4 DEF MirrorInv, NoFaults, TypeInv, TypeOK
  <2> QED  BY <1>8, <1>10, <2>1, NoFaultsKeep DEF MirrorInv
<1> QED  BY <1>9, <1>11, <1>13, <1>14, <1>15, <1>16 DEF MirrorInv

\* A message that waits in a start that goes on: the start is the one of the current run.
HoldsAt(r, t, i) ==
  /\ i \in 1..Len(run[r].held) /\ run[r].held[i] = t
  /\ \A j \in 1..(i - 1) : Settled(run[r].held[j])

\* Such a message finds its run current, and in its start.
LEMMA HoldFacts ==
  ASSUME TypeInv, MirrorInv, NEW r \in 1..used, NEW t \in Texts, HoldsNow(r, t), msg[t].st = "wait",
         ~run[r].quiet
  PROVE  /\ cur = r /\ cur # NoRun /\ InStart(run[r]) /\ ~run[r].pickRelaunch
         /\ run[r].reopened # "failed" /\ (run[r].pc \in Before => run[r].reopened = "wait")
         /\ msg[t].run = r /\ \E i \in 1..Len(run[r].held) : HoldsAt(r, t, i)
<1>1. run[r] \in RunRecord
  BY Registry DEF TypeInv
<1>2. run[r].held \in Seq(Texts) /\ DOMAIN run[r].held = 1..Len(run[r].held)
  BY <1>1 DEF RunRecord
<1>3. PICK i \in 1..Len(run[r].held) : HoldsAt(r, t, i)
  BY <1>2 DEF HoldsNow, HoldsAt
<1>4. HeldFits(r, i) /\ run[r].held[i] = t
  BY <1>3 DEF MirrorInv, HeldsFit, HoldsAt
<1>5. InStart(run[r]) /\ ~run[r].pickRelaunch
  BY <1>4 DEF HeldFits
<1>6. cur = r /\ cur # NoRun
  BY <1>5, WorkIsCur DEF InStart
<1>7. run[r].reopened # "failed" /\ (run[r].pc \in Before => run[r].reopened = "wait")
  BY <1>6, CurFacts DEF LogOf, Shape
<1> QED  BY <1>3, <1>5, <1>6, <1>7 DEF HoldsNow

\* What the end of a wait leaves of the record of a run.
LEMMA HoldFailedFields ==
  ASSUME NEW x \in RunRecord, NEW y, y = HoldFailed(x)
  PROVE  /\ y.quiet = x.quiet /\ y.turning = x.turning /\ y.reaches = x.reaches
         /\ y.pickRelaunch = x.pickRelaunch /\ y.held = x.held /\ y.reopened = x.reopened
         /\ y.open = x.open /\ y.job = x.job /\ y.own = x.own /\ y.idle = x.idle
         /\ y.marker = x.marker /\ y.stopper = x.stopper /\ y.proc = x.proc /\ y.handled = x.handled
         /\ y.pc = x.pc \/ (x.pc = "hold" /\ y.pc = "over")
  BY DEF HoldFailed, RunRecord

\* A message whose start failed, or whose run ended, is refused or starts over.
LEMMA HoldLeftLogs ==
  ASSUME TypeInv, TypeInv', MirrorInv, NEW r \in 1..used, NEW t \in Texts,
         HoldRefused(r, t) \/ HoldAgain(r, t)
  PROVE  MirrorInv'
<1>1. /\ HoldsNow(r, t) /\ msg[t].st = "wait" /\ run' = [run EXCEPT ![r] = HoldFailed(@)]
      /\ UNCHANGED <<fold, writes, cur, used, stopping, left, end>>
      /\ run[r].quiet \/ run[r].reopened = "failed"
  BY DEF HoldRefused, HoldAgain, chat, table, daemon
<1>2. run[r].quiet
  BY <1>1, HoldFacts
<1>3. msg'[t].st \in {"refused", "again"} /\ \A u \in Texts : u # t => msg'[u] = msg[u]
  BY DEF HoldRefused, HoldAgain, TypeInv, TypeOK, Message
<1>4. MsgKept
  BY <1>1, <1>2, <1>3, QuietFree, OneKept DEF HoldsNow
<1> PICK y : y = HoldFailed(run[r])
  OBVIOUS
<1>5. run[r] \in RunRecord /\ run[r].pc # "halted"
  BY Registry DEF TypeInv, MirrorInv, NoFaults
<1>6. y.quiet /\ y.pc # "halted" /\ (Mute(run[r]) => Mute(y))
  BY <1>2, <1>5, HoldFailedFields DEF Mute
<1>7. run' = [run EXCEPT ![r] = y]
  BY <1>1
<1>8. Calls(AllWritten) /\ Aloof
  BY <1>1, CallsNothing DEF Aloof, MirrorInv, NoFaults
<1> QED  BY <1>1, <1>2, <1>4, <1>6, <1>7, <1>8, QuietHolds

\* Only a message begins a turn in the log.
LEMMA TurnNeedsUser ==
  ASSUME NEW f \in Fold, NEW ws \in Seq(Write), ~f.turn, \A n \in 1..Len(ws) : ws[n].ev.kind # "user"
  PROVE  ~Written(f, ws).turn
<1> DEFINE g == Folds(f, ws)
           S == {n \in Nat : n <= Len(ws) => ~g[n].turn}
<1>1. Len(ws) \in Nat /\ Chain(g, f, ws, Len(ws))
  BY FoldsIs
<1>2. \A n \in 0..Len(ws) : g[n] \in Fold
  BY <1>1, ChainType
<1>3. 0 \in S
  BY <1>1 DEF Chain
<1>4. ASSUME NEW n \in Nat, n \in S PROVE n + 1 \in S
  <2> SUFFICES ASSUME n + 1 <= Len(ws) PROVE ~g[n + 1].turn
    OBVIOUS
  <2>1. n + 1 \in 1..Len(ws) /\ (n + 1) - 1 = n /\ ~g[n].turn /\ n \in 0..Len(ws)
    BY <1>1, <1>4
  <2>2. g[n + 1] = FoldChat(g[n], ws[n + 1].ev)
    BY <1>1, <2>1 DEF Chain
  <2>3. g[n] \in Fold /\ ws[n + 1].ev.kind # "user"
    BY <1>2, <2>1
  <2> HIDE DEF g
  <2>4. ~FoldChat(g[n], ws[n + 1].ev).turn
    BY <2>1, <2>3 DEF FoldChat, Fold, NothingRuns, ChatStart
  <2> QED  BY <2>2, <2>4
<1> HIDE DEF S
<1>5. \A n \in Nat : n \in S
  BY <1>3, <1>4, AllNumbers
<1> QED  BY <1>1, <1>5 DEF S, Written

\* A start whose message still waits has no turn in the log, unless it had one before.
LEMMA StartIdle ==
  ASSUME TypeInv, MirrorInv, NEW r \in 1..used, NEW t \in Texts, HoldsNow(r, t), msg[t].st = "wait",
         ~run[r].quiet, run[r].reopened \in {"none", "ok"}, ~ChatBusy(fold)
  PROVE  ~AgentActive(AllWritten)
<1>1. /\ cur = r /\ cur # NoRun /\ InStart(run[r]) /\ ~run[r].pickRelaunch /\ run[r].pc \notin Before
      /\ \E i \in 1..Len(run[r].held) : HoldsAt(r, t, i)
  BY HoldFacts
<1>2. PICK i \in 1..Len(run[r].held) : HoldsAt(r, t, i)
  BY <1>1
<1>3. run[r].held \in Seq(Texts) /\ Len(run[r].held) \in Nat
  BY Registry DEF TypeInv, RunRecord
<1>4. ASSUME NEW n \in 1..Len(writes), writes[n].ev.kind = "user" PROVE FALSE
  <2>1. HeldUser(run[r], writes[n]) /\ CallFits(writes[n], msg)
    BY <1>1 DEF MirrorInv, UsersFit, CallsFit
  <2>2. PICK k \in 1..Len(run[r].held) : run[r].held[k] = writes[n].ev.text[1]
    BY <1>4, <2>1 DEF HeldUser
  <2>3. msg[run[r].held[k]].st = "write"
    BY <1>4, <2>1, <2>2 DEF HeldUser, CallFits
  <2>4. HeldFits(r, k)
    BY DEF MirrorInv, HeldsFit
  <2>5. ~Settled(t) /\ ~Settled(run[r].held[k]) /\ k # i
    BY <1>2, <2>3 DEF Settled, HoldsAt
  <2>6. CASE k < i
    <3>1. k \in 1..(i - 1)
      BY <1>3, <2>6
    <3> QED  BY <1>2, <2>5, <3>1 DEF HoldsAt
  <2>7. CASE i < k
    <3>1. i \in 1..(k - 1)
      BY <1>3, <2>7
    <3> QED  BY <1>2, <2>3, <2>4, <2>5, <3>1 DEF HoldsAt, HeldFits
  <2>8. k < i \/ i < k
    BY <1>3, <2>5
  <2> QED  BY <2>6, <2>7, <2>8
<1>5. ~AllWritten.turn
  <2>1. ~fold.turn
    BY DEF ChatBusy, AgentActive, TurnRuns
  <2> QED  BY <1>4, <2>1, LogTyped, TurnNeedsUser, WrittenIs
<1>6. AllWritten.job = run[r].job /\ AllWritten.own = run[r].own /\ ~run[r].job /\ ~run[r].own
  BY <1>1, CurFacts DEF LogOf, Shape, Mirrors, Before
<1> QED  BY <1>5, <1>6 DEF AgentActive, TurnRuns

\* A message of the current start that goes on, while the start does.
LEMMA OneHeldMoves ==
  ASSUME TypeInv, MirrorInv, cur # NoRun, cur' = cur, used' = used, stopping => stopping',
         NEW t \in Texts, NEW i \in 1..Len(run[cur].held), HoldsAt(cur, t, i), msg[t].st = "wait",
         \A u \in Texts : u # t => msg'[u] = msg[u], msg'[t].run = cur,
         msg'[t].st \in {"write", "refused"}, msg'[t].st = "refused" => stopping',
         InStart(run[cur]), ~run[cur].pickRelaunch, run[cur].pc \notin Before,
         NEW y, run'[cur] = y, \A s \in 1..used : s # cur => run'[s] = run[s],
         InStart(y), ~y.pickRelaunch, y.pc \notin Before, y.held = run[cur].held
  PROVE  HeldsFit'
<1>1. /\ cur \in 1..used /\ run[cur].held \in Seq(Texts) /\ Len(run[cur].held) \in Nat
      /\ \A j \in 1..Len(run[cur].held) : run[cur].held[j] \in Texts
  BY CurFacts DEF RunRecord
<1>2. ASSUME NEW s \in 1..used, ~run[s].quiet, NEW j \in 1..Len(run[s].held) PROVE HeldFits(s, j)
  BY <1>2 DEF MirrorInv, HeldsFit
<1> SUFFICES ASSUME NEW s \in 1..used, ~run'[s].quiet, NEW j \in 1..Len(run'[s].held)
             PROVE  HeldFits(s, j)'
  BY DEF HeldsFit
<1>3. ~run[cur].quiet
  BY CurFacts
<1>4. msg[t].run = cur
  <2>1. HeldFits(cur, i) /\ run[cur].held[i] = t
    BY <1>1, <1>2, <1>3 DEF HoldsAt
  <2> QED  BY <2>1 DEF HeldFits
<1>5. CASE s # cur
  <2> PICK x : x = run[s]
    OBVIOUS
  <2>1. run'[s] = x /\ ~x.quiet /\ j \in 1..Len(x.held)
    BY <1>5
  <2>2. x.held \in Seq(Texts) /\ Len(x.held) \in Nat
    BY Registry DEF TypeInv, RunRecord
  <2>3. ASSUME NEW k \in 1..Len(x.held) PROVE x.held[k] # t /\ msg'[x.held[k]] = msg[x.held[k]]
    <3>1. HeldFits(s, k) /\ x.held[k] \in Texts
      BY <1>2, <2>1, <2>2
    <3> QED  BY <1>4, <1>5, <3>1 DEF HeldFits
  <2>4. HeldFits(s, j)
    BY <1>2, <2>1
  <2> PICK u : u = x.held[j]
    OBVIOUS
  <2>5. /\ msg[u].run = s /\ msg[u].st \in {"wait", "write", "done", "refused"}
        /\ msg[u].st \in {"wait", "write"} => InStart(x) /\ ~x.pickRelaunch
        /\ msg[u].st = "refused" => stopping
        /\ msg[u].st = "write" => \A k \in 1..(j - 1) : msg[x.held[k]].st \in {"done", "refused"}
        /\ x.pc \in Before => msg[u].st = "wait"
        /\ \A k \in 1..(j - 1) : x.held[k] # u
    BY <2>4 DEF HeldFits, Settled
  <2>6. msg'[u] = msg[u]
    BY <2>1, <2>3
  <2>7. \A k \in 1..(j - 1) : msg'[x.held[k]] = msg[x.held[k]]
    BY <2>1, <2>2, <2>3
  <2>8. /\ run'[s] = x /\ x.held[j] = u /\ msg'[u].run = s
        /\ msg'[u].st \in {"wait", "write", "done", "refused"}
        /\ msg'[u].st \in {"wait", "write"} => InStart(x) /\ ~x.pickRelaunch
        /\ msg'[u].st = "refused" => stopping'
        /\ msg'[u].st = "write" => \A k \in 1..(j - 1) : msg'[x.held[k]].st \in {"done", "refused"}
        /\ x.pc \in Before => msg'[u].st = "wait"
        /\ \A k \in 1..(j - 1) : x.held[k] # u
    BY <2>1, <2>5, <2>6, <2>7
  <2>20. HeldNext(s, j, x, u)
    BY <2>8 DEF HeldNext
  <2> QED  BY <2>20, HeldIs
<1>6. CASE s = cur
  <2> PICK x : x = run[cur]
    OBVIOUS
  <2>1. run'[s] = y /\ j \in 1..Len(x.held) /\ y.held = x.held
    BY <1>6
  <2>2. ASSUME NEW k \in 1..Len(x.held), k # i PROVE x.held[k] # t /\ msg'[x.held[k]] = msg[x.held[k]]
    <3>1. HeldFits(cur, k) /\ HeldFits(cur, i) /\ x.held[i] = t /\ x.held[k] \in Texts
      BY <1>1, <1>2, <1>3 DEF HoldsAt
    <3>2. k \in 1..(i - 1) \/ i \in 1..(k - 1)
      BY <1>1, <2>2
    <3>3. x.held[k] # t
      BY <3>1, <3>2 DEF HeldFits
    <3> QED  BY <3>1, <3>3
  <2>3. HeldFits(cur, j)
    BY <1>1, <1>2, <1>3, <2>1
  <2> PICK u : u = x.held[j]
    OBVIOUS
  <2>4. /\ msg[u].run = s /\ msg[u].st \in {"wait", "write", "done", "refused"}
        /\ msg[u].st = "refused" => stopping
        /\ msg[u].st = "write" => \A k \in 1..(j - 1) : Settled(x.held[k])
        /\ \A k \in 1..(j - 1) : x.held[k] # u
    BY <1>6, <2>3 DEF HeldFits
  <2>5. ~Settled(t) /\ x.held[i] = t /\ \A k \in 1..(i - 1) : Settled(x.held[k])
    BY DEF Settled, HoldsAt
  <2>6. CASE j = i
    <3>1. u = t
      BY <2>5, <2>6
    <3>2. ASSUME NEW k \in 1..(i - 1) PROVE msg'[x.held[k]].st \in {"done", "refused"}
      <4>1. k \in 1..Len(x.held) /\ k # i /\ Settled(x.held[k])
        BY <1>1, <2>5
      <4> QED  BY <2>2, <4>1 DEF Settled
    <3>3. /\ run'[s] = y /\ y.held[j] = u /\ msg'[u].run = s
          /\ msg'[u].st \in {"wait", "write", "done", "refused"}
          /\ msg'[u].st \in {"wait", "write"} => InStart(y) /\ ~y.pickRelaunch
          /\ msg'[u].st = "refused" => stopping'
          /\ msg'[u].st = "write" => \A k \in 1..(j - 1) : msg'[y.held[k]].st \in {"done", "refused"}
          /\ y.pc \in Before => msg'[u].st = "wait"
          /\ \A k \in 1..(j - 1) : y.held[k] # u
      BY <1>6, <2>1, <2>4, <2>6, <3>1, <3>2
    <3>20. HeldNext(s, j, y, u)
      BY <3>3 DEF HeldNext
    <3> QED  BY <3>20, HeldIs
  <2>7. CASE j # i
    <3>1. msg'[u] = msg[u] /\ u # t
      BY <2>1, <2>2, <2>7
    <3>2. msg[u].st = "write" => \A k \in 1..(j - 1) : k # i /\ msg'[y.held[k]].st \in {"done", "refused"}
      <4>1. \A k \in 1..(j - 1) : k \in 1..Len(x.held)
        BY <1>1, <2>1
      <4> QED  BY <2>1, <2>2, <2>4, <2>5, <4>1 DEF Settled
    <3>3. /\ run'[s] = y /\ y.held[j] = u /\ msg'[u].run = s
          /\ msg'[u].st \in {"wait", "write", "done", "refused"}
          /\ msg'[u].st \in {"wait", "write"} => InStart(y) /\ ~y.pickRelaunch
          /\ msg'[u].st = "refused" => stopping'
          /\ msg'[u].st = "write" => \A k \in 1..(j - 1) : msg'[y.held[k]].st \in {"done", "refused"}
          /\ y.pc \in Before => msg'[u].st = "wait"
          /\ \A k \in 1..(j - 1) : y.held[k] # u
      BY <2>1, <2>4, <3>1, <3>2
    <3>20. HeldNext(s, j, y, u)
      BY <3>3 DEF HeldNext
    <3> QED  BY <3>20, HeldIs
  <2> QED  BY <2>6, <2>7
<1> QED  BY <1>5, <1>6

\* A message of a start is written.
LEMMA HoldWriteLogs ==
  ASSUME TypeInv, TypeInv', MirrorInv, NEW r \in 1..used, NEW t \in Texts, HoldWrite(r, t) PROVE MirrorInv'
<1>1. /\ HoldsNow(r, t) /\ msg[t].st = "wait" /\ ~run[r].quiet /\ run[r].reopened \in {"none", "ok"}
      /\ ~stopping /\ msg' = [msg EXCEPT ![t].st = "write"]
      /\ writes' = Append(writes, WThen(UserEvent(t), r, "hold"))
      /\ UNCHANGED <<fold, run, cur, used, stopping, left, end>>
  BY DEF HoldWrite, chat, table, daemon
<1>2. /\ cur = r /\ cur # NoRun /\ InStart(run[r]) /\ ~run[r].pickRelaunch /\ run[r].pc \notin Before
      /\ msg[t].run = r /\ \E i \in 1..Len(run[r].held) : HoldsAt(r, t, i)
  BY <1>1, HoldFacts
<1>3. /\ r \in 0..MaxRuns /\ run[r] \in RunRecord /\ LogOf(run[r], AllWritten, msg) /\ AllWritten \in Fold
  BY <1>2, CurFacts
<1>4. PICK i \in 1..Len(run[r].held) : HoldsAt(r, t, i)
  BY <1>2
<1>5. msg'[t].st = "write" /\ msg'[t].run = r /\ \A u \in Texts : u # t => msg'[u] = msg[u]
  BY <1>1, <1>2 DEF TypeInv, TypeOK, Message
<1>6. /\ CallsFit' /\ QueueFits' /\ AllWritten' = Begun(AllWritten)
      /\ Len(writes') = Len(writes) + 1
      /\ \A n \in 1..Len(writes) : writes'[n] = writes[n]
      /\ writes'[Len(writes) + 1] = WThen(UserEvent(t), r, "hold")
  <2>1. UserCall(t, r, "hold")
    BY <1>1, <1>5 DEF UserCall
  <2> QED  BY <1>1, <1>3, <2>1, UserCallHolds
<1>7. Mutes'
  BY <1>1 DEF MirrorInv, Mutes
<1>8. LogFits'
  <2> PICK b : b = Begun(AllWritten)
    OBVIOUS
  <2> PICK x : x = run[r]
    OBVIOUS
  <2>1. b.turn /\ b.job = FALSE /\ b.own = FALSE /\ b.open = AllWritten.open
    BY <1>3 DEF Begun, Fold
  <2>2. Shape(x)
    BY <1>3 DEF LogOf
  <2>3. Mirrors(x, b)
    <3>1. x.job = FALSE /\ x.own = FALSE
      BY <1>2, <1>3 DEF LogOf, Shape, RunRecord
    <3>2. AllWritten.open = x.open
      BY <1>2, <1>3 DEF LogOf, Mirrors, Before
    <3> QED  BY <1>2, <2>1, <3>1, <3>2 DEF Mirrors, InStart, Before
  <2>4. StartShows(x, b, msg')
    BY <2>1 DEF StartShows
  <2>5. ~HasBackground' => NoBackground(x)
    BY <1>1, <1>3 DEF LogOf, HasBackground
  <2>6. LogOf(run[cur], AllWritten, msg)'
    BY <1>1, <1>2, <1>6, <2>2, <2>3, <2>4, <2>5 DEF LogOf
  <2> QED  BY <1>1, <1>2, <2>6 DEF LogFits
<1>9. HeldsFit'
  <2>1. HoldsAt(cur, t, i) /\ i \in 1..Len(run[cur].held) /\ run'[cur] = run[cur]
    BY <1>1, <1>2, <1>4
  <2>2. /\ cur' = cur /\ used' = used /\ (stopping => stopping') /\ msg'[t].run = cur
        /\ msg'[t].st \in {"write", "refused"} /\ (msg'[t].st = "refused" => stopping')
        /\ InStart(run[cur]) /\ ~run[cur].pickRelaunch /\ run[cur].pc \notin Before
        /\ \A s \in 1..used : s # cur => run'[s] = run[s]
    BY <1>1, <1>2, <1>5
  <2> QED  BY <1>1, <1>2, <1>5, <2>1, <2>2, OneHeldMoves
<1>10. UsersFit'
  <2>1. \A n \in 1..Len(writes) : HeldUser(run[r], writes[n])
    BY <1>2 DEF MirrorInv, UsersFit
  <2>2. HeldUser(run[r], WThen(UserEvent(t), r, "hold"))
    <3>1. WThen(UserEvent(t), r, "hold").cont = "hold" /\ WThen(UserEvent(t), r, "hold").ev.text[1] = t
      <4>1. WThen(UserEvent(t), r, "hold").ev.text = <<t>>
        BY DEF WThen, UserEvent, Plain
      <4>2. <<t>>[1] = t
        OBVIOUS
      <4> QED  BY <4>1, <4>2 DEF WThen
    <3> QED  BY <1>4, <3>1 DEF HeldUser, HoldsAt
  <2>3. \A n \in 1..Len(writes') : HeldUser(run[r], writes'[n])
    <3>1. Len(writes) \in Nat
      BY LogTyped
    <3> QED  BY <1>6, <2>1, <2>2, <3>1
  <2>4. run[r].pc # "interrupt"
    BY <1>2 DEF Before
  <2> QED  BY <1>1, <1>2, <2>3, <2>4 DEF UsersFit
<1>11. NoFaults'
  <2>1. \A u \in Texts : msg'[u].st # "halt"
    BY <1>5 DEF MirrorInv, NoFaults
  <2> QED  BY <1>1, <2>1 DEF MirrorInv, NoFaults
<1> QED  BY <1>6, <1>7, <1>8, <1>9, <1>10, <1>11 DEF MirrorInv

\* A message that waits while the daemon stops is refused.
LEMMA HoldStoppingLogs ==
  ASSUME TypeInv, TypeInv', MirrorInv, NEW r \in 1..used, NEW t \in Texts, HoldStopping(r, t)
  PROVE  MirrorInv'
<1>1. /\ HoldsNow(r, t) /\ msg[t].st = "wait" /\ run[r].reopened \in {"none", "ok"} /\ stopping
      /\ msg' = [msg EXCEPT ![t].st = "refused"]
      /\ UNCHANGED <<fold, writes, used, stopping, left, end>>
  BY DEF HoldStopping, chat, table, daemon
<1>2. msg'[t].st = "refused" /\ msg'[t].run = msg[t].run /\ \A u \in Texts : u # t => msg'[u] = msg[u]
  BY <1>1 DEF TypeInv, TypeOK, Message
<1>3. msg[t].run = r
  BY <1>1 DEF HoldsNow
<1>4. Calls(AllWritten) /\ Aloof
  BY <1>1, CallsNothing DEF Aloof, MirrorInv, NoFaults
<1>5. run[r] \in RunRecord /\ run[r].pc # "halted"
  BY Registry DEF TypeInv, MirrorInv, NoFaults
<1> PICK z : z = Silence(run[r])
  OBVIOUS
<1> PICK y : y = IF ChatBusy(fold) THEN HoldFailed(run[r]) ELSE HoldFailed(z)
  OBVIOUS
<1>6. run' = [run EXCEPT ![r] = y]
  BY DEF HoldStopping
<1>7. z \in RunRecord /\ z.quiet /\ Mute(z) /\ z.pc = run[r].pc
  BY <1>5, SilenceType DEF Silence, Mute, RunRecord
<1>8. CASE run[r].quiet
  <2>1. MsgKept
    BY <1>1, <1>2, <1>3, <1>8, QuietFree, OneKept
  <2>2. cur' = cur
    BY <1>8, CurFacts DEF HoldStopping, Forget
  <2>3. y.quiet /\ y.pc # "halted" /\ (Mute(run[r]) => Mute(y))
    <3>1. CASE ChatBusy(fold)
      BY <1>5, <1>8, <3>1, HoldFailedFields DEF Mute
    <3>2. CASE ~ChatBusy(fold)
      BY <1>5, <1>7, <3>2, HoldFailedFields DEF Mute
    <3> QED  BY <3>1, <3>2
  <2> QED  BY <1>4, <1>6, <1>8, <2>1, <2>2, <2>3, QuietHolds
<1>9. CASE ~run[r].quiet
  <2>1. /\ cur = r /\ cur # NoRun /\ InStart(run[r]) /\ ~run[r].pickRelaunch /\ run[r].pc \notin Before
        /\ \E i \in 1..Len(run[r].held) : HoldsAt(r, t, i)
    BY <1>1, <1>9, HoldFacts
  <2>2. run'[r] = y /\ \A s \in Runs : s # r => run'[s] = run[s]
    BY <1>6, RunGiven
  <2>3. CASE ChatBusy(fold)
    <3>1. cur' = cur /\ y = HoldFailed(run[r])
      BY <2>3 DEF HoldStopping
    <3> PICK x : x = run[r]
      OBVIOUS
    <3>2. /\ ~y.quiet /\ y.turning = x.turning /\ y.reaches = x.reaches
          /\ y.pickRelaunch = x.pickRelaunch /\ y.held = x.held /\ y.reopened = x.reopened
          /\ y.open = x.open /\ y.job = x.job /\ y.own = x.own
          /\ y.marker = x.marker /\ y.stopper = x.stopper
          /\ y.pc = x.pc \/ (x.pc = "hold" /\ y.pc = "over")
      <4>1. y.pc = x.pc \/ (x.pc = "hold" /\ y.pc = "over")
        BY <1>5, <3>1, HoldFailedFields
      <4> QED  BY <1>5, <1>9, <3>1, <4>1, HoldFailedFields
    <3>3. InStart(y) /\ ~y.pickRelaunch /\ y.pc \notin Before /\ y.pc # "halted"
      BY <1>5, <2>1, <3>2 DEF InStart, Before
    <3>4. QueueGrows /\ QueueFits' /\ AllWritten' = AllWritten
      BY <1>4, CallsGrow DEF MirrorInv
    <3>5. CallsFit'
      <4>1. CallsStay
        BY <1>1, <1>2 DEF CallsStay
      <4> QED  BY <3>4, <4>1, CallsFitOn DEF MirrorInv
    <3>6. Mutes'
      BY <1>1, <2>1, <2>2, <3>1, <3>2, Registry DEF MirrorInv, Mutes, TypeInv
    <3>7. LogFits'
      <4>1. LogOf(x, AllWritten, msg)
        BY <2>1, CurFacts
      <4>2. Shape(y)
        BY <2>1, <3>2, <3>3, <4>1 DEF LogOf, Shape, InTurn, InStart
      <4>3. Mirrors(y, AllWritten)
        BY <2>1, <3>2, <3>3, <4>1 DEF LogOf, Mirrors, InTurn, Before
      <4>4. StartShows(y, AllWritten, msg')
        <5>1. \A i \in 1..Len(x.held) :
                 msg'[x.held[i]].st \in {"write", "done"} => msg[x.held[i]].st \in {"write", "done"}
          <6>1. \A i \in 1..Len(x.held) : x.held[i] \in Texts
            BY <1>5 DEF RunRecord
          <6> QED  BY <1>2, <6>1
        <5> QED  BY <2>1, <3>2, <3>3, <4>1, <5>1 DEF LogOf, StartShows
      <4>5. ~HasBackground' => NoBackground(y)
        BY <1>1, <3>2, <4>1 DEF LogOf, NoBackground, HasBackground
      <4>6. LogOf(run[cur], AllWritten, msg)'
        BY <2>1, <2>2, <3>1, <3>4, <4>2, <4>3, <4>4, <4>5 DEF LogOf
      <4> QED  BY <2>1, <3>1, <4>6 DEF LogFits
    <3>8. HeldsFit'
      <4>1. PICK i \in 1..Len(run[r].held) : HoldsAt(r, t, i)
        BY <2>1
      <4>2. HoldsAt(cur, t, i) /\ i \in 1..Len(run[cur].held) /\ run'[cur] = y
        BY <2>1, <2>2, <4>1
      <4>3. /\ cur' = cur /\ used' = used /\ (stopping => stopping') /\ msg'[t].run = cur
            /\ msg'[t].st \in {"write", "refused"} /\ (msg'[t].st = "refused" => stopping')
            /\ InStart(run[cur]) /\ ~run[cur].pickRelaunch /\ run[cur].pc \notin Before
            /\ y.held = run[cur].held
        BY <1>1, <1>2, <1>3, <2>1, <3>1, <3>2
      <4>4. \A s \in 1..used : s # cur => run'[s] = run[s]
        BY <2>1, <2>2, Registry DEF TypeInv
      <4> QED  BY <1>1, <1>2, <2>1, <3>3, <4>2, <4>3, <4>4, OneHeldMoves
    <3>9. UsersFit'
      <4>1. StartGoesOn(run[cur], run'[cur])
        BY <2>1, <2>2, <3>2, <3>3 DEF StartGoesOn, Before
      <4> QED  BY <3>1, <3>4, <4>1, UsersKeep DEF MirrorInv
    <3>10. NoFaults'
      <4>1. \A s \in Runs : run'[s].pc # "halted"
        BY <2>2, <3>3 DEF MirrorInv, NoFaults
      <4>2. \A u \in Texts : msg'[u].st # "halt"
        BY <1>2 DEF MirrorInv, NoFaults
      <4> QED  BY <1>1, <4>1, <4>2 DEF MirrorInv, NoFaults
    <3> QED  BY <3>4, <3>5, <3>6, <3>7, <3>8, <3>9, <3>10 DEF MirrorInv
  <2>4. CASE ~ChatBusy(fold)
    <3>1. cur' = NoRun /\ y = HoldFailed(z)
      BY <2>1, <2>4 DEF HoldStopping, Forget
    <3>2. y.quiet /\ Mute(y) /\ y.pc # "halted"
      BY <1>5, <1>7, <3>1, HoldFailedFields DEF Mute
    <3>3. ~AgentActive(AllWritten)
      BY <1>1, <1>9, <2>4, StartIdle
    <3>4. MsgKept
      <4>1. ASSUME NEW s \in 1..used, ~run[s].quiet, ~run'[s].quiet, NEW i \in 1..Len(run[s].held)
            PROVE  run[s].held[i] # t
        <5>1. s # r
          BY <2>2, <3>2, <4>1
        <5>2. HeldFits(s, i)
          BY <4>1 DEF MirrorInv, HeldsFit
        <5> QED  BY <1>3, <5>1, <5>2 DEF HeldFits
      <4>2. Frees(t)
        BY <1>1, <4>1 DEF Frees
      <4> QED  BY <1>2, <4>2 DEF MsgKept
    <3>5. Leaves(run[r], y)
      BY <3>2 DEF Leaves, StaysOut
    <3>6. cur' = IF cur = r THEN NoRun ELSE cur
      BY <2>1, <3>1
    <3> QED  BY <1>4, <1>6, <2>1, <3>3, <3>4, <3>5, <3>6, LeaveHolds
  <2> QED  BY <2>3, <2>4
<1> QED  BY <1>8, <1>9

-----------------------------------------------------------------------------
(* The steps that end a run. *)

\* A run that fails, if it is still the one of the chat.
LEMMA FailLogs ==
  ASSUME TypeInv, TypeInv', MirrorInv, NEW r \in 1..used, run[r].quiet \/ cur = r, Rests, fold' = fold,
         NEW x, x.quiet = run[r].quiet, writes' = writes \o FailWrites(x, r),
         NEW y, run' = [run EXCEPT ![r] = y], y.quiet, Mute(y), y.pc # "halted",
         cur' = IF cur = r THEN NoRun ELSE cur
  PROVE  MirrorInv'
<1>1. r \in 0..MaxRuns /\ AllWritten \in Fold
  BY Registry, LogTyped DEF TypeInv
<1>2. Aloof /\ MsgKept
  BY RestsAloof
<1>3. Leaves(run[r], y)
  BY DEF Leaves, StaysOut
<1>4. CASE run[r].quiet
  <2>1. Calls(AllWritten)
    BY <1>1, <1>4, FailSays, CallsSays
  <2>2. cur # r
    BY <1>4 DEF MirrorInv, Mutes, NoRun
  <2> QED  BY <1>2, <1>3, <2>1, <2>2, LeaveHolds
<1>5. CASE ~run[r].quiet
  <2> PICK b : b = NothingRuns(AllWritten, "failed")
    OBVIOUS
  <2>1. Calls(b)
    <3>1. Says(FailWrites(x, r), AllWritten, b)
      BY <1>1, <1>5, FailSays
    <3> QED  BY <3>1, CallsSays
  <2>2. ~AgentActive(b)
    BY DEF NothingRuns, ChatStart, AgentActive, TurnRuns
  <2> QED  BY <1>2, <1>3, <1>5, <2>1, <2>2, LeaveHolds
<1> QED  BY <1>4, <1>5

\* A run that fails goes quiet where it is.
LEMMA FailFields ==
  ASSUME NEW x \in RunRecord, NEW y, y = Fail(x)
  PROVE  y \in RunRecord /\ y.quiet /\ y.pc = x.pc
<1>1. y \in RunRecord
  BY FailType
<1>2. CASE x.quiet
  BY <1>1, <1>2 DEF Fail
<1>3. CASE ~x.quiet
  BY <1>1, <1>3 DEF Fail, Silence, RunRecord
<1> QED  BY <1>2, <1>3

\* What a change of the background leaves of the record of a run.
LEMMA BackgroundFields ==
  ASSUME NEW x \in RunRecord, NEW job \in BOOLEAN, NEW own \in BOOLEAN,
         NEW y, y = SetBackground(x, job, own)
  PROVE  /\ y \in RunRecord /\ y.quiet = x.quiet /\ y.turning = x.turning /\ y.handled = x.handled
         /\ y.proc = x.proc /\ y.held = x.held /\ y.pc = x.pc /\ y.reaches = x.reaches
         /\ y.pickRelaunch = x.pickRelaunch /\ y.reopened = x.reopened /\ y.open = x.open
         /\ y.marker = x.marker /\ y.stopper = x.stopper /\ y.idle = x.idle
         /\ ~x.quiet => y.job = job /\ y.own = own
<1>1. y \in RunRecord
  BY SetBackgroundType
<1>2. CASE x.quiet
  BY <1>1, <1>2 DEF SetBackground
<1>3. CASE ~x.quiet
  BY <1>1, <1>3 DEF SetBackground, RunRecord
<1> QED  BY <1>2, <1>3

\* A run that failed for good is mute.
LEMMA FailOverFields ==
  ASSUME NEW x \in RunRecord, Mute(x) \/ ~x.quiet, NEW y, y = [Fail(x) EXCEPT !.pc = "over"]
  PROVE  y.quiet /\ Mute(y) /\ y.pc # "halted"
<1>1. CASE x.quiet
  BY <1>1 DEF Fail, Mute, RunRecord
<1>2. CASE ~x.quiet
  BY <1>2 DEF Fail, Silence, Mute, RunRecord
<1> QED  BY <1>1, <1>2

\* A launch or an agent that fails, also one that lost its session.
LEMMA FailOverLogs ==
  ASSUME TypeInv, TypeInv', PlaceInv, MirrorInv, NEW r \in 1..used,
         LaunchFails(r) \/ AgentFails(r) \/ SessionLost(r)
  PROVE  MirrorInv'
<1>0. run[r] \in RunRecord /\ r # NoRun /\ r \in Runs
  BY Registry DEF TypeInv, NoRun
<1>1. Rests /\ fold' = fold
  BY DEF LaunchFails, AgentFails, SessionLost, Rests, chat, table, daemon
<1>2. run[r].quiet \/ cur = r
  <2>1. ASSUME ~run[r].quiet PROVE run[r].turning \/ run[r].proc \notin {"exited", "ended"}
    BY DEF LaunchFails, AgentFails, SessionLost, Connected, PlaceInv, TurnsFit, TurnFits
  <2> QED  BY <2>1, WorkIsCur
<1>3. Mute(run[r]) \/ ~run[r].quiet
  BY <1>0 DEF MirrorInv, Mutes
<1>4. CASE LaunchFails(r) \/ AgentFails(r) \/ (SessionLost(r) /\ answers.answered)
  <2> PICK y : y = [Fail(run[r]) EXCEPT !.pc = "over"]
    OBVIOUS
  <2>1. run' = [run EXCEPT ![r] = y] /\ writes' = writes \o FailWrites(run[r], r)
    BY <1>4 DEF LaunchFails, AgentFails, SessionLost
  <2>2. cur' = IF cur = r THEN NoRun ELSE cur
    <3>1. CASE run[r].quiet
      <4>1. cur # r
        BY <1>0, <3>1 DEF MirrorInv, Mutes
      <4> QED  BY <1>4, <3>1, <4>1 DEF LaunchFails, AgentFails, SessionLost
    <3>2. CASE ~run[r].quiet
      BY <1>4, <3>2 DEF LaunchFails, AgentFails, SessionLost, Forget
    <3> QED  BY <3>1, <3>2
  <2>3. y.quiet /\ Mute(y) /\ y.pc # "halted"
    BY <1>0, <1>3, FailOverFields
  <2> QED  BY <1>1, <1>2, <2>1, <2>2, <2>3, FailLogs
<1>5. CASE SessionLost(r) /\ ~answers.answered
  <2> PICK y : y = [run[r] EXCEPT !.pc = "create", !.unsent = answers.unanswered]
    OBVIOUS
  <2>1. run' = [run EXCEPT ![r] = y] /\ run[r].pc = "open" /\ UNCHANGED <<writes, cur>>
    BY <1>5 DEF SessionLost
  <2>2. Eases(run[r], y)
    BY <1>0, <2>1 DEF Eases, PlaceEases, Before, InTurn, RunRecord, Mute
  <2> QED  BY <1>1, <2>1, <2>2, EaseStep
<1> QED  BY <1>4, <1>5

\* The exit of a process.
LEMMA ExitLogs ==
  ASSUME TypeInv, TypeInv', PlaceInv, MirrorInv, NEW r \in 1..used, OnExit(r) PROVE MirrorInv'
<1>0. run[r] \in RunRecord /\ r # NoRun /\ r \in 0..MaxRuns /\ AllWritten \in Fold
  BY Registry, LogTyped DEF TypeInv, NoRun
<1> PICK x : x = [run[r] EXCEPT !.handled = TRUE]
  OBVIOUS
<1>1. /\ x \in RunRecord /\ x.quiet = run[r].quiet /\ x.turning = run[r].turning /\ x.handled
      /\ x.job = run[r].job /\ x.own = run[r].own /\ x.proc = run[r].proc /\ x.held = run[r].held
      /\ x.pc = run[r].pc
  BY <1>0 DEF RunRecord
<1>2. /\ Rests /\ fold' = fold /\ cur' = IF cur = r THEN NoRun ELSE cur
      /\ run[r].proc \in {"exited", "ended"} /\ ~run[r].handled
  BY DEF OnExit, Rests, Forget, chat, table, daemon
<1>3. run[r].pc # "halted"
  BY Registry DEF TypeInv, MirrorInv, NoFaults
<1>4. run[r].quiet \/ cur = r
  <2>1. ~run[r].quiet => ~Mute(run[r])
    BY <1>2 DEF Mute
  <2> QED  BY <2>1 DEF MirrorInv, Mutes
<1>5. CASE ExitFails(x)
  <2> PICK z : z = Fail(x)
    OBVIOUS
  <2> PICK y : y = [z EXCEPT !.open = {}, !.idle = "off"]
    OBVIOUS
  <2>1. run' = [run EXCEPT ![r] = y] /\ writes' = writes \o FailWrites(x, r)
    BY <1>5 DEF OnExit
  <2>2. z \in RunRecord /\ z.quiet /\ z.pc = x.pc
    BY <1>1, FailFields
  <2>3. y.quiet /\ Mute(y) /\ y.pc # "halted"
    BY <1>1, <1>3, <2>2 DEF Mute, RunRecord
  <2> QED  BY <1>1, <1>2, <1>4, <2>1, <2>3, FailLogs
<1>6. CASE ~ExitFails(x)
  <2> PICK z : z = SetBackground(x, FALSE, FALSE)
    OBVIOUS
  <2> PICK y : y = [z EXCEPT !.open = {}, !.idle = "off"]
    OBVIOUS
  <2>1. /\ run' = [run EXCEPT ![r] = y] /\ writes' = writes \o SetBackgroundWrites(x, r, FALSE, FALSE)
        /\ ~run[r].turning
    BY <1>1, <1>6 DEF OnExit, ExitFails
  <2>2. /\ z \in RunRecord /\ z.quiet = x.quiet /\ z.turning = x.turning /\ z.handled = x.handled
        /\ z.proc = x.proc /\ z.held = x.held /\ z.pc = x.pc
        /\ ~x.quiet => ~z.job /\ ~z.own
    BY <1>1, BackgroundFields
  <2>3. /\ y.quiet = x.quiet /\ y.turning = x.turning /\ y.handled /\ y.proc = x.proc
        /\ y.held = x.held /\ y.pc = x.pc /\ y.open = {} /\ y.idle = "off"
        /\ ~x.quiet => ~y.job /\ ~y.own
    BY <1>1, <2>2 DEF RunRecord
  <2>4. Mute(y)
    BY <1>1, <1>2, <2>1, <2>3 DEF Mute
  <2>5. run[r].pc \notin Before
    BY <2>1 DEF PlaceInv, TurnsFit, TurnFits, Before
  <2>6. Leaves(run[r], y)
    BY <1>1, <1>3, <2>1, <2>3, <2>4, <2>5 DEF Leaves, StaysOut
  <2>7. Aloof /\ MsgKept
    BY <1>2, RestsAloof
  <2>8. CASE run[r].quiet
    <3>1. cur # r
      BY <1>0, <2>8 DEF MirrorInv, Mutes
    <3>2. Says(SetBackgroundWrites(x, r, FALSE, FALSE), AllWritten, AllWritten)
      BY <1>0, <1>1, <2>8, BackgroundSays
    <3>3. Calls(AllWritten)
      BY <1>2, <2>1, <3>2, CallsSays
    <3> QED  BY <1>2, <2>1, <2>6, <2>7, <3>1, <3>3, LeaveHolds
  <2>9. CASE ~run[r].quiet
    <3> PICK b : b = [AllWritten EXCEPT !.job = FALSE, !.own = FALSE]
      OBVIOUS
    <3>1. cur = r /\ cur # NoRun
      BY <1>0, <1>4, <2>9
    <3>2. AllWritten.job = x.job /\ AllWritten.own = x.own /\ ~AllWritten.turn
      BY <1>1, <2>1, <2>5, <3>1, CurFacts DEF LogOf, Mirrors, Before
    <3>3. Says(SetBackgroundWrites(x, r, FALSE, FALSE), AllWritten, b)
      BY <1>0, <1>1, <2>9, <3>2, BackgroundSays
    <3>4. Calls(b)
      BY <1>2, <2>1, <3>3, CallsSays
    <3>5. ~AgentActive(b)
      BY <1>0, <3>2 DEF AgentActive, TurnRuns, Fold
    <3> QED  BY <1>2, <2>1, <2>6, <2>7, <3>1, <3>4, <3>5, LeaveHolds
  <2> QED  BY <2>8, <2>9
<1> QED  BY <1>5, <1>6

\* A run that ends before its first write.
LEMMA OvertakenFields ==
  ASSUME NEW x \in RunRecord, NEW y, y = Overtaken(x)
  PROVE  y \in RunRecord /\ y.quiet /\ Mute(y) /\ y.pc = "over"
<1>1. y \in RunRecord
  BY OvertakenType
<1>2. Silence(x) \in RunRecord
  BY SilenceType
<1> PICK z : z = Silence(x)
  OBVIOUS
<1>3. z.quiet /\ z.open = {} /\ z.idle = "off"
  BY DEF Silence, RunRecord
<1>4. y = [z EXCEPT !.reopened = "failed", !.pc = "over"] /\ z \in RunRecord
  BY <1>2 DEF Overtaken
<1>5. y.quiet /\ y.open = {} /\ y.idle = "off" /\ y.pc = "over"
  BY <1>3, <1>4 DEF RunRecord
<1> QED  BY <1>1, <1>5 DEF Mute

\* A run that quits.
LEMMA QuitFields ==
  ASSUME NEW x \in RunRecord, NEW y, y = Quit(x)
  PROVE  y \in RunRecord /\ y.quiet /\ Mute(y) /\ y.pc = x.pc
<1>1. y \in RunRecord
  BY QuitType
<1>2. y.quiet /\ y.open = {} /\ y.idle = "off" /\ y.pc = x.pc
  BY DEF Quit, EndProcess, Silence, RunRecord
<1> QED  BY <1>1, <1>2 DEF Mute

\* The first write of a start, after the end of the last process.
LEMMA ReopenLogs ==
  ASSUME TypeInv, TypeInv', PlaceInv, MirrorInv, NEW r \in 1..used, Reopen(r) PROVE MirrorInv'
<1>0. run[r] \in RunRecord /\ r # NoRun /\ r \in 0..MaxRuns /\ AllWritten \in Fold
  BY Registry, LogTyped DEF TypeInv, NoRun
<1>1. Rests /\ fold' = fold /\ run[r].pc = "reopen" /\ run[r].reopened = "wait"
  BY DEF Reopen, Rests, chat, table, daemon
<1>2. Aloof /\ MsgKept
  BY <1>1, RestsAloof
<1> PICK z : z = [run[r] EXCEPT !.unsent = IF run[r].earlyCancels > 0 /\ answers.answered
                                           THEN <<>> ELSE TextsBefore(run[r])]
  OBVIOUS
<1>3. z \in RunRecord
  <2>1. <<>> \in Seq(Texts)
    OBVIOUS
  <2>2. TextsBefore(run[r]) \in Seq(Texts)
    <3>1. answers.unanswered \in Seq(Texts)
      BY DEF TypeInv, TypeOK, Answers
    <3>2. run[r].prev # NoRun => run[run[r].prev].unsent \in Seq(Texts)
      <4>1. run[r].prev \in 0..MaxRuns
        BY <1>0 DEF RunRecord
      <4>2. run[r].prev # NoRun => run[r].prev \in Runs
        BY <4>1 DEF Runs, NoRun
      <4> QED  BY <4>2 DEF TypeInv, TypeOK, RunRecord
    <3> QED  BY <3>1, <3>2 DEF TextsBefore
  <2> QED  BY <1>0, <2>1, <2>2 DEF RunRecord
<1>4. CASE stopping \/ run[r].quiet
  <2> PICK y : y = Overtaken(z)
    OBVIOUS
  <2>1. run' = [run EXCEPT ![r] = y] /\ Forget(r) /\ writes' = writes
    BY <1>4 DEF Reopen
  <2>2. y.quiet /\ Mute(y) /\ y.pc # "halted"
    BY <1>3, OvertakenFields
  <2>3. Leaves(run[r], y) /\ cur' = IF cur = r THEN NoRun ELSE cur
    BY <2>1, <2>2 DEF Leaves, StaysOut, Forget
  <2>4. Calls(AllWritten)
    BY <1>1, <2>1, CallsNothing
  <2>5. cur = r => ~AgentActive(AllWritten)
    BY <1>0, <1>1, CurFacts DEF LogOf, Mirrors
  <2> QED  BY <1>2, <2>1, <2>3, <2>4, <2>5, LeaveHolds
<1>5. CASE ~(stopping \/ run[r].quiet)
  <2> PICK y : y = [z EXCEPT !.pc = "interrupt"]
    OBVIOUS
  <2> PICK w : w = WThen(Plain("interrupted"), r, "reopen")
    OBVIOUS
  <2> PICK b : b = NothingRuns(AllWritten, AllWritten.stopped)
    OBVIOUS
  <2>1. run' = [run EXCEPT ![r] = y] /\ writes' = Append(writes, w) /\ cur' = cur
    BY <1>5 DEF Reopen
  <2>2. run[r].turning
    BY <1>1 DEF PlaceInv, TurnsFit, TurnFits
  <2>3. cur = r /\ cur # NoRun
    BY <1>5, <2>2, WorkIsCur
  <2>4. LogOf(run[r], AllWritten, msg) /\ ~run[r].quiet
    BY <2>3, CurFacts
  <2>5. Calls(b)
    <3>1. "reopen" \in Conts \ {"hold", "call"}
      BY DEF Conts
    <3>2. Says(<<w>>, AllWritten, FoldChat(AllWritten, Plain("interrupted")))
      BY <1>0, <3>1, SaysPlain
    <3>3. Says(<<w>>, AllWritten, b)
      BY <1>0, <3>2, PlainSays
    <3> QED  BY <1>1, <2>1, <3>3, CallsOne
  <2>6. b.turn = FALSE /\ b.job = FALSE /\ b.own = FALSE /\ b.open = {}
    BY DEF NothingRuns, ChatStart
  <2>7. /\ y.pc = "interrupt" /\ y.quiet = run[r].quiet /\ y.turning = run[r].turning
        /\ y.reaches = run[r].reaches /\ y.pickRelaunch = run[r].pickRelaunch
        /\ y.held = run[r].held /\ y.reopened = run[r].reopened
        /\ y.open = run[r].open /\ y.job = run[r].job /\ y.own = run[r].own
        /\ y.marker = run[r].marker /\ y.stopper = run[r].stopper
    BY <1>0 DEF RunRecord
  <2>8. InStart(run[r]) /\ run[r].open = {} /\ run[r].job = FALSE /\ run[r].own = FALSE
    BY <1>0, <1>1, <2>4 DEF LogOf, Shape, Before, RunRecord
  <2>9. LogOf(y, b, msg)
    <3>1. Shape(y)
      BY <1>1, <2>4, <2>7 DEF LogOf, Shape, InStart, InTurn, Before
    <3>2. Mirrors(y, b)
      BY <2>6, <2>7, <2>8 DEF Mirrors, InTurn
    <3>3. StartShows(y, b, msg)
      BY <2>7 DEF StartShows, Before
    <3> QED  BY <2>4, <2>7, <3>1, <3>2, <3>3 DEF LogOf, NoBackground
  <2>10. GoesOn(run[cur], y) /\ StaysOwn(cur, y)
    BY <1>1, <2>3, <2>4, <2>7 DEF GoesOn, StaysOwn, InStart, Before
  <2>11. CurParts /\ QueueGrows
    BY <1>2, <2>1, <2>3, <2>5, <2>9, <2>10, CurKeeps
  <2>12. UsersFit'
    <3>1. writes \in Seq(Write) /\ Len(writes) \in Nat
      BY LogTyped
    <3>2. Len(writes') = Len(writes) + 1 /\ writes'[Len(writes) + 1] = w
      BY <2>1, <3>1
    <3> PICK k : k = Len(writes) + 1
      OBVIOUS
    <3>3. k \in 1..Len(writes') /\ writes'[k] = w /\ Len(writes') = k
      BY <3>1, <3>2
    <3>4. ReopenLast(cur, k)'
      BY <2>1, <2>3, <3>3 DEF ReopenLast, WThen
    <3>5. run'[cur] = y
      BY <2>1, <2>3, RunGiven
    <3> QED  BY <2>1, <2>7, <3>3, <3>4, <3>5 DEF UsersFit, Before
  <2> QED  BY <2>11, <2>12 DEF MirrorInv, CurParts
<1> QED  BY <1>4, <1>5

\* A run whose adapter reports no job any more.
LEMMA NoJobFields ==
  ASSUME NEW x \in RunRecord, NEW own \in BOOLEAN, NEW y, y = SetBackground(x, FALSE, own)
  PROVE  /\ y \in RunRecord /\ y.quiet = x.quiet /\ y.pc = x.pc
         /\ ~x.quiet => y.job = FALSE
<1>1. y \in RunRecord
  BY SetBackgroundType
<1>2. CASE x.quiet
  BY <1>1, <1>2 DEF SetBackground
<1>3. CASE ~x.quiet
  BY <1>1, <1>3 DEF SetBackground, RunRecord
<1> QED  BY <1>2, <1>3

\* A run that goes quiet and leaves the chat.
LEMMA QuitLogs ==
  ASSUME TypeInv, TypeInv', MirrorInv, NEW r \in 1..used, NEW x \in RunRecord, x.pc = run[r].pc,
         NEW y, y \in {Quit(x), Fail(x)}, run' = [run EXCEPT ![r] = y], ~x.quiet \/ y = Quit(x),
         cur' = IF cur = r THEN NoRun ELSE cur, NEW b, Calls(b), MsgKept, Aloof,
         IF cur = r THEN ~AgentActive(b) ELSE b = AllWritten
  PROVE  MirrorInv'
<1>1. run[r].pc # "halted"
  BY Registry DEF TypeInv, MirrorInv, NoFaults
<1>2. y.quiet /\ Mute(y) /\ y.pc = x.pc
  <2>1. CASE y = Quit(x)
    BY <2>1, QuitFields
  <2>2. CASE y = Fail(x) /\ ~x.quiet
    <3>1. y \in RunRecord /\ y.quiet /\ y.pc = x.pc
      BY <2>2, FailFields
    <3>2. y = Silence(x)
      BY <2>2 DEF Fail
    <3>3. y.open = {} /\ y.idle = "off"
      BY <3>2 DEF Silence, RunRecord
    <3> QED  BY <3>1, <3>3 DEF Mute
  <2> QED  BY <2>1, <2>2
<1>3. Leaves(run[r], y)
  BY <1>1, <1>2 DEF Leaves, StaysOut
<1> QED  BY <1>3, LeaveHolds

\* Between two turns, the log shows no turn, and the background that the run has.
LEMMA IdleLog ==
  ASSUME TypeInv, PlaceInv, MirrorInv, cur # NoRun, ~run[cur].turning
  PROVE  /\ ~InStart(run[cur]) /\ run[cur].pc \notin Before /\ AllWritten.turn = FALSE
         /\ AllWritten.open = run[cur].open /\ AllWritten.job = run[cur].job /\ AllWritten.own = run[cur].own
<1>1. /\ LogOf(run[cur], AllWritten, msg) /\ AllWritten \in Fold /\ run[cur] \in RunRecord
      /\ cur \in 1..used
  BY CurFacts
<1>2. run[cur].pc \notin Before
  BY <1>1 DEF PlaceInv, TurnsFit, TurnFits, Before
<1>3. ~AllWritten.turn
  BY <1>1 DEF LogOf, Mirrors
<1>4. AllWritten.turn = FALSE
  BY <1>1, <1>3 DEF Fold
<1>5. AllWritten.open = run[cur].open /\ AllWritten.job = run[cur].job /\ AllWritten.own = run[cur].own
  BY <1>1, <1>2 DEF LogOf, Mirrors, Before
<1> QED  BY <1>2, <1>4, <1>5 DEF InStart

\* An idle timer is one of the current run.
LEMMA IdleIsCur ==
  ASSUME TypeInv, MirrorInv, NEW r \in 1..used, run[r].idle # "off" PROVE cur = r /\ cur # NoRun
<1>1. ~Mute(run[r])
  BY DEF Mute
<1>2. cur = r
  BY <1>1 DEF MirrorInv, Mutes
<1> QED  BY <1>2 DEF NoRun

\* The idle timer of a run whose adapter reports no background.
LEMMA IdleExpiresLogs ==
  ASSUME TypeInv, TypeInv', PlaceInv, MirrorInv, NEW r \in 1..used, IdleExpires(r), ~HasBackground
  PROVE  MirrorInv'
<1>1. /\ run' = [run EXCEPT ![r] = Quit(run[r])] /\ Forget(r) /\ UNCHANGED <<fold, writes>>
      /\ run[r].idle = "on" /\ ~run[r].turning /\ Rests
  BY DEF IdleExpires, Rests, chat, table, daemon
<1>2. cur = r /\ cur # NoRun
  BY <1>1, IdleIsCur
<1>3. Aloof /\ MsgKept /\ Calls(AllWritten)
  BY <1>1, RestsAloof, CallsNothing
<1>4. run[r] \in RunRecord /\ LogOf(run[r], AllWritten, msg)
  BY <1>2, CurFacts
<1>5. ~AgentActive(AllWritten)
  BY <1>1, <1>2, <1>4, IdleLog DEF LogOf, NoBackground, AgentActive, TurnRuns
<1>6. cur' = IF cur = r THEN NoRun ELSE cur
  BY <1>1 DEF Forget
<1> QED  BY <1>1, <1>2, <1>3, <1>4, <1>5, <1>6, QuitLogs

\* The check of the background that an idle timer asked for.
LEMMA IdleCheckedLogs ==
  ASSUME TypeInv, TypeInv', PlaceInv, MirrorInv, NEW r \in 1..used,
         NEW jobs \in BOOLEAN, NEW ended \in BOOLEAN, NEW recent \in BOOLEAN,
         IdleChecked(r, jobs, ended, recent)
  PROVE  MirrorInv'
<1> PICK x : x = IF jobs THEN run[r] ELSE SetBackground(run[r], FALSE, run[r].own)
  OBVIOUS
<1> PICK said : said = IF jobs THEN <<>> ELSE SetBackgroundWrites(run[r], r, FALSE, run[r].own)
  OBVIOUS
<1>1. Rests /\ fold' = fold /\ run[r].idle = "check" /\ ~run[r].turning
  BY DEF IdleChecked, Rests, chat, table, daemon
<1>2. cur = r /\ cur # NoRun
  BY <1>1, IdleIsCur
<1>3. Aloof /\ MsgKept
  BY <1>1, RestsAloof
<1>4. /\ run[r] \in RunRecord /\ ~run[r].quiet /\ LogOf(run[r], AllWritten, msg) /\ r \in 0..MaxRuns
      /\ AllWritten \in Fold
  BY <1>2, CurFacts
<1>5. /\ ~InStart(run[r]) /\ run[r].pc \notin Before /\ AllWritten.turn = FALSE
      /\ AllWritten.open = run[r].open /\ AllWritten.job = run[r].job /\ AllWritten.own = run[r].own
  BY <1>1, <1>2, IdleLog
<1>6. run[r].own \in BOOLEAN
  BY <1>4 DEF RunRecord
<1>7. /\ x \in RunRecord /\ x.pc = run[r].pc /\ x.quiet = run[r].quiet
      /\ ~jobs => x.job = FALSE
  <2>1. CASE jobs
    BY <1>4, <2>1
  <2>2. CASE ~jobs
    <3> PICK z : z = run[r]
      OBVIOUS
    <3> PICK own \in BOOLEAN : own = z.own
      BY <1>6
    <3>1. z \in RunRecord /\ x = SetBackground(z, FALSE, own)
      BY <1>4, <2>2
    <3>2. /\ x \in RunRecord /\ x.pc = z.pc /\ x.quiet = z.quiet
          /\ ~z.quiet => x.job = FALSE
      BY <3>1, NoJobFields
    <3> QED  BY <1>4, <3>2
  <2> QED  BY <2>1, <2>2
<1>8. PICK b : Says(said, AllWritten, b) /\ Works(run[r], x, AllWritten, b) /\ b \in Fold
  <2>1. CASE jobs
    <3>1. said = <<>> /\ x = run[r]
      BY <2>1
    <3>2. Works(run[r], run[r], AllWritten, AllWritten)
      BY <1>4, <1>5 DEF Works, Before
    <3> QED  BY <1>4, <3>1, <3>2, SaysNothing
  <2>2. CASE ~jobs
    <3> PICK b : b = [AllWritten EXCEPT !.job = FALSE, !.own = run[r].own]
      OBVIOUS
    <3>1. /\ FALSE \in BOOLEAN /\ run[r].own \in BOOLEAN /\ ~InStart(run[cur])
          /\ (HasBackground \/ ((FALSE => run[r].job) /\ (run[r].own => run[r].own)))
          /\ run[r] \in RunRecord /\ ~run[r].quiet
      BY <1>2, <1>4, <1>5, <1>6
    <3>2. /\ Says(SetBackgroundWrites(run[r], cur, FALSE, run[r].own), AllWritten, b)
          /\ Works(run[cur], SetBackground(run[r], FALSE, run[r].own), AllWritten, b)
      BY <1>2, <3>1, BackgroundWorks
    <3>3. b \in Fold
      BY <1>4, <1>6 DEF Fold
    <3> QED  BY <1>2, <2>2, <3>2, <3>3
  <2> QED  BY <2>1, <2>2
<1>9. \/ /\ run' = [run EXCEPT ![r] = [x EXCEPT !.idle = "on"]]
         /\ writes' = writes \o said /\ cur' = cur
      \/ /\ run' = [run EXCEPT ![r] = Fail(x)] /\ writes' = writes \o said \o FailWrites(x, r) /\ Forget(r)
      \/ /\ run' = [run EXCEPT ![r] = Quit(x)] /\ writes' = writes \o said \o <<>> /\ Forget(r)
         /\ ~jobs /\ ~x.own
  BY DEF IdleChecked
<1>10. CASE /\ run' = [run EXCEPT ![r] = [x EXCEPT !.idle = "on"]]
            /\ writes' = writes \o said /\ cur' = cur
  <2> PICK y : y = [x EXCEPT !.idle = "on"]
    OBVIOUS
  <2>1. /\ y.quiet = x.quiet /\ y.pc = x.pc /\ y.turning = x.turning /\ y.reaches = x.reaches
        /\ y.pickRelaunch = x.pickRelaunch /\ y.held = x.held /\ y.reopened = x.reopened
        /\ y.open = x.open /\ y.job = x.job /\ y.own = x.own
        /\ y.marker = x.marker /\ y.stopper = x.stopper
    BY <1>7 DEF RunRecord
  <2>2. Works(run[r], y, AllWritten, b)
    BY <1>8, <2>1 DEF Works
  <2>3. Calls(b)
    BY <1>1, <1>8, <1>10, CallsSays
  <2> QED  BY <1>2, <1>3, <1>10, <2>2, <2>3, WorksHolds
<1>11. ~x.quiet /\ (Forget(r) => cur' = IF cur = r THEN NoRun ELSE cur)
  BY <1>4, <1>7 DEF Forget
<1>12. CASE /\ run' = [run EXCEPT ![r] = Fail(x)] /\ writes' = writes \o said \o FailWrites(x, r)
            /\ Forget(r)
  <2> PICK c : c = NothingRuns(b, "failed")
    OBVIOUS
  <2>1. Says(FailWrites(x, r), b, c)
    BY <1>4, <1>8, <1>11, FailSays
  <2>2. Calls(c)
    BY <1>1, <1>8, <1>12, <2>1, CallsTwo
  <2>3. ~AgentActive(c)
    BY DEF NothingRuns, ChatStart, AgentActive, TurnRuns
  <2> QED  BY <1>2, <1>3, <1>7, <1>11, <1>12, <2>2, <2>3, QuitLogs
<1>13. CASE /\ run' = [run EXCEPT ![r] = Quit(x)] /\ writes' = writes \o said \o <<>> /\ Forget(r)
            /\ ~jobs /\ ~x.own
  <2>1. Calls(b)
    BY <1>1, <1>8, <1>13, SaysNothing, CallsTwo
  <2>2. ~AgentActive(b)
    BY <1>5, <1>7, <1>8, <1>13 DEF Works, Before, AgentActive, TurnRuns
  <2> QED  BY <1>2, <1>3, <1>7, <1>11, <1>13, <2>1, <2>2, QuitLogs
<1> QED  BY <1>9, <1>10, <1>12, <1>13

\* The stop of a run with no turn.
LEMMA StopLogs ==
  ASSUME TypeInv, TypeInv', PlaceInv, MirrorInv, Stop PROVE MirrorInv'
<1>1. /\ cur # NoRun /\ ~run[cur].turning /\ Rests /\ fold' = fold
      /\ run' = [run EXCEPT ![cur] = Quit(SetBackground(run[cur], FALSE, FALSE))]
      /\ writes' = writes \o SetBackgroundWrites(run[cur], cur, FALSE, FALSE)
      /\ cur' = IF cur = cur THEN NoRun ELSE cur
  <2>1. "end" \in Bounded \ {"background"}
    BY DEF Bounded
  <2> QED  BY <2>1 DEF Stop, Rests, Spends, Forget, chat, table, daemon
<1>2. Aloof /\ MsgKept
  BY <1>1, RestsAloof
<1>3. /\ run[cur] \in RunRecord /\ ~run[cur].quiet /\ LogOf(run[cur], AllWritten, msg)
      /\ AllWritten \in Fold /\ cur \in 1..used /\ cur \in 0..MaxRuns
  BY <1>1, CurFacts
<1> PICK b : b = [AllWritten EXCEPT !.job = FALSE, !.own = FALSE]
  OBVIOUS
<1> PICK x : x = SetBackground(run[cur], FALSE, FALSE)
  OBVIOUS
<1>4. AllWritten.turn = FALSE /\ AllWritten.job = run[cur].job /\ AllWritten.own = run[cur].own
  BY <1>1, IdleLog
<1>5. FALSE \in BOOLEAN
  OBVIOUS
<1>6. x \in RunRecord /\ x.pc = run[cur].pc
  <2> PICK z : z = run[cur]
    OBVIOUS
  <2>1. z \in RunRecord /\ x = SetBackground(z, FALSE, FALSE)
    BY <1>3
  <2>2. x \in RunRecord /\ x.pc = z.pc
    BY <2>1, NoJobFields
  <2> QED  BY <2>2
<1>7. b = IF run[cur].quiet THEN AllWritten ELSE [AllWritten EXCEPT !.job = FALSE, !.own = FALSE]
  BY <1>3
<1>8. Says(SetBackgroundWrites(run[cur], cur, FALSE, FALSE), AllWritten, b)
  BY <1>3, <1>4, <1>5, <1>7, BackgroundSays
<1>9. Calls(b)
  BY <1>1, <1>8, CallsSays
<1>10. ~AgentActive(b)
  BY <1>3, <1>4 DEF AgentActive, TurnRuns, Fold
<1> PICK y : y = Quit(x)
  OBVIOUS
<1>11. run' = [run EXCEPT ![cur] = y] /\ y \in {Quit(x), Fail(x)} /\ y = Quit(x)
  BY <1>1
<1>12. IF cur = cur THEN ~AgentActive(b) ELSE b = AllWritten
  BY <1>10
<1> QED  BY <1>1, <1>2, <1>3, <1>6, <1>9, <1>11, <1>12, QuitLogs

\* The end of a run that is not the one of the chat any more writes nothing.
LEMMA EndOutWrites ==
  ASSUME NEW x \in RunRecord, Mute(x), NEW r
  PROVE  /\ CancelOpenWrites(x, r, "end") = <<>> /\ SetBackgroundWrites(x, r, FALSE, FALSE) = <<>>
         /\ x.turning => x.quiet
<1>1. x.open = {} /\ (x.quiet \/ (~x.turning /\ ~x.job /\ ~x.own))
  BY DEF Mute
<1>2. ~x.quiet => x.job = FALSE /\ x.own = FALSE
  BY <1>1 DEF RunRecord
<1> QED  BY <1>1, <1>2 DEF CancelOpenWrites, SetBackgroundWrites

\* `endNow`, of the run of the chat or of one that ended before.
LEMMA EndNowLogs ==
  ASSUME TypeInv, TypeInv', PlaceInv, MirrorInv, NEW r \in 1..used, EndNow(r), fold' = fold, MsgKept, Aloof
  PROVE  MirrorInv'
<1>1. run[r] \in RunRecord /\ r \in 0..MaxRuns /\ AllWritten \in Fold /\ writes \in Seq(Write) /\ r # NoRun
  BY Registry, LogTyped DEF TypeInv, NoRun
<1>2. cur' = IF cur = r THEN NoRun ELSE cur
  BY DEF EndNow, Forget
<1> PICK x : x = run[r]
  OBVIOUS
<1> PICK z : z = SetBackground(x, FALSE, FALSE)
  OBVIOUS
<1> PICK s : s = CancelOpenWrites(x, r, "end")
  OBVIOUS
<1> PICK u : u = SetBackgroundWrites(x, r, FALSE, FALSE)
  OBVIOUS
<1>3. z \in RunRecord /\ z.pc = x.pc
  <2> PICK own \in BOOLEAN : own = FALSE
    OBVIOUS
  <2>1. x \in RunRecord /\ z = SetBackground(x, FALSE, own)
    BY <1>1
  <2> QED  BY <2>1, NoJobFields
<1>4. IF ~x.turning THEN run' = [run EXCEPT ![r] = Quit(z)] /\ writes' = writes \o s \o u
      ELSE /\ run' = [run EXCEPT ![r] = Quit(x)]
           /\ IF x.quiet THEN writes' = writes
              ELSE writes' = Append(writes, WThen(Plain("interrupted"), r, "end"))
  BY DEF EndNow
<1>5. PICK v \in {x, z} : run' = [run EXCEPT ![r] = Quit(v)] /\ (v = IF x.turning THEN x ELSE z)
  BY <1>4
<1>6. v \in RunRecord /\ v.pc = run[r].pc
  BY <1>1, <1>3, <1>5
<1>7. "end" \in Conts \ {"hold", "call"}
  BY DEF Conts
<1>8. CASE cur # r
  <2>1. Mute(run[r])
    BY <1>8 DEF MirrorInv, Mutes
  <2>2. s = <<>> /\ u = <<>> /\ (x.turning => x.quiet)
    BY <1>1, <2>1, EndOutWrites
  <2>3. writes' = writes
    <3>1. writes \o <<>> = writes
      BY <1>1
    <3>2. CASE x.turning
      BY <1>4, <2>2, <3>2
    <3>3. CASE ~x.turning
      <4>1. writes' = writes \o s \o u
        BY <1>4, <3>3
      <4> QED  BY <2>2, <3>1, <4>1
    <3> QED  BY <3>2, <3>3
  <2> PICK b : b = AllWritten
    OBVIOUS
  <2>4. Calls(b)
    BY <2>3, CallsNothing
  <2> PICK y : y = Quit(v)
    OBVIOUS
  <2>5. run' = [run EXCEPT ![r] = y] /\ y \in {Quit(v), Fail(v)} /\ y = Quit(v)
    BY <1>5
  <2>6. IF cur = r THEN ~AgentActive(b) ELSE b = AllWritten
    BY <1>8
  <2> QED  BY <1>2, <1>6, <2>4, <2>5, <2>6, QuitLogs
<1>9. CASE cur = r
  <2>1. cur # NoRun /\ ~run[r].quiet
    BY <1>1, <1>9 DEF MirrorInv, Mutes
  <2>2. PICK b : Calls(b) /\ ~AgentActive(b)
    <3>1. CASE x.turning
      <4> PICK w : w = WThen(Plain("interrupted"), r, "end")
        OBVIOUS
      <4> PICK b : b = NothingRuns(AllWritten, AllWritten.stopped)
        OBVIOUS
      <4>1. Says(<<w>>, AllWritten, FoldChat(AllWritten, Plain("interrupted")))
        BY <1>1, <1>7, SaysPlain
      <4>2. Says(<<w>>, AllWritten, b)
        BY <1>1, <4>1, PlainSays
      <4>3. Calls(b)
        BY <1>4, <2>1, <3>1, <4>2, CallsOne
      <4> QED  BY <4>3 DEF NothingRuns, ChatStart, AgentActive, TurnRuns
    <3>2. CASE ~x.turning
      <4>1. /\ AllWritten.turn = FALSE /\ AllWritten.open = x.open /\ AllWritten.job = x.job
            /\ AllWritten.own = x.own
        BY <1>9, <2>1, <3>2, IdleLog
      <4> PICK b : b = CancelledOpen(x, AllWritten)
        OBVIOUS
      <4> PICK c : c = [b EXCEPT !.job = FALSE, !.own = FALSE]
        OBVIOUS
      <4>2. Says(s, AllWritten, b)
        BY <1>1, <1>7, <4>1, CancelOpenSays DEF CancelledOpen
      <4>3. /\ b \in Fold /\ b.turn = FALSE /\ b.job = x.job /\ b.own = x.own
        BY <1>1, <4>1 DEF CancelledOpen, Fold
      <4>4. FALSE \in BOOLEAN /\ c = IF x.quiet THEN b ELSE [b EXCEPT !.job = FALSE, !.own = FALSE]
        BY <2>1
      <4>5. Says(u, b, c)
        BY <1>1, <4>3, <4>4, BackgroundSays
      <4>6. Calls(c)
        BY <1>4, <3>2, <4>2, <4>5, CallsTwo
      <4>7. c.turn = FALSE /\ c.job = FALSE /\ c.own = FALSE
        BY <4>3 DEF Fold
      <4> QED  BY <4>6, <4>7 DEF AgentActive, TurnRuns
    <3> QED  BY <3>1, <3>2
  <2> PICK y : y = Quit(v)
    OBVIOUS
  <2>5. run' = [run EXCEPT ![r] = y] /\ y \in {Quit(v), Fail(v)} /\ y = Quit(v)
    BY <1>5
  <2>6. IF cur = r THEN ~AgentActive(b) ELSE b = AllWritten
    BY <1>9, <2>2
  <2> QED  BY <1>2, <1>6, <2>2, <2>5, <2>6, QuitLogs
<1> QED  BY <1>8, <1>9

\* The end of a chat with a run.
LEMMA EndLogs ==
  ASSUME TypeInv, TypeInv', PlaceInv, MirrorInv, EndAtOnce \/ EndWaited PROVE MirrorInv'
<1>1. /\ UNCHANGED <<fold, used, stopping, msg>> /\ (left' = left \/ Spends)
      /\ \E r \in 1..used : EndNow(r)
  <2>1. CASE EndAtOnce
    <3>1. "end" \in Bounded \ {"background"}
      BY DEF Bounded
    <3>2. cur \in 1..used
      BY <2>1, Registry DEF EndAtOnce, TypeInv
    <3> QED  BY <2>1, <3>1, <3>2 DEF EndAtOnce, Spends, chat, table, daemon
  <2>2. CASE EndWaited
    <3>1. end.run \in 1..used
      BY <2>2 DEF EndWaited, TypeInv, EndHasRun
    <3> QED  BY <2>2, <3>1 DEF EndWaited, chat, table, daemon
  <2> QED  BY <2>1, <2>2
<1>2. PICK r \in 1..used : EndNow(r)
  BY <1>1
<1>3. end' = [st |-> "ends", run |-> r]
  BY <1>2 DEF EndNow
<1>4. left'["background"] = left["background"]
  BY <1>1, LeftSpends
<1>5. Aloof /\ MsgKept
  BY <1>1, <1>3, <1>4 DEF Aloof, MsgKept
<1> QED  BY <1>1, <1>2, <1>5, EndNowLogs

\* What `close` does to a run.
LEMMA ClosingFields ==
  ASSUME NEW x \in RunRecord, NEW y, y = EndProcess(x)
  PROVE  /\ y.quiet = x.quiet /\ y.pc = x.pc /\ y.turning = x.turning /\ y.reaches = x.reaches
         /\ y.pickRelaunch = x.pickRelaunch /\ y.held = x.held
         /\ Mute(x) => Mute(y)
<1>1. /\ y.quiet = x.quiet /\ y.pc = x.pc /\ y.turning = x.turning /\ y.reaches = x.reaches
      /\ y.pickRelaunch = x.pickRelaunch /\ y.held = x.held /\ y.open = x.open /\ y.idle = x.idle
      /\ y.handled = x.handled /\ y.job = x.job /\ y.own = x.own
      /\ y.proc = IF x.proc = "alive" THEN "ending" ELSE x.proc
  BY DEF EndProcess, RunRecord
<1> QED  BY <1>1 DEF Mute

\* `close`: it interrupts the run of the chat, and ends every process.
LEMMA CloseLogs == ASSUME TypeInv, TypeInv', PlaceInv, MirrorInv, Close PROVE MirrorInv'
<1>1. /\ run' = [r \in Runs |-> Closing(r)] /\ cur' = NoRun
      /\ UNCHANGED <<fold, used, stopping, left, end, msg>>
      /\ writes' = IF cur = NoRun THEN writes
                   ELSE Append(writes, WThen(Plain("interrupted"), cur, "close"))
  BY DEF Close, Forget, chat, table
<1>2. /\ \A r \in 1..used : r \in Runs /\ run[r] \in RunRecord /\ r # NoRun
      /\ cur # NoRun => cur \in 1..used /\ cur \in 0..MaxRuns
      /\ AllWritten \in Fold
  BY Registry, LogTyped DEF TypeInv, NoRun
<1>3. Aloof /\ MsgKept
  BY <1>1 DEF Aloof, MsgKept, MirrorInv, NoFaults
<1>4. PICK b : Calls(b) /\ ~AgentActive(b)
  <2>1. CASE cur = NoRun
    <3>1. Calls(AllWritten)
      BY <1>1, <2>1, CallsNothing
    <3> QED  BY <2>1, <3>1 DEF MirrorInv, LogFits
  <2>2. CASE cur # NoRun
    <3> PICK w : w = WThen(Plain("interrupted"), cur, "close")
      OBVIOUS
    <3> PICK b : b = NothingRuns(AllWritten, AllWritten.stopped)
      OBVIOUS
    <3>1. "close" \in Conts \ {"hold", "call"}
      BY DEF Conts
    <3>2. Says(<<w>>, AllWritten, FoldChat(AllWritten, Plain("interrupted")))
      BY <1>2, <2>2, <3>1, SaysPlain
    <3>3. Says(<<w>>, AllWritten, b)
      BY <1>2, <3>2, PlainSays
    <3>4. Calls(b)
      BY <1>1, <2>2, <3>3, CallsOne
    <3> QED  BY <3>4 DEF NothingRuns, ChatStart, AgentActive, TurnRuns
  <2> QED  BY <2>1, <2>2
<1>5. QueueGrows /\ QueueFits' /\ AllWritten' = b
  BY <1>4, CallsGrow DEF MirrorInv
<1>6. ASSUME NEW r \in Runs, run[r] \in RunRecord
      PROVE  /\ run'[r].pc = run[r].pc
             /\ r # cur => (Mute(run[r]) => Mute(run'[r]))
             /\ r = cur => Mute(run'[r]) /\ run'[r].quiet
             /\ HeldGoesOn(r)
  <2>1. CASE r = cur
    <3>1. run'[r] = Quit(run[r])
      BY <1>1, <2>1 DEF Closing, Quit
    <3>2. run'[r].quiet /\ Mute(run'[r]) /\ run'[r].pc = run[r].pc
      BY <1>6, <3>1, QuitFields
    <3> QED  BY <2>1, <3>2 DEF HeldGoesOn
  <2>2. CASE r # cur
    <3> PICK x : x = run[r]
      OBVIOUS
    <3> PICK y : y = EndProcess(x)
      OBVIOUS
    <3>1. run'[r] = y
      BY <1>1, <2>2 DEF Closing
    <3>2. /\ y.quiet = x.quiet /\ y.pc = x.pc /\ y.turning = x.turning /\ y.reaches = x.reaches
          /\ y.pickRelaunch = x.pickRelaunch /\ y.held = x.held
          /\ Mute(x) => Mute(y)
      BY <1>6, ClosingFields
    <3>3. HeldGoesOn(r)
      BY <3>1, <3>2 DEF HeldGoesOn, InStart
    <3> QED  BY <2>2, <3>1, <3>2, <3>3
  <2> QED  BY <2>1, <2>2
<1>7. \A r \in Runs : run[r] \in RunRecord
  BY DEF TypeInv, TypeOK
<1>8. Mutes'
  <2>1. \A r \in 1..used : Mute(run'[r])
    BY <1>2, <1>6 DEF MirrorInv, Mutes
  <2> QED  BY <1>1, <2>1 DEF Mutes
<1>9. LogFits'
  BY <1>1, <1>4, <1>5 DEF LogFits
<1>10. HeldsFit'
  <2>1. \A r \in 1..used : HeldGoesOn(r)
    BY <1>2, <1>6
  <2> QED  BY <1>1, <1>3, <2>1, HeldsKeep DEF MirrorInv
<1>11. CallsFit'
  BY <1>3, <1>5, CallsKeep DEF MirrorInv
<1>12. UsersFit'
  BY <1>1 DEF UsersFit
<1>13. NoFaults'
  <2>1. \A r \in Runs : run'[r].pc # "halted"
    BY <1>6, <1>7 DEF MirrorInv, NoFaults
  <2> QED  BY <1>3, <2>1, NoFaultsKeep DEF MirrorInv
<1> QED  BY <1>5, <1>8, <1>9, <1>10, <1>11, <1>12, <1>13 DEF MirrorInv

-----------------------------------------------------------------------------
(* The end of a write. *)

\* An `interrupt` that is not written would change nothing.
LEMMA LoggedIs == ASSUME fold \in Fold, NEW e, Logged(e) PROVE fold' = FoldChat(fold, e)
<1>1. CASE e.kind = "interrupted" /\ ~ChatBusy(fold)
  <2>1. fold' = fold
    BY <1>1 DEF Logged
  <2>2. FoldChat(fold, e) = NothingRuns(fold, fold.stopped)
    BY <1>1 DEF FoldChat
  <2>3. fold.turn = FALSE /\ fold.job = FALSE /\ fold.own = FALSE /\ fold.open = {}
    BY <1>1 DEF ChatBusy, AgentActive, TurnRuns, Fold
  <2>4. NothingRuns(fold, fold.stopped) = fold
    <3>1. fold = [turn |-> fold.turn, job |-> fold.job, own |-> fold.own, open |-> fold.open,
                  stopped |-> fold.stopped]
      BY DEF Fold
    <3>2. NothingRuns(fold, fold.stopped) = [turn |-> FALSE, job |-> FALSE, own |-> FALSE, open |-> {},
                                             stopped |-> fold.stopped]
      <4> PICK c : c = ChatStart
        OBVIOUS
      <4>1. /\ c \in Fold
            /\ c.turn = FALSE /\ c.job = FALSE /\ c.own = FALSE /\ c.open = {}
        BY DEF ChatStart, Fold, Stops
      <4> PICK d : d = [c EXCEPT !.stopped = fold.stopped]
        OBVIOUS
      <4>2. d \in Fold /\ d.turn = c.turn /\ d.job = c.job /\ d.own = c.own /\ d.open = c.open
            /\ d.stopped = fold.stopped
        BY <4>1 DEF Fold
      <4>3. d = [turn |-> d.turn, job |-> d.job, own |-> d.own, open |-> d.open, stopped |-> d.stopped]
        BY <4>2 DEF Fold
      <4> QED  BY <4>1, <4>2, <4>3 DEF NothingRuns
    <3> QED  BY <2>3, <3>1, <3>2
  <2> QED  BY <2>1, <2>2, <2>4
<1>2. CASE ~(e.kind = "interrupted" /\ ~ChatBusy(fold))
  BY <1>2 DEF Logged
<1> QED  BY <1>1, <1>2

\* Each write that still waits has one place less to wait for.
LEMMA TailPlaces ==
  ASSUME TypeInv, writes # <<>>, writes' = Tail(writes)
  PROVE  /\ Len(writes) \in Nat /\ Len(writes') \in Nat /\ 1 \in 1..Len(writes)
         /\ Head(writes) = writes[1] /\ Head(writes) \in Write
         /\ \A n \in 1..Len(writes') : n + 1 \in 1..Len(writes) /\ n + 1 # 1 /\ writes'[n] = writes[n + 1]
<1>1. writes \in Seq(Write)
  BY LogTyped
<1>2. Len(writes) \in Nat /\ Len(writes) > 0 /\ Len(writes') = Len(writes) - 1
  BY <1>1
<1>3. \A n \in 1..Len(writes') : n + 1 \in 1..Len(writes) /\ n + 1 # 1 /\ writes'[n] = writes[n + 1]
  BY <1>1, <1>2
<1>4. Head(writes) = writes[1] /\ Head(writes) \in Write /\ 1 \in 1..Len(writes)
  BY <1>1, <1>2
<1> QED  BY <1>2, <1>3, <1>4

\* The end of a write leaves what the log says once all is written.
LEMMA TailLog ==
  ASSUME TypeInv, QueueFits, writes # <<>>, Logged(Head(writes).ev), writes' = Tail(writes)
  PROVE  AllWritten' = AllWritten /\ QueueFits' /\ EventFits(fold, Head(writes).ev)
<1>1. fold \in Fold /\ writes \in Seq(Write)
  BY LogTyped
<1>2. fold' = FoldChat(fold, Head(writes).ev)
  BY <1>1, LoggedIs
<1> PICK e : e = fold'
  OBVIOUS
<1> PICK vs : vs = Tail(writes)
  OBVIOUS
<1>3. /\ Written(e, Tail(writes)) = Written(fold, writes)
      /\ Fitting(fold, writes) => Fitting(e, Tail(writes)) /\ EventFits(fold, Head(writes).ev)
  BY <1>1, <1>2, WrittenTail
<1>4. QueueFits' <=> Fitting(fold', writes')
  BY DEF QueueFits
<1>5. AllWritten' = Written(fold', writes')
  BY DEF AllWritten, Written
<1>6. AllWritten = Written(fold, writes) /\ Fitting(fold, writes)
  BY WrittenIs DEF QueueFits
<1> QED  BY <1>3, <1>4, <1>5, <1>6

\* The message of the write that ended, if it is of one.
MsgDone ==
  \A t \in Texts :
    \/ msg'[t] = msg[t]
    \/ /\ IsCall(Head(writes)) /\ t = Head(writes).ev.text[1]
       /\ msg'[t].st = "done" /\ msg'[t].run = msg[t].run

\* A write that ends finds the call of its message, and leaves the other writes theirs.
LEMMA CallsDone ==
  ASSUME TypeInv, CallsFit, writes # <<>>, writes' = Tail(writes), MsgDone
  PROVE  /\ CallsFit'
         /\ IsCall(Head(writes)) => msg[Head(writes).ev.text[1]].st = IF Head(writes).cont = "call"
                                                                     THEN "call" ELSE "write"
<1>1. /\ Len(writes) \in Nat /\ Len(writes') \in Nat /\ 1 \in 1..Len(writes)
      /\ Head(writes) = writes[1] /\ Head(writes) \in Write
      /\ \A n \in 1..Len(writes') : n + 1 \in 1..Len(writes) /\ n + 1 # 1 /\ writes'[n] = writes[n + 1]
  BY TailPlaces
<1>2. writes \in Seq(Write)
  BY LogTyped
<1>3. ASSUME NEW n \in 1..Len(writes), IsCall(writes[n]) PROVE writes[n].ev.text[1] \in Texts
  <2> PICK w : w = writes[n]
    OBVIOUS
  <2>1. w \in Write /\ IsCall(w) /\ CallFits(w, msg)
    BY <1>2, <1>3 DEF CallsFit
  <2>2. w.ev.text \in Seq(Texts) /\ w.ev.text # <<>>
    BY <2>1 DEF CallFits, IsCall, Write, Event
  <2> QED  BY <2>2
<1>4. ASSUME NEW n \in 1..Len(writes), n # 1, IsCall(writes[n])
      PROVE  msg'[writes[n].ev.text[1]] = msg[writes[n].ev.text[1]]
  <2>1. IsCall(Head(writes)) => writes[n].ev.text[1] # Head(writes).ev.text[1]
    BY <1>1, <1>4 DEF CallsFit
  <2> QED  BY <1>3, <1>4, <2>1 DEF MsgDone
<1>5. \A n \in 1..Len(writes') : CallFits(writes'[n], msg')
  <2> SUFFICES ASSUME NEW n \in 1..Len(writes') PROVE CallFits(writes'[n], msg')
    OBVIOUS
  <2> PICK m \in 1..Len(writes) : m = n + 1
    BY <1>1
  <2>1. m # 1 /\ writes'[n] = writes[m] /\ CallFits(writes[m], msg)
    BY <1>1 DEF CallsFit
  <2>2. CASE IsCall(writes[m])
    BY <1>4, <2>1, <2>2 DEF CallFits, IsCall
  <2>3. CASE ~IsCall(writes[m])
    BY <2>1, <2>3 DEF CallFits, IsCall
  <2> QED  BY <2>2, <2>3
<1>6. ASSUME NEW m \in 1..Len(writes'), NEW n \in 1..Len(writes'), m # n,
             IsCall(writes'[m]), IsCall(writes'[n])
      PROVE  writes'[m].ev.text[1] # writes'[n].ev.text[1]
  <2> PICK k \in 1..Len(writes) : k = m + 1
    BY <1>1
  <2> PICK l \in 1..Len(writes) : l = n + 1
    BY <1>1
  <2>1. k # l /\ writes'[m] = writes[k] /\ writes'[n] = writes[l]
    BY <1>1, <1>6
  <2> QED  BY <1>6, <2>1 DEF CallsFit
<1>7. IsCall(Head(writes)) => msg[Head(writes).ev.text[1]].st = IF Head(writes).cont = "call"
                                                                THEN "call" ELSE "write"
  BY <1>1 DEF CallsFit, CallFits, IsCall
<1> QED  BY <1>5, <1>6, <1>7 DEF CallsFit

\* A message of a start is written, or stays.
LEMMA HeldDone ==
  ASSUME TypeInv, MirrorInv, writes # <<>>, writes' = Tail(writes), MsgDone,
         NEW r \in 1..used, ~run[r].quiet, NEW i \in 1..Len(run[r].held), NEW u, u = run[r].held[i]
  PROVE  msg'[u] = msg[u] \/ (msg[u].st = "write" /\ msg'[u].st = "done" /\ msg'[u].run = msg[u].run)
<1>1. HeldFits(r, i)
  BY DEF MirrorInv, HeldsFit
<1>2. msg[u].st # "call"
  BY <1>1 DEF HeldFits
<1>3. u \in Texts
  BY Registry DEF TypeInv, RunRecord
<1>4. IsCall(Head(writes)) => msg[Head(writes).ev.text[1]].st = IF Head(writes).cont = "call"
                                                                THEN "call" ELSE "write"
  BY CallsDone DEF MirrorInv
<1> QED  BY <1>2, <1>3, <1>4 DEF MsgDone

\* So the messages of a start still fit.
LEMMA HeldsDone ==
  ASSUME TypeInv, MirrorInv, writes # <<>>, writes' = Tail(writes), MsgDone,
         used' = used, stopping' = stopping, \A r \in 1..used : HeldGoesOn(r)
  PROVE  HeldsFit'
<1> SUFFICES ASSUME NEW r \in 1..used, ~run'[r].quiet, NEW i \in 1..Len(run'[r].held)
             PROVE  HeldFits(r, i)'
  BY DEF HeldsFit
<1> PICK x : x = run[r]
  OBVIOUS
<1> PICK y : y = run'[r]
  OBVIOUS
<1>1. /\ ~x.quiet /\ y.held = x.held
      /\ y.pc \in Before => x.pc \in Before
      /\ InStart(x) /\ ~x.pickRelaunch => (InStart(y) /\ ~y.pickRelaunch) \/ HeldSettled(r)
  BY DEF HeldGoesOn
<1>2. x.held \in Seq(Texts) /\ i \in 1..Len(x.held)
  BY <1>1, Registry DEF TypeInv, RunRecord
<1>3. \A j \in 1..(i - 1) : j \in 1..Len(x.held)
  BY <1>2
<1> PICK t : t = x.held[i]
  OBVIOUS
<1>4. HeldFits(r, i)
  BY <1>1, <1>2 DEF MirrorInv, HeldsFit
<1>5. /\ msg[t].run = r /\ msg[t].st \in {"wait", "write", "done", "refused"}
      /\ msg[t].st \in {"wait", "write"} => InStart(x) /\ ~x.pickRelaunch
      /\ msg[t].st = "refused" => stopping
      /\ msg[t].st = "write" => \A j \in 1..(i - 1) : Settled(x.held[j])
      /\ x.pc \in Before => msg[t].st = "wait"
      /\ \A j \in 1..(i - 1) : x.held[j] # t
  BY <1>4 DEF HeldFits
<1>6. \/ msg'[t] = msg[t]
      \/ msg[t].st = "write" /\ msg'[t].st = "done" /\ msg'[t].run = msg[t].run
  BY <1>1, <1>2, HeldDone
<1>7. \A j \in 1..(i - 1) : Settled(x.held[j]) => msg'[y.held[j]].st \in {"done", "refused"}
  <2> SUFFICES ASSUME NEW j \in 1..(i - 1), Settled(x.held[j])
               PROVE  msg'[y.held[j]].st \in {"done", "refused"}
    OBVIOUS
  <2> PICK v : v = x.held[j]
    OBVIOUS
  <2>1. \/ msg'[v] = msg[v]
        \/ msg[v].st = "write" /\ msg'[v].st = "done" /\ msg'[v].run = msg[v].run
    BY <1>1, <1>3, HeldDone
  <2> QED  BY <1>1, <2>1 DEF Settled
<1>8. HeldSettled(r) => msg[t].st \in {"done", "refused"}
  <2>1. DOMAIN x.held = 1..Len(x.held)
    BY <1>2
  <2> QED  BY <1>2, <2>1 DEF HeldSettled, Settled
<1>9. CASE msg'[t] = msg[t]
  <2>1. HeldNext(r, i, y, t)
    <3>1. run'[r] = y /\ y.held[i] = t /\ msg'[t].run = r
      BY <1>1, <1>5, <1>9
    <3>2. msg'[t].st \in {"wait", "write"} => InStart(y) /\ ~y.pickRelaunch
      BY <1>1, <1>5, <1>8, <1>9
    <3>3. msg'[t].st = "write" => \A j \in 1..(i - 1) : msg'[y.held[j]].st \in {"done", "refused"}
      BY <1>5, <1>7, <1>9
    <3>4. /\ msg'[t].st \in {"wait", "write", "done", "refused"}
          /\ msg'[t].st = "refused" => stopping'
          /\ y.pc \in Before => msg'[t].st = "wait"
          /\ \A j \in 1..(i - 1) : y.held[j] # t
      BY <1>1, <1>5, <1>9
    <3> QED  BY <3>1, <3>2, <3>3, <3>4 DEF HeldNext
  <2> QED  BY <2>1, HeldIs
<1>10. CASE msg[t].st = "write" /\ msg'[t].st = "done" /\ msg'[t].run = msg[t].run
  <2>1. HeldNext(r, i, y, t)
    BY <1>1, <1>5, <1>10 DEF HeldNext
  <2> QED  BY <2>1, HeldIs
<1> QED  BY <1>6, <1>9, <1>10

\* What a message in a start shows stays.
LEMMA ShowsDone ==
  ASSUME TypeInv, MirrorInv, writes # <<>>, writes' = Tail(writes), MsgDone,
         NEW r \in 1..used, ~run[r].quiet, NEW y, y.held = run[r].held, NEW b, LogOf(y, b, msg)
  PROVE  StartShows(y, b, msg')
<1>1. \A i \in 1..Len(y.held) :
        msg'[y.held[i]].st \in {"write", "done"} => msg[y.held[i]].st \in {"write", "done"}
  <2> SUFFICES ASSUME NEW i \in 1..Len(y.held), msg'[y.held[i]].st \in {"write", "done"}
               PROVE  msg[y.held[i]].st \in {"write", "done"}
    OBVIOUS
  <2> PICK u : u = run[r].held[i]
    OBVIOUS
  <2>1. msg'[u] = msg[u] \/ (msg[u].st = "write" /\ msg'[u].st = "done" /\ msg'[u].run = msg[u].run)
    BY HeldDone
  <2> QED  BY <2>1
<1> QED  BY <1>1 DEF LogOf, StartShows

\* The writes of messages that still wait are those of the start.
LEMMA UsersDone ==
  ASSUME TypeInv, UsersFit, writes # <<>>, writes' = Tail(writes), cur' = cur \/ cur' = NoRun,
         ~(Head(writes).cont = "reopen" /\ Head(writes).by = cur),
         cur' # NoRun => StartGoesOn(run[cur], run'[cur])
  PROVE  UsersFit'
<1>1. /\ Len(writes) \in Nat /\ Len(writes') \in Nat /\ 1 \in 1..Len(writes)
      /\ Head(writes) = writes[1]
      /\ \A n \in 1..Len(writes') : n + 1 \in 1..Len(writes) /\ n + 1 # 1 /\ writes'[n] = writes[n + 1]
  BY TailPlaces
<1> SUFFICES ASSUME cur' # NoRun, InStart(run'[cur])
             PROVE  /\ run'[cur].pc = "interrupt" => \E k \in 1..Len(writes') : ReopenLast(cur, k)'
                    /\ run'[cur].pc \notin Before =>
                         \A n \in 1..Len(writes') : HeldUser(run'[cur], writes'[n])
  BY DEF UsersFit
<1>2. StartGoesOn(run[cur], run'[cur]) /\ cur' = cur
  OBVIOUS
<1>3. ASSUME run'[cur].pc = "interrupt" PROVE \E k \in 1..Len(writes') : ReopenLast(cur, k)'
  <2>1. PICK k \in 1..Len(writes) : ReopenLast(cur, k)
    BY <1>2, <1>3 DEF StartGoesOn, UsersFit
  <2>2. k # 1
    BY <1>1, <2>1 DEF ReopenLast
  <2>3. Len(writes') = Len(writes) - 1
    BY LogTyped
  <2> PICK m \in 1..Len(writes') : m + 1 = k
    <3>1. k - 1 \in 1..Len(writes') /\ (k - 1) + 1 = k
      BY <1>1, <2>2, <2>3
    <3> QED  BY <3>1
  <2>4. writes'[m].cont = "reopen" /\ writes'[m].by = cur
    BY <1>1, <2>1 DEF ReopenLast
  <2>5. \A n \in 1..Len(writes') : n > m => writes'[n].ev.kind # "user"
    BY <1>1, <2>1 DEF ReopenLast
  <2>6. ReopenLast(cur, m)'
    BY <1>2, <2>4, <2>5 DEF ReopenLast
  <2> QED  BY <2>6
<1>4. ASSUME run'[cur].pc \notin Before, NEW n \in 1..Len(writes')
      PROVE  HeldUser(run'[cur], writes'[n])
  <2>1. run[cur].pc \notin Before /\ InStart(run[cur]) /\ run'[cur].held = run[cur].held
    BY <1>2, <1>4 DEF StartGoesOn
  <2>2. \A m \in 1..Len(writes) : HeldUser(run[cur], writes[m])
    BY <1>2, <2>1 DEF UsersFit
  <2> QED  BY <1>1, <2>1, <2>2 DEF HeldUser
<1> QED  BY <1>3, <1>4

\* The end of a write, by what else its step does.
LEMMA FinishHolds ==
  ASSUME TypeInv, MirrorInv, writes # <<>>, Logged(Head(writes).ev), writes' = Tail(writes), MsgDone,
         UNCHANGED <<used, stopping, left, end>>, \A r \in 1..used : HeldGoesOn(r),
         \A r \in Runs : run'[r].pc # "halted", Mutes', UsersFit',
         IF cur' = NoRun THEN ~AgentActive(AllWritten)
         ELSE cur' = cur /\ LogOf(run'[cur], AllWritten, msg)
  PROVE  MirrorInv'
<1>1. AllWritten' = AllWritten /\ QueueFits'
  BY TailLog DEF MirrorInv
<1>2. CallsFit' /\ HeldsFit'
  BY CallsDone, HeldsDone DEF MirrorInv
<1>3. NoFaults'
  BY DEF MirrorInv, NoFaults, MsgDone
<1>4. LogFits'
  <2>1. CASE cur' = NoRun
    BY <1>1, <2>1 DEF LogFits
  <2>2. CASE cur' # NoRun
    <3>1. cur' = cur /\ cur # NoRun /\ LogOf(run'[cur], AllWritten, msg) /\ ~run'[cur].quiet
      BY <2>2 DEF Mutes
    <3>2. cur \in 1..used
      BY <3>1, Registry DEF TypeInv
    <3>3. ~run[cur].quiet /\ run'[cur].held = run[cur].held
      BY <3>1, <3>2 DEF HeldGoesOn
    <3> PICK y : y = run'[cur]
      OBVIOUS
    <3> PICK b : b = AllWritten
      OBVIOUS
    <3>4. LogOf(y, b, msg) /\ y.held = run[cur].held
      BY <3>1, <3>3
    <3>5. StartShows(y, b, msg')
      BY <3>2, <3>3, <3>4, ShowsDone
    <3>6. HasBackground' <=> HasBackground
      BY DEF HasBackground
    <3>7. LogOf(run[cur], AllWritten, msg)'
      BY <1>1, <3>1, <3>4, <3>5, <3>6 DEF LogOf
    <3> QED  BY <2>2, <3>7 DEF LogFits
  <2> QED  BY <2>1, <2>2
<1> QED  BY <1>1, <1>2, <1>3, <1>4 DEF MirrorInv

\* The end of a write that no start waits for, or of the session id.
LEMMA FinishEases ==
  ASSUME TypeInv, PlaceInv, MirrorInv, writes # <<>>, Logged(Head(writes).ev), writes' = Tail(writes),
         MsgDone, UNCHANGED <<used, stopping, left, end, cur>>, Head(writes).cont # "reopen",
         \A r \in Runs : run'[r].pc # "halted", \A r \in 1..used : Eases(run[r], run'[r])
  PROVE  MirrorInv'
<1>1. ASSUME NEW r \in 1..used PROVE HeldGoesOn(r) /\ StartGoesOn(run[r], run'[r])
  <2>1. Eases(run[r], run'[r])
    OBVIOUS
  <2> QED  BY <2>1 DEF HeldGoesOn, StartGoesOn, Eases, PlaceEases, InStart, Before
<1>2. cur # NoRun => cur \in 1..used
  BY Registry DEF TypeInv
<1>3. UsersFit'
  BY <1>1, <1>2, UsersDone DEF MirrorInv
<1>4. Mutes'
  BY <1>2 DEF MirrorInv, Mutes, Eases
<1>5. IF cur' = NoRun THEN ~AgentActive(AllWritten)
      ELSE cur' = cur /\ LogOf(run'[cur], AllWritten, msg)
  <2>1. CASE cur = NoRun
    BY <2>1 DEF MirrorInv, LogFits
  <2>2. CASE cur # NoRun
    <3>1. LogOf(run[cur], AllWritten, msg) /\ Eases(run[cur], run'[cur])
      BY <1>2, <2>2 DEF MirrorInv, LogFits
    <3> QED  BY <2>2, <3>1, EaseLog
  <2> QED  BY <2>1, <2>2
<1> QED  BY <1>1, <1>3, <1>4, <1>5, FinishHolds

\* A run that is what it was.
LEMMA StayEases ==
  ASSUME NEW x, x.pc # "halted" PROVE Eases(x, x)
  BY DEF Eases, PlaceEases, InTurn

\* The end of a write that its caller waits for, or nobody.
LEMMA WriteDoneLogs ==
  ASSUME TypeInv, PlaceInv, MirrorInv, WriteDone PROVE MirrorInv'
<1> PICK w : w = Head(writes)
  OBVIOUS
<1>1. /\ writes # <<>> /\ w.cont \in {"none", "call", "kill", "end", "close"}
      /\ Logged(w.ev) /\ writes' = Tail(writes)
      /\ run' = IF w.cont = "kill" THEN [run EXCEPT ![w.by] = EndProcess(@)] ELSE run
      /\ msg' = IF w.cont = "call" THEN [msg EXCEPT ![w.ev.text[1]].st = "done"] ELSE msg
      /\ UNCHANGED <<used, stopping, left, end, cur>>
  BY DEF WriteDone, table, daemon
<1>2. MsgDone
  <2>1. ASSUME NEW t \in Texts
        PROVE  \/ msg'[t] = msg[t]
               \/ /\ IsCall(w) /\ t = w.ev.text[1]
                  /\ msg'[t].st = "done" /\ msg'[t].run = msg[t].run
    <3>1. msg[t] \in Message
      BY DEF TypeInv, TypeOK
    <3>2. CASE w.cont = "call" /\ t = w.ev.text[1]
      <4>1. msg'[t] = [msg[t] EXCEPT !.st = "done"]
        BY <1>1, <3>2 DEF TypeInv, TypeOK
      <4> QED  BY <3>1, <3>2, <4>1 DEF Message, IsCall
    <3>3. CASE ~(w.cont = "call" /\ t = w.ev.text[1])
      BY <1>1, <3>3 DEF TypeInv, TypeOK
    <3> QED  BY <3>2, <3>3
  <2> QED  BY <2>1 DEF MsgDone
<1>3. ASSUME NEW r \in Runs PROVE run'[r].pc # "halted" /\ Eases(run[r], run'[r])
  <2>1. run[r] \in RunRecord /\ run[r].pc # "halted"
    BY DEF TypeInv, TypeOK, MirrorInv, NoFaults
  <2> PICK x : x = run[r]
    OBVIOUS
  <2> PICK y : y = EndProcess(x)
    OBVIOUS
  <2>2. run'[r] = x \/ run'[r] = y
    BY <1>1 DEF TypeInv, TypeOK
  <2>3. /\ y.quiet = x.quiet /\ y.pc = x.pc /\ y.turning = x.turning /\ y.reaches = x.reaches
        /\ y.pickRelaunch = x.pickRelaunch /\ y.held = x.held /\ y.reopened = x.reopened
        /\ y.open = x.open /\ y.job = x.job /\ y.own = x.own
        /\ y.marker = x.marker /\ y.stopper = x.stopper
    BY <2>1 DEF EndProcess, RunRecord
  <2>4. Mute(x) => Mute(y)
    BY <2>1, ClosingFields
  <2>5. Eases(x, y)
    BY <2>1, <2>3, <2>4 DEF Eases, PlaceEases, InTurn
  <2>6. Eases(x, x)
    BY <2>1, StayEases
  <2> QED  BY <2>1, <2>2, <2>3, <2>5, <2>6
<1>4. \A r \in 1..used : r \in Runs
  BY Registry DEF TypeInv
<1> QED  BY <1>1, <1>2, <1>3, <1>4, FinishEases

\* The write of a message of a start.
LEMMA HoldWrittenLogs ==
  ASSUME TypeInv, PlaceInv, MirrorInv, HoldWritten PROVE MirrorInv'
<1> PICK w : w = Head(writes)
  OBVIOUS
<1> PICK r : r = w.by
  OBVIOUS
<1> PICK t : t = w.ev.text[1]
  OBVIOUS
<1>1. /\ writes # <<>> /\ w.cont = "hold"
      /\ Logged(w.ev) /\ writes' = Tail(writes)
      /\ run' = [run EXCEPT ![r].unsent = IF Keeps(r, t) THEN Append(@, t) ELSE @,
                            ![r].pc = IF @ = "hold" THEN "launch" ELSE @]
      /\ msg' = [msg EXCEPT ![t].st = "done", ![t].late = r # last /\ run[last].pc # "reopen"]
      /\ UNCHANGED <<used, stopping, left, end, cur>>
  BY DEF HoldWritten, table, daemon
<1>2. MsgDone
  <2>1. ASSUME NEW u \in Texts
        PROVE  \/ msg'[u] = msg[u]
               \/ /\ IsCall(w) /\ u = w.ev.text[1]
                  /\ msg'[u].st = "done" /\ msg'[u].run = msg[u].run
    <3>1. msg[u] \in Message
      BY DEF TypeInv, TypeOK
    <3>2. CASE u = t
      <4>1. msg'[u].st = "done" /\ msg'[u].run = msg[u].run
        BY <1>1, <3>1, <3>2 DEF TypeInv, TypeOK, Message
      <4> QED  BY <1>1, <3>2, <4>1 DEF IsCall
    <3>3. CASE u # t
      BY <1>1, <3>3 DEF TypeInv, TypeOK
    <3> QED  BY <3>2, <3>3
  <2> QED  BY <2>1 DEF MsgDone
<1>3. ASSUME NEW s \in Runs PROVE run'[s].pc # "halted" /\ Eases(run[s], run'[s])
  <2>1. run[s] \in RunRecord /\ run[s].pc # "halted"
    BY DEF TypeInv, TypeOK, MirrorInv, NoFaults
  <2> PICK x : x = run[s]
    OBVIOUS
  <2>2. CASE s # r
    <3>1. run'[s] = x
      BY <1>1, <2>2 DEF TypeInv, TypeOK
    <3> QED  BY <2>1, <3>1, StayEases
  <2>3. CASE s = r
    <3> PICK more : more = IF Keeps(r, t) THEN Append(x.unsent, t) ELSE x.unsent
      OBVIOUS
    <3> PICK p : p = IF x.pc = "hold" THEN "launch" ELSE x.pc
      OBVIOUS
    <3> PICK y : y = [x EXCEPT !.unsent = more, !.pc = p]
      OBVIOUS
    <3>1. run'[s] = y
      BY <1>1, <2>1, <2>3 DEF TypeInv, TypeOK, RunRecord
    <3>2. /\ y.quiet = x.quiet /\ y.pc = p /\ y.turning = x.turning /\ y.reaches = x.reaches
          /\ y.pickRelaunch = x.pickRelaunch /\ y.held = x.held /\ y.reopened = x.reopened
          /\ y.open = x.open /\ y.job = x.job /\ y.own = x.own
          /\ y.marker = x.marker /\ y.stopper = x.stopper
          /\ y.idle = x.idle /\ y.proc = x.proc /\ y.handled = x.handled
      BY <2>1 DEF RunRecord
    <3>3. Mute(x) => Mute(y)
      BY <3>2 DEF Mute
    <3>4. PlaceEases(x.pc, p) /\ p # "halted"
      BY <2>1 DEF PlaceEases, Before, InTurn
    <3>5. Eases(x, y)
      BY <3>2, <3>3, <3>4 DEF Eases
    <3> QED  BY <3>1, <3>2, <3>4, <3>5
  <2> QED  BY <2>2, <2>3
<1>4. \A s \in 1..used : s \in Runs
  BY Registry DEF TypeInv
<1> QED  BY <1>1, <1>2, <1>3, <1>4, FinishEases

\* The write of the session id.
LEMMA SessionStoredLogs ==
  ASSUME TypeInv, PlaceInv, MirrorInv, NEW r \in 1..used, SessionStored(r) PROVE MirrorInv'
<1>1. /\ writes # <<>> /\ Head(writes).cont = "session"
      /\ Logged(Head(writes).ev) /\ writes' = Tail(writes) /\ msg' = msg
      /\ run[r].pc = "store" /\ run' = [run EXCEPT ![r].pc = "options"]
      /\ UNCHANGED <<used, stopping, left, end, cur>>
  BY DEF SessionStored, table, daemon
<1>2. MsgDone
  BY <1>1 DEF MsgDone
<1>3. ASSUME NEW s \in Runs PROVE run'[s].pc # "halted" /\ Eases(run[s], run'[s])
  <2>1. run[s] \in RunRecord /\ run[s].pc # "halted"
    BY DEF TypeInv, TypeOK, MirrorInv, NoFaults
  <2>2. CASE s # r
    <3>1. run'[s] = run[s]
      BY <1>1, <2>2 DEF TypeInv, TypeOK
    <3> QED  BY <2>1, <3>1, StayEases
  <2>3. CASE s = r
    <3> PICK y : y = [run[s] EXCEPT !.pc = "options"]
      OBVIOUS
    <3>1. run'[s] = y /\ y.pc = "options"
      BY <1>1, <2>1, <2>3 DEF TypeInv, TypeOK, RunRecord
    <3>2. PlaceEases(run[s].pc, "options")
      BY <1>1, <2>3 DEF PlaceEases, Before, InTurn
    <3>3. Eases(run[s], y)
      BY <2>1, <3>2, PlaceEase
    <3> QED  BY <3>1, <3>3
  <2> QED  BY <2>2, <2>3
<1>4. \A s \in 1..used : s \in Runs
  BY Registry DEF TypeInv
<1>5. Head(writes).cont # "reopen"
  BY <1>1
<1> QED  BY <1>1, <1>2, <1>3, <1>4, <1>5, FinishEases

\* The write of the interrupt of a start comes after each write of an earlier message.
LEMMA InterruptIsLast ==
  ASSUME TypeInv, PlaceInv, MirrorInv, NEW r \in 1..used, run[r].pc = "interrupt", cur = r,
         writes # <<>>, Head(writes).cont = "reopen", Head(writes).by = r, writes' = Tail(writes)
  PROVE  \A n \in 1..Len(writes') : writes'[n].ev.kind # "user"
<1>1. /\ Len(writes) \in Nat /\ Len(writes') \in Nat /\ 1 \in 1..Len(writes)
      /\ Head(writes) = writes[1]
      /\ \A n \in 1..Len(writes') : n + 1 \in 1..Len(writes) /\ n + 1 # 1 /\ writes'[n] = writes[n + 1]
  BY TailPlaces
<1>2. cur # NoRun
  BY DEF NoRun
<1>3. InStart(run[cur])
  BY <1>2, CurFacts DEF LogOf, Shape, Before
<1>4. PICK k \in 1..Len(writes) : ReopenLast(cur, k)
  BY <1>2, <1>3 DEF MirrorInv, UsersFit
<1>5. DOMAIN writes = 1..Len(writes)
  BY LogTyped
<1>6. k = 1
  <2>1. "reopen" \in StepConts
    BY DEF StepConts
  <2>2. writes[k].cont = "reopen" /\ writes[k].by = r /\ writes[1].cont = "reopen" /\ writes[1].by = r
    BY <1>1, <1>4 DEF ReopenLast
  <2> QED  BY <1>1, <1>5, <2>1, <2>2 DEF PlaceInv, StepsDiffer
<1> QED  BY <1>1, <1>4, <1>6 DEF ReopenLast

\* A run whose record a step sets, while every other one stays.
LEMMA OneRunGoesOn ==
  ASSUME TypeInv, NEW r \in 1..used, NEW y, run' = [run EXCEPT ![r] = y],
         y.quiet \/ HeldGoesOn(r)
  PROVE  \A s \in 1..used : HeldGoesOn(s)
<1>1. run'[r] = y /\ \A s \in Runs : s # r => run'[s] = run[s]
  BY RunGiven
<1>2. \A s \in 1..used : s \in Runs
  BY Registry DEF TypeInv
<1> QED  BY <1>1, <1>2 DEF HeldGoesOn

\* The interrupt of a start is in the log.
LEMMA InterruptDoneLogs ==
  ASSUME TypeInv, PlaceInv, MirrorInv, NEW r \in 1..used, InterruptDone(r) PROVE MirrorInv'
<1>1. /\ run[r].pc = "interrupt" /\ writes # <<>> /\ Head(writes).cont = "reopen" /\ Head(writes).by = r
      /\ Logged(Head(writes).ev) /\ writes' = Tail(writes) /\ msg' = msg
      /\ UNCHANGED <<used, stopping, left, end>>
  BY DEF InterruptDone, table, daemon
<1>2. MsgDone
  BY <1>1 DEF MsgDone
<1>3. /\ r \in Runs /\ run[r] \in RunRecord /\ r # NoRun
      /\ \A s \in 1..used : s \in Runs
      /\ cur # NoRun => cur \in 1..used
      /\ \A s \in Runs : run[s].pc # "halted"
  BY Registry DEF TypeInv, NoRun, MirrorInv, NoFaults
<1> PICK x : x = run[r]
  OBVIOUS
<1>4. cur = r => LogOf(x, AllWritten, msg) /\ ~x.quiet
  BY <1>3, CurFacts
<1>5. CASE stopping \/ x.quiet
  <2> PICK y : y = Overtaken(x)
    OBVIOUS
  <2>1. run' = [run EXCEPT ![r] = y] /\ cur' = IF cur = r THEN NoRun ELSE cur
    BY <1>5 DEF InterruptDone, Forget
  <2>2. y.quiet /\ Mute(y) /\ y.pc = "over"
    BY <1>3, OvertakenFields
  <2>3. run'[r] = y /\ \A s \in Runs : s # r => run'[s] = run[s]
    BY <2>1, RunGiven
  <2>4. \A s \in 1..used : HeldGoesOn(s)
    BY <2>1, <2>2, OneRunGoesOn
  <2>5. \A s \in Runs : run'[s].pc # "halted"
    BY <1>3, <2>2, <2>3
  <2>6. Mutes'
    BY <1>1, <1>3, <2>1, <2>2, <2>3 DEF MirrorInv, Mutes
  <2>7. UsersFit'
    <3>1. cur' = cur \/ cur' = NoRun
      BY <2>1
    <3>2. CASE cur = r
      BY <2>1, <3>2 DEF UsersFit
    <3>3. CASE cur # r
      <4>1. cur' # NoRun => StartGoesOn(run[cur], run'[cur])
        BY <1>3, <2>1, <2>3, <3>3 DEF StartGoesOn
      <4>2. ~(Head(writes).cont = "reopen" /\ Head(writes).by = cur)
        BY <1>1, <3>3
      <4> QED  BY <1>1, <3>1, <4>1, <4>2, UsersDone DEF MirrorInv
    <3> QED  BY <3>2, <3>3
  <2>8. IF cur' = NoRun THEN ~AgentActive(AllWritten)
        ELSE cur' = cur /\ LogOf(run'[cur], AllWritten, msg)
    <3>1. CASE cur = r
      <4>1. Shape(x) /\ Mirrors(x, AllWritten) /\ x.pc = "interrupt"
        BY <1>1, <1>4, <3>1 DEF LogOf
      <4>2. ~x.job /\ ~x.own
        BY <4>1 DEF Shape, Before
      <4>3. ~AgentActive(AllWritten)
        BY <4>1, <4>2 DEF Mirrors, AgentActive, TurnRuns
      <4> QED  BY <2>1, <3>1, <4>3
    <3>2. CASE cur # r /\ cur = NoRun
      BY <2>1, <3>2 DEF MirrorInv, LogFits
    <3>3. CASE cur # r /\ cur # NoRun
      BY <1>3, <2>1, <2>3, <3>3 DEF MirrorInv, LogFits
    <3> QED  BY <3>1, <3>2, <3>3
  <2> QED  BY <1>1, <1>2, <2>4, <2>5, <2>6, <2>7, <2>8, FinishHolds
<1>6. CASE ~(stopping \/ x.quiet)
  <2> PICK p : p = IF x.byPick THEN "launch" ELSE "hold"
    OBVIOUS
  <2> PICK y : y = [x EXCEPT !.reopened = "ok", !.pc = p]
    OBVIOUS
  <2>1. run' = [run EXCEPT ![r] = y] /\ cur' = cur
    <3>1. /\ run' = [run EXCEPT ![r].reopened = "ok", ![r].pc = IF run[r].byPick THEN "launch" ELSE "hold"]
          /\ cur' = cur
      BY <1>6 DEF InterruptDone
    <3> QED  BY <1>3, <3>1 DEF TypeInv, TypeOK, RunRecord
  <2>2. /\ y.quiet = x.quiet /\ y.pc = p /\ y.turning = x.turning /\ y.reaches = x.reaches
        /\ y.pickRelaunch = x.pickRelaunch /\ y.held = x.held /\ y.reopened = "ok"
        /\ y.open = x.open /\ y.job = x.job /\ y.own = x.own
        /\ y.marker = x.marker /\ y.stopper = x.stopper
    BY <1>3 DEF RunRecord
  <2>3. x.turning
    BY <1>1 DEF PlaceInv, TurnsFit, TurnFits
  <2>4. cur = r /\ cur # NoRun
    BY <1>6, <2>3, WorkIsCur
  <2>5. run'[r] = y /\ \A s \in Runs : s # r => run'[s] = run[s]
    BY <2>1, RunGiven
  <2>6. p \notin Before /\ p \notin InTurn /\ p \notin {"resumed", "held", "halted", "reopen", "interrupt"}
    BY DEF Before, InTurn
  <2>7. HeldGoesOn(r)
    BY <2>2, <2>5, <2>6 DEF HeldGoesOn, InStart
  <2>8. \A s \in 1..used : HeldGoesOn(s)
    BY <2>1, <2>7, OneRunGoesOn
  <2>9. \A s \in Runs : run'[s].pc # "halted"
    BY <1>3, <2>2, <2>5, <2>6
  <2>10. Mutes'
    BY <1>1, <1>3, <2>1, <2>2, <2>4, <2>5 DEF MirrorInv, Mutes
  <2>11. UsersFit'
    <3>1. \A n \in 1..Len(writes') : writes'[n].ev.kind # "user"
      BY <1>1, <2>4, InterruptIsLast
    <3>2. run'[cur'].pc \notin Before
      BY <2>1, <2>2, <2>4, <2>5, <2>6
    <3> QED  BY <3>1, <3>2 DEF UsersFit, HeldUser, Before
  <2>12. LogOf(y, AllWritten, msg)
    <3>1. Shape(x) /\ Mirrors(x, AllWritten) /\ x.pc = "interrupt" /\ (~HasBackground => NoBackground(x))
      BY <1>1, <1>4, <2>4 DEF LogOf
    <3>2. Shape(y)
      BY <2>2, <2>6, <3>1 DEF Shape, InStart
    <3>3. Mirrors(y, AllWritten)
      BY <2>2, <2>6, <3>1 DEF Mirrors
    <3>4. x.pickRelaunch \/ x.held # <<>>
      BY <3>1 DEF Shape, Before
    <3>5. \A i \in 1..Len(x.held) : msg[x.held[i]].st = "wait"
      BY <1>4, <2>4, <3>1 DEF MirrorInv, HeldsFit, HeldFits, Before
    <3>6. StartShows(y, AllWritten, msg)
      BY <2>2, <3>4, <3>5 DEF StartShows
    <3> QED  BY <2>2, <3>1, <3>2, <3>3, <3>6 DEF LogOf, NoBackground
  <2>13. IF cur' = NoRun THEN ~AgentActive(AllWritten)
         ELSE cur' = cur /\ LogOf(run'[cur], AllWritten, msg)
    BY <2>1, <2>4, <2>5, <2>12
  <2> QED  BY <1>1, <1>2, <2>8, <2>9, <2>10, <2>11, <2>13, FinishHolds
<1> QED  BY <1>5, <1>6

\* The write of `resumed`.
LEMMA ResumedDoneLogs ==
  ASSUME TypeInv, PlaceInv, MirrorInv, NEW r \in 1..used, ResumedDone(r) PROVE MirrorInv'
<1> PICK x : x = run[r]
  OBVIOUS
<1> PICK y : y = IF x.pickRelaunch THEN PickRelaunchOver(x) ELSE [x EXCEPT !.pc = "held"]
  OBVIOUS
<1>1. /\ x.pc = "resumed" /\ writes # <<>> /\ Head(writes).cont = "resumed"
      /\ Logged(Head(writes).ev) /\ writes' = Tail(writes) /\ msg' = msg
      /\ UNCHANGED <<used, stopping, left, end, cur>> /\ run' = [run EXCEPT ![r] = y]
  BY DEF ResumedDone, AfterResumed, table, daemon
<1>2. MsgDone
  BY <1>1 DEF MsgDone
<1>3. /\ r \in Runs /\ run[r] \in RunRecord /\ r # NoRun
      /\ \A s \in 1..used : s \in Runs
      /\ cur # NoRun => cur \in 1..used
      /\ \A s \in Runs : run[s].pc # "halted"
  BY Registry DEF TypeInv, NoRun, MirrorInv, NoFaults
<1>4. x.turning
  BY <1>1 DEF PlaceInv, TurnsFit, TurnFits
<1>5. /\ y.quiet = x.quiet /\ y.held = x.held /\ y.reopened = x.reopened
      /\ y.open = x.open /\ y.job = x.job /\ y.own = x.own
      /\ y.marker = x.marker /\ y.stopper = x.stopper /\ y.reaches = x.reaches
      /\ x.idle = "off" => y.idle = "off"
      /\ x.pickRelaunch => y.pc = "idle" /\ ~y.turning /\ ~y.pickRelaunch
      /\ ~x.pickRelaunch => y.pc = "held" /\ y.turning = x.turning /\ y.pickRelaunch = x.pickRelaunch
  <2>1. CASE x.pickRelaunch
    BY <1>3, <2>1 DEF PickRelaunchOver, Touch, RunRecord
  <2>2. CASE ~x.pickRelaunch
    BY <1>3, <2>2 DEF RunRecord
  <2> QED  BY <2>1, <2>2
<1>6. run'[r] = y /\ \A s \in Runs : s # r => run'[s] = run[s]
  BY <1>1, RunGiven
<1>7. HeldGoesOn(r)
  BY <1>5, <1>6 DEF HeldGoesOn, InStart, Before
<1>8. \A s \in 1..used : HeldGoesOn(s)
  BY <1>1, <1>7, OneRunGoesOn
<1>9. \A s \in Runs : run'[s].pc # "halted"
  BY <1>3, <1>5, <1>6
<1>10. cur # r => x.quiet
  BY <1>4, WorkIsCur
<1>11. Mutes'
  <2>1. Mute(x) /\ x.quiet => Mute(y)
    BY <1>5 DEF Mute
  <2> QED  BY <1>1, <1>3, <1>5, <1>6, <1>10, <2>1 DEF MirrorInv, Mutes
<1>12. UsersFit'
  <2>1. StartGoesOn(x, y)
    BY <1>1, <1>5 DEF StartGoesOn, InStart, Before
  <2>2. cur' # NoRun => StartGoesOn(run[cur], run'[cur])
    <3>1. CASE cur = r
      BY <1>6, <2>1, <3>1
    <3>2. CASE cur # r /\ cur' # NoRun
      BY <1>1, <1>3, <1>6, <3>2 DEF StartGoesOn
    <3> QED  BY <3>1, <3>2
  <2>3. ~(Head(writes).cont = "reopen" /\ Head(writes).by = cur) /\ (cur' = cur \/ cur' = NoRun)
    BY <1>1
  <2> QED  BY <1>1, <2>2, <2>3, UsersDone DEF MirrorInv
<1>13. IF cur' = NoRun THEN ~AgentActive(AllWritten)
       ELSE cur' = cur /\ LogOf(run'[cur], AllWritten, msg)
  <2>1. CASE cur = r
    <3>1. LogOf(x, AllWritten, msg) /\ cur # NoRun
      BY <1>3, <2>1, CurFacts
    <3>2. LogOf(y, AllWritten, msg)
      <4>1. CASE x.pickRelaunch
        <5>1. x.reaches /\ x.pc \notin Before
          BY <1>1, <3>1, <4>1 DEF LogOf, Shape, Before
        <5> QED  BY <1>4, <1>5, <3>1, <4>1, <5>1, PickOverLog
      <4>2. CASE ~x.pickRelaunch
        <5>1. x.held # <<>> /\ x.pc \notin Before
          BY <1>1, <3>1, <4>2 DEF LogOf, Shape, Before
        <5> QED  BY <1>4, <1>5, <3>1, <4>2, <5>1, HeldLog
      <4> QED  BY <4>1, <4>2
    <3> QED  BY <1>1, <1>6, <2>1, <3>1, <3>2
  <2>2. CASE cur # r /\ cur = NoRun
    BY <1>1, <2>2 DEF MirrorInv, LogFits
  <2>3. CASE cur # r /\ cur # NoRun
    BY <1>1, <1>3, <1>6, <2>3 DEF MirrorInv, LogFits
  <2> QED  BY <2>1, <2>2, <2>3
<1> QED  BY <1>1, <1>2, <1>8, <1>9, <1>11, <1>12, <1>13, FinishHolds

-----------------------------------------------------------------------------
(* The ends of a chat. *)

\* A new run is the current and the last one, of a chat with none that nothing ends.
Registers ==
  cur = NoRun /\ Accepts /\ end' = end /\ used' = used + 1 /\ cur' = used' /\ last' = used'

\* What a step may do to the current run, to the call of `end` and to the two flags.
Onward ==
  /\ faulted => faulted'
  /\ closed' = closed \/ Close
  /\ (cur' \in {cur, NoRun} /\ used' = used) \/ Registers
  /\ \/ end' = end \/ end'.st = "fails"
     \/ EndRefused \/ EndResolves \/ EndFails
     \/ EndWaited \/ EndCancels \/ EndAtOnce \/ EndWithNoRun

\* What most steps do.
Passes ==
  faulted' = faulted /\ closed' = closed /\ end' = end /\ used' = used /\ cur' \in {cur, NoRun}

\* They are allowed what every step is.
LEMMA PassesOn == Passes => Onward
  BY DEF Passes, Onward

\* The steps of a message.
LEMMA MessagesOnward ==
  ASSUME TypeInv, NEW t \in Texts, Send(t) \/ MessageStep(t) PROVE Onward
<1>1. RefuseMessage(t) \/ JoinStart(t) \/ JoinTurn(t) \/ StartTurn(t) => Passes
  BY DEF RefuseMessage, JoinStart, JoinTurn, StartTurn, Passes, chat, table, daemon
<1>2. Restart(t) => Onward
  BY DEF Restart, Register, Registers, Onward, chat, table, daemon
<1>3. MessageFails(t) => Passes
  BY DEF MessageFails, Passes, chat, table, daemon
<1>4. ASSUME NEW r, HoldRefused(r, t) \/ HoldStopping(r, t) PROVE Passes
  BY <1>4 DEF HoldRefused, HoldStopping, Forget, Passes, chat, table, daemon
<1>5. ASSUME NEW r, HoldAgain(r, t) \/ HoldWrite(r, t) PROVE Passes
  BY <1>5 DEF HoldAgain, HoldWrite, Passes, chat, table, daemon
<1> QED  BY <1>1, <1>2, <1>3, <1>4, <1>5, PassesOn DEF MessageStep, Send

\* The ends of the writes.
LEMMA WritesOnward ==
  ASSUME TypeInv, WriteStep \/ WriteFails PROVE Onward
<1>1. CASE WriteFails
  <2>1. end' = end \/ end' = [end EXCEPT !.st = "fails"]
    BY <1>1 DEF WriteFails
  <2>2. end' = end \/ end'.st = "fails"
    BY <2>1 DEF TypeInv, TypeOK, End
  <2>3. cur' \in {cur, NoRun} /\ used' = used /\ faulted' /\ closed' = closed
    BY <1>1 DEF WriteFails, Forget, table, daemon
  <2> QED  BY <2>2, <2>3 DEF Onward
<1>2. CASE WriteStep
  <2>1. CASE WriteDone \/ HoldWritten
    BY <2>1 DEF WriteDone, HoldWritten, Onward, table, daemon
  <2>2. ASSUME NEW r, InterruptDone(r) \/ SessionStored(r) \/ ResumedDone(r) PROVE Onward
    BY <2>2 DEF InterruptDone, SessionStored, ResumedDone, Forget, Onward, table, daemon
  <2> QED  BY <1>2, <2>1, <2>2 DEF WriteStep
<1> QED  BY <1>1, <1>2

\* The steps of the clients, of the picks and of the ends.
LEMMA ClientsOnward ==
  ASSUME TypeInv,
         \/ SetOption \/ CancelOwnTurn \/ CancelTurn \/ CancelEarly
         \/ Stop \/ EndCancels \/ EndAtOnce \/ EndWithNoRun \/ StopStarts
         \/ PickAnswered \/ PickStep \/ EndStep \/ Close
  PROVE  Onward
<1>1. SetOption \/ PickAnswered \/ PickRefused \/ PickWaits \/ PickDirect => Passes
  BY DEF SetOption, PickAnswered, PickRefused, PickWaits, PickDirect, Passes, chat, table, daemon
<1>2. PickRelaunches => Onward
  BY DEF PickRelaunches, Register, Registers, Onward, chat, table, daemon
<1>3. CancelOwnTurn \/ CancelTurn \/ CancelEarly => Passes
  BY DEF CancelOwnTurn, CancelTurn, CancelEarly, Passes, chat, table, daemon
<1>4. Stop => Passes
  BY DEF Stop, Forget, Passes, chat, table, daemon
<1>5. StopStarts => Passes
  BY DEF StopStarts, Passes, chat, table
<1>6. Close => Onward
  <2> HAVE Close
  <2>1. faulted' = faulted /\ end' = end /\ used' = used /\ cur' \in {cur, NoRun}
    BY DEF Close, Forget, chat, table
  <2> QED  BY <2>1 DEF Onward
<1>7. EndCancels \/ EndAtOnce \/ EndWithNoRun \/ EndWaited => Onward
  <2> HAVE EndCancels \/ EndAtOnce \/ EndWithNoRun \/ EndWaited
  <2>1. faulted' = faulted /\ closed' = closed /\ used' = used
    BY DEF EndCancels, EndAtOnce, EndWithNoRun, EndWaited, chat, table, daemon
  <2>2. cur' \in {cur, NoRun}
    BY DEF EndCancels, EndAtOnce, EndWithNoRun, EndWaited, EndNow, Forget
  <2> QED  BY <2>1, <2>2 DEF Onward
<1>8. EndRefused \/ EndResolves \/ EndFails => Onward
  <2> HAVE EndRefused \/ EndResolves \/ EndFails
  <2>1. faulted' = faulted /\ closed' = closed /\ used' = used /\ cur' = cur
    BY DEF EndRefused, EndResolves, EndFails, chat, table, daemon
  <2> QED  BY <2>1 DEF Onward
<1> QED  BY <1>1, <1>2, <1>3, <1>4, <1>5, <1>6, <1>7, <1>8, PassesOn DEF PickStep, EndStep

\* The steps of a run and of its process.
LEMMA RunsOnward ==
  ASSUME TypeInv, NEW r, RunStep(r) \/ CheckStep(r) \/ ExitStep(r) \/ ProcessEnds(r) PROVE Onward
<1>1. CASE RunStep(r)
  <2>1. Reopen(r) => Passes
    BY DEF Reopen, Forget, Passes, chat, table, daemon
  <2>2. LaunchOver(r) \/ Spawn(r) \/ StartHalted(r) => Passes
    BY DEF LaunchOver, Spawn, StartHalted, Passes, chat, table, daemon
  <2>3. OptionSent(r) \/ OptionsQuiet(r) \/ OptionsDone(r) => Passes
    BY DEF OptionSent, OptionsQuiet, OptionsDone, Passes, chat, table, daemon
  <2>4. PickOptionsDone(r) \/ HeldOver(r) => Passes
    BY DEF PickOptionsDone, HeldOver, Passes, chat, table, daemon
  <2>5. NextPrompt(r) => Passes
    BY DEF NextPrompt, Passes, chat, table, daemon
  <2>6. ASSUME NEW jobs \in BOOLEAN, TurnOver(r, jobs) PROVE Passes
    BY <2>6 DEF TurnOver, Passes, chat, table, daemon
  <2> QED  BY <1>1, <2>1, <2>2, <2>3, <2>4, <2>5, <2>6, PassesOn DEF RunStep
<1>2. CASE CheckStep(r)
  <2>1. IdleOvertaken(r) => Passes
    BY DEF IdleOvertaken, Passes, chat, table, daemon
  <2>2. ASSUME NEW jobs \in BOOLEAN, MarkerChecked(r, jobs) PROVE Passes
    BY <2>2 DEF MarkerChecked, Passes, chat, table, daemon
  <2>3. ASSUME NEW jobs \in BOOLEAN, StopChecked(r, jobs) PROVE Passes
    BY <2>3 DEF StopChecked, Passes, chat, table, daemon
  <2> QED  BY <1>2, <2>1, <2>2, <2>3, PassesOn DEF CheckStep
<1>3. CASE ExitStep(r) \/ ProcessEnds(r)
  <2>1. OnExit(r) => Passes
    BY DEF OnExit, Forget, Passes, chat, table, daemon
  <2>2. GroupEnded(r) => Passes
    BY DEF GroupEnded, Passes, chat, table, daemon
  <2>3. ASSUME NEW clean, Exit(r, clean) PROVE Passes
    BY <2>3 DEF Exit, Passes, chat, table, daemon
  <2> QED  BY <1>3, <2>1, <2>2, <2>3, PassesOn DEF ExitStep, ProcessEnds
<1> QED  BY <1>1, <1>2, <1>3

\* The steps of an agent.
LEMMA AgentsOnward ==
  ASSUME TypeInv, NEW r, AgentStep(r) PROVE Onward
<1>1. LaunchFails(r) => Passes
  BY DEF LaunchFails, Forget, Passes, chat, table, daemon
<1>2. Initialized(r) \/ SessionResumed(r) \/ SessionCreated(r) \/ OptionAnswered(r) => Passes
  BY DEF Initialized, SessionResumed, SessionCreated, OptionAnswered, Passes, chat, table, daemon
<1>3. SessionLost(r) => Passes
  BY DEF SessionLost, Forget, Passes, chat, table, daemon
<1>4. AgentFails(r) => Passes
  BY DEF AgentFails, Forget, Passes, chat, table, daemon
<1>5. AgentWorks(r) \/ OwnTurnMarker(r) \/ ConnectionCut(r) => Passes
  BY DEF AgentWorks, OwnTurnMarker, ConnectionCut, Passes, chat, table, daemon
<1>6. OwnOutput(r) => Passes
  BY DEF OwnOutput, Passes, chat, table, daemon
<1>7. IdleExpires(r) => Passes
  BY DEF IdleExpires, Forget, Passes, chat, table, daemon
<1>8. ASSUME NEW flag \in BOOLEAN, PromptReturned(r, flag) \/ Exit(r, flag) PROVE Passes
  BY <1>8 DEF PromptReturned, Exit, Passes, chat, table, daemon
<1>9. ASSUME NEW t \in Texts, AgentInjects(r, t) \/ SteerAnswered(r, t) PROVE Passes
  BY <1>9 DEF AgentInjects, SteerAnswered, Passes, chat, table, daemon
<1>10. ASSUME NEW q \in Requests, Ask(r, q) \/ Resolve(r, q) PROVE Passes
  BY <1>10 DEF Ask, Resolve, Passes, chat, table, daemon
<1>11. ASSUME NEW jobs \in BOOLEAN, NEW ended \in BOOLEAN, NEW recent \in BOOLEAN,
              IdleChecked(r, jobs, ended, recent)
       PROVE  Passes
  <2>1. faulted' = faulted /\ closed' = closed /\ end' = end /\ used' = used
    BY <1>11 DEF IdleChecked, chat, table, daemon
  <2>2. UNCHANGED <<cur, pick>> \/ Forget(r)
    BY <1>11 DEF IdleChecked
  <2> QED  BY <2>1, <2>2 DEF Passes, Forget
<1> QED  BY <1>1, <1>2, <1>3, <1>4, <1>5, <1>6, <1>7, <1>8, <1>9, <1>10, <1>11, PassesOn
         DEF AgentStep, AgentTakesBack

\* Every step.
LEMMA NextOnward == ASSUME TypeInv, [Next]_vars PROVE Onward
<1>1. CASE UNCHANGED vars
  BY <1>1 DEF vars, chat, table, daemon, Onward
<1>2. CASE ClientStep
  <2>1. ASSUME NEW q \in Requests, Answer(q) PROVE Onward
    BY <2>1 DEF Answer, Resolve, Onward, chat, table, daemon
  <2> QED  BY <1>2, <2>1, MessagesOnward, ClientsOnward DEF ClientStep
<1> QED  BY <1>1, <1>2, MessagesOnward, WritesOnward, ClientsOnward, RunsOnward, AgentsOnward
         DEF Next, Outside

\* A chat that was closed is at rest, and a chat whose end goes on gets no other run.
ClosedRests == closed => stopping /\ cur = NoRun /\ \A r \in Runs : run[r].proc # "alive"
EndHasItsRun ==
  /\ end.st = "turn" => cur \in {NoRun, end.run} /\ end.run \in 1..used
  /\ end.st = "ends" => cur = NoRun
EndInv == ClosedRests /\ EndHasItsRun

\* A chat that nobody closed or ended yet.
LEMMA InitEnds == Init => EndInv
  BY DEF Init, InitCommon, NoEnd, EndInv, ClosedRests, EndHasItsRun

\* A closed chat stays at rest, and the run of an end that goes on is the only one.
LEMMA NextEnds ==
  ASSUME TypeInv, TypeInv', StartInv, EndInv, [Next]_vars PROVE EndInv'
<1>1. Onward
  BY NextOnward
<1>2. Holds
  BY NextHolds
<1>3. cur' # NoRun => cur' = cur \/ (Accepts /\ end' = end)
  BY <1>1 DEF Onward, Registers
<1>4. ClosedRests'
  <2> SUFFICES ASSUME closed' PROVE stopping' /\ cur' = NoRun /\ \A r \in Runs : run'[r].proc # "alive"
    BY DEF ClosedRests
  <2>1. CASE Close
    <3>1. stopping' /\ cur' = NoRun
      BY <2>1 DEF Close, Forget
    <3>2. run' = [r \in Runs |-> Closing(r)]
      BY <2>1 DEF Close
    <3>3. ASSUME NEW r \in Runs PROVE Closing(r).proc # "alive"
      <4> PICK x \in RunRecord : Closing(r) = EndProcess(x)
        <5>1. run[r] \in RunRecord /\ Silence(run[r]) \in RunRecord
          BY SilenceType DEF TypeInv, TypeOK
        <5> QED  BY <5>1 DEF Closing
      <4> QED  BY DEF EndProcess, RunRecord
    <3> QED  BY <3>1, <3>2, <3>3
  <2>2. CASE ~Close
    <3>1. closed
      BY <1>1, <2>2 DEF Onward
    <3>2. stopping /\ cur = NoRun /\ \A r \in Runs : run[r].proc # "alive"
      BY <3>1 DEF EndInv, ClosedRests
    <3>3. stopping'
      BY <3>2, StoppingStays
    <3>4. cur' = NoRun
      BY <1>3, <3>2 DEF Accepts
    <3> QED  BY <1>2, <3>2, <3>3, <3>4 DEF Holds, AliveStep
  <2> QED  BY <2>1, <2>2
<1>5. EndHasItsRun'
  <2>1. CASE end' = end
    <3>1. CASE end.st \in {"turn", "ends"}
      <4>1. cur' \in {cur, NoRun} /\ used' = used
        BY <1>1, <3>1 DEF Onward, Registers, Accepts
      <4> QED  BY <2>1, <3>1, <4>1 DEF EndInv, EndHasItsRun
    <3>2. CASE end.st \notin {"turn", "ends"}
      BY <2>1, <3>2 DEF EndHasItsRun
    <3> QED  BY <3>1, <3>2
  <2>2. CASE end'.st = "fails" \/ EndRefused \/ EndResolves \/ EndFails
    BY <2>2 DEF EndRefused, EndResolves, EndFails, NoEnd, EndHasItsRun
  <2>3. CASE EndCancels
    <3>1. end' = [st |-> "turn", run |-> cur] /\ cur' = cur /\ cur # NoRun /\ used' = used
      BY <2>3 DEF EndCancels, table
    <3>2. cur \in 1..used
      BY <3>1, Registry DEF TypeInv
    <3> QED  BY <3>1, <3>2 DEF EndHasItsRun
  <2>4. CASE EndAtOnce
    <3>1. end' = [st |-> "ends", run |-> cur] /\ cur' = NoRun
      BY <2>4 DEF EndAtOnce, EndNow, Forget
    <3> QED  BY <3>1 DEF EndHasItsRun
  <2>5. CASE EndWithNoRun
    <3>1. end' = [st |-> "ends", run |-> NoRun] /\ cur' = NoRun
      BY <2>5 DEF EndWithNoRun
    <3> QED  BY <3>1 DEF EndHasItsRun
  <2>6. CASE EndWaited
    <3>1. end' = [st |-> "ends", run |-> end.run] /\ cur' = IF cur = end.run THEN NoRun ELSE cur
      BY <2>6 DEF EndWaited, EndNow, Forget
    <3>2. cur \in {NoRun, end.run}
      BY <2>6 DEF EndWaited, EndInv, EndHasItsRun
    <3> QED  BY <3>1, <3>2 DEF EndHasItsRun
  <2> QED  BY <1>1, <2>1, <2>2, <2>3, <2>4, <2>5, <2>6 DEF Onward
<1> QED  BY <1>4, <1>5 DEF EndInv

-----------------------------------------------------------------------------
(* Every step. *)

\* The steps of a run and of its process.
LEMMA RunLogs ==
  ASSUME TypeInv, TypeInv', StartInv, PlaceInv, MirrorInv, NEW r \in 1..used,
         RunStep(r) \/ CheckStep(r) \/ ExitStep(r) \/ ProcessEnds(r)
  PROVE  MirrorInv'
<1>1. CASE RunStep(r)
  <2>1. ~StartHalted(r)
    BY Registry DEF StartHalted, MirrorInv, NoFaults, TypeInv
  <2>2. Reopen(r) => MirrorInv'
    BY ReopenLogs
  <2>3. LaunchOver(r) \/ Spawn(r) \/ OptionSent(r) \/ OptionsQuiet(r) => MirrorInv'
    BY StartEases
  <2>4. OptionsDone(r) => MirrorInv'
    BY OptionsDoneHolds
  <2>5. PickOptionsDone(r) => MirrorInv'
    BY PickOptionsHolds
  <2>6. HeldOver(r) => MirrorInv'
    BY HeldOverHolds
  <2>7. NextPrompt(r) => MirrorInv'
    BY TurnEases
  <2>8. ASSUME NEW jobs \in BOOLEAN, TurnOver(r, jobs) PROVE MirrorInv'
    BY <2>8, TurnOverHolds
  <2> QED  BY <1>1, <2>1, <2>2, <2>3, <2>4, <2>5, <2>6, <2>7, <2>8 DEF RunStep
<1>2. CASE CheckStep(r)
  <2>1. IdleOvertaken(r) => MirrorInv'
    BY ProcessEases
  <2>2. ASSUME NEW jobs \in BOOLEAN, MarkerChecked(r, jobs) \/ StopChecked(r, jobs) PROVE MirrorInv'
    BY <2>2, CheckHolds
  <2> QED  BY <1>2, <2>1, <2>2 DEF CheckStep
<1>3. CASE ExitStep(r) \/ ProcessEnds(r)
  <2>1. OnExit(r) => MirrorInv'
    BY ExitLogs
  <2>2. GroupEnded(r) \/ (\E clean \in BOOLEAN : Exit(r, clean)) => MirrorInv'
    BY ProcessEases
  <2> QED  BY <1>3, <2>1, <2>2 DEF ExitStep, ProcessEnds
<1> QED  BY <1>1, <1>2, <1>3

\* The steps of the agent of a run.
LEMMA AgentLogs ==
  ASSUME TypeInv, TypeInv', StartInv, PlaceInv, MirrorInv, NEW r \in 1..used, AgentStep(r)
  PROVE  MirrorInv'
<1>1. LaunchFails(r) \/ AgentFails(r) \/ SessionLost(r) => MirrorInv'
  BY FailOverLogs
<1>2. Initialized(r) \/ SessionResumed(r) \/ OptionAnswered(r) => MirrorInv'
  BY StartEases
<1>3. SessionCreated(r) => MirrorInv'
  BY SessionCreatedEases
<1>4. AgentWorks(r) => MirrorInv'
  BY AgentWorksEases
<1>5. OwnOutput(r) => MirrorInv'
  BY OwnOutputHolds
<1>6. \/ OwnTurnMarker(r) \/ \E reason \in BOOLEAN : PromptReturned(r, reason)
      \/ \E t \in Texts : AgentInjects(r, t) \/ SteerAnswered(r, t)
      => MirrorInv'
  BY TurnEases
<1>7. IdleExpires(r) => MirrorInv'
  <2>1. IdleExpires(r) /\ HasBackground => MirrorInv'
    BY ProcessEases
  <2> QED  BY <2>1, IdleExpiresLogs
<1>8. ConnectionCut(r) \/ (\E clean \in BOOLEAN : Exit(r, clean)) => MirrorInv'
  BY ProcessEases
<1>9. ASSUME NEW q \in Requests, Ask(r, q) \/ AgentTakesBack(r, q) PROVE MirrorInv'
  BY <1>9, RequestHolds DEF AgentTakesBack
<1>10. ASSUME NEW jobs \in BOOLEAN, NEW ended \in BOOLEAN, NEW recent \in BOOLEAN,
              IdleChecked(r, jobs, ended, recent)
       PROVE  MirrorInv'
  BY <1>10, IdleCheckedLogs
<1> QED  BY <1>1, <1>2, <1>3, <1>4, <1>5, <1>6, <1>7, <1>8, <1>9, <1>10 DEF AgentStep

\* The steps of a message.
LEMMA MessageLogs ==
  ASSUME TypeInv, TypeInv', PlaceInv, MirrorInv, NEW t \in Texts, Send(t) \/ MessageStep(t)
  PROVE  MirrorInv'
<1>1. CASE Send(t)
  <2>1. RefuseMessage(t) => MirrorInv'
    BY RefuseEases
  <2>2. Restart(t) => MirrorInv'
    BY RestartLogs
  <2>3. JoinStart(t) => MirrorInv'
    BY JoinStartLogs
  <2>4. JoinTurn(t) \/ StartTurn(t) => MirrorInv'
    BY TurnLogs
  <2> QED  BY <1>1, <2>1, <2>2, <2>3, <2>4 DEF Send
<1>2. ~MessageFails(t)
  BY DEF MessageFails, MirrorInv, NoFaults
<1>3. ASSUME NEW r \in 1..used,
             HoldRefused(r, t) \/ HoldStopping(r, t) \/ HoldAgain(r, t) \/ HoldWrite(r, t)
      PROVE  MirrorInv'
  <2>1. HoldRefused(r, t) \/ HoldAgain(r, t) => MirrorInv'
    BY HoldLeftLogs
  <2>2. HoldStopping(r, t) => MirrorInv'
    BY HoldStoppingLogs
  <2>3. HoldWrite(r, t) => MirrorInv'
    BY HoldWriteLogs
  <2> QED  BY <1>3, <2>1, <2>2, <2>3
<1> QED  BY <1>1, <1>2, <1>3 DEF MessageStep

\* The steps of the clients, of the picks and of the ends.
LEMMA ClientLogs ==
  ASSUME TypeInv, TypeInv', StartInv, PlaceInv, MirrorInv,
         ClientStep \/ PickAnswered \/ PickStep \/ EndStep \/ Close
  PROVE  MirrorInv'
<1>1. CASE ClientStep
  <2>1. ASSUME NEW q \in Requests, Answer(q) PROVE MirrorInv'
    <3>1. cur \in 1..used /\ Resolve(cur, q)
      BY <2>1, Registry DEF Answer, TypeInv
    <3> QED  BY <3>1, RequestHolds
  <2>2. SetOption => MirrorInv'
    BY PickEases
  <2>3. CancelOwnTurn \/ CancelTurn \/ CancelEarly \/ EndCancels => MirrorInv'
    BY CancelHoldsLog
  <2>4. Stop => MirrorInv'
    BY StopLogs
  <2>5. EndAtOnce => MirrorInv'
    BY EndLogs
  <2>6. EndWithNoRun => MirrorInv'
    BY EndEases
  <2>7. StopStarts => MirrorInv'
    BY StopStartsEases
  <2> QED  BY <1>1, <2>1, <2>2, <2>3, <2>4, <2>5, <2>6, <2>7, MessageLogs DEF ClientStep
<1>2. CASE PickAnswered \/ PickStep
  <2>1. PickRelaunches => MirrorInv'
    BY RestartLogs
  <2> QED  BY <1>2, <2>1, PickEases DEF PickStep
<1>3. CASE EndStep
  <2>1. ~EndFails
    BY DEF EndFails, MirrorInv, NoFaults
  <2>2. EndWaited => MirrorInv'
    BY EndLogs
  <2>3. EndRefused \/ EndResolves => MirrorInv'
    BY EndEases
  <2> QED  BY <1>3, <2>1, <2>2, <2>3 DEF EndStep
<1>4. CASE Close
  BY <1>4, CloseLogs
<1> QED  BY <1>1, <1>2, <1>3, <1>4

\* Until a write fails, every step keeps what the runs have in mind and what the log says alike.
LEMMA NextLogs ==
  ASSUME TypeInv, TypeInv', StartInv, PlaceInv, LogInv, [Next]_vars PROVE LogInv'
<1> SUFFICES ASSUME ~faulted' PROVE MirrorInv'
  BY DEF LogInv
<1>1. MirrorInv
  BY NextOnward DEF Onward, LogInv
<1>2. CASE UNCHANGED vars
  <2>1. UNCHANGED <<fold, writes, cur, run, used, stopping, left, end, msg>>
    BY <1>2 DEF vars, chat, table, daemon
  <2>2. Aloof /\ MsgKept
    BY <1>1, <2>1 DEF Aloof, MsgKept, MirrorInv, NoFaults
  <2> QED  BY <1>1, <2>1, <2>2, SameEases
<1>3. ~WriteFails
  BY DEF WriteFails
<1>4. WriteStep => MirrorInv'
  <2>1. WriteDone \/ HoldWritten => MirrorInv'
    BY <1>1, WriteDoneLogs, HoldWrittenLogs
  <2>2. ASSUME NEW r \in 1..used, InterruptDone(r) \/ SessionStored(r) \/ ResumedDone(r)
        PROVE  MirrorInv'
    BY <1>1, <2>2, InterruptDoneLogs, SessionStoredLogs, ResumedDoneLogs
  <2> QED  BY <2>1, <2>2 DEF WriteStep
<1> QED  BY <1>1, <1>2, <1>3, <1>4, RunLogs, AgentLogs, MessageLogs, ClientLogs DEF Next, Outside

\* A chat with nothing in its queue says what its log says.
LEMMA NothingWaits == ASSUME writes = <<>> PROVE AllWritten = fold /\ QueueFits
  BY WrittenIs, WrittenNothing DEF QueueFits

\* A chat that starts, and one that was loaded.
LEMMA InitLogs == Init => LogInv
<1> SUFFICES ASSUME Init PROVE MirrorInv
  BY DEF LogInv
<1>1. writes = <<>> /\ end.st = "none" /\ Len(writes) = 0 /\ 1..0 = {}
  BY DEF Init, InitCommon, NoEnd
<1>2. AllWritten = fold /\ QueueFits
  BY <1>1, NothingWaits
<1>3. CallsFit
  BY <1>1 DEF CallsFit
<1>4. CASE \E t \in Texts : InitStarted(t)
  <2> PICK t \in Texts : InitStarted(t)
    BY <1>4
  <2> PICK x : x = [NewRun EXCEPT !.pc = "init", !.proc = "alive", !.idle = "on"]
    OBVIOUS
  <2>1. /\ x.pc = "init" /\ ~x.quiet /\ x.turning /\ ~x.reaches /\ ~x.pickRelaunch /\ x.held = <<>>
        /\ x.open = {} /\ x.job = FALSE /\ x.own = FALSE /\ x.marker = "off" /\ x.stopper = "off"
        /\ x.reopened = "none"
    BY DEF NewRun
  <2>2. run = [r \in Runs |-> IF r = 1 THEN x ELSE NewRun] /\ used = 1 /\ cur = 1
    BY DEF InitStarted
  <2>3. 1 \in Runs /\ 1 # NoRun /\ 1..used = {1}
    BY <2>2, RunnerAssumption DEF Runs, NoRun
  <2>4. run[1] = x /\ \A r \in Runs : r # 1 => run[r] = NewRun
    BY <2>2, <2>3
  <2>5. fold.turn /\ fold.open = {} /\ fold.job = FALSE /\ fold.own = FALSE
    <3>1. ChatStart \in Fold
      BY DEF ChatStart, Fold, Stops
    <3>2. fold = FoldChat(ChatStart, UserEvent(t))
      BY DEF InitStarted
    <3>3. fold = [ChatStart EXCEPT !.turn = TRUE, !.job = FALSE, !.own = FALSE, !.stopped = "none"]
      BY <3>1, <3>2, EventSays
    <3> QED  BY <3>3 DEF ChatStart
  <2>6. Mutes
    BY <2>1, <2>2, <2>3, <2>4 DEF Mutes
  <2>7. LogFits
    <3>1. Shape(x)
      BY <2>1 DEF Shape, InTurn, Before
    <3>2. Mirrors(x, fold) /\ StartShows(x, fold, msg) /\ NoBackground(x)
      BY <2>1, <2>5 DEF Mirrors, StartShows, NoBackground
    <3> QED  BY <1>2, <2>2, <2>3, <2>4, <3>1, <3>2 DEF LogFits, LogOf
  <2>8. HeldsFit
    BY <1>1, <2>1, <2>3, <2>4 DEF HeldsFit
  <2>9. UsersFit
    BY <1>1, <2>1, <2>2, <2>4 DEF UsersFit
  <2>10. NoFaults
    <3>1. NewRun.pc # "halted"
      BY DEF NewRun
    <3>2. \A u \in Texts : msg[u].st # "halt"
      BY DEF InitStarted
    <3> QED  BY <1>1, <2>1, <2>4, <3>1, <3>2 DEF NoFaults
  <2> QED  BY <1>2, <1>3, <2>6, <2>7, <2>8, <2>9, <2>10 DEF MirrorInv
<1>5. ASSUME NEW session, NEW answered, NEW stopped, InitLoaded(session, answered, stopped)
      PROVE  MirrorInv
  <2>1. used = 0 /\ cur = NoRun /\ run = [r \in Runs |-> NewRun]
    BY <1>5 DEF InitLoaded
  <2>2. Mutes /\ HeldsFit /\ UsersFit
    BY <1>1, <2>1 DEF Mutes, HeldsFit, UsersFit
  <2>3. LogFits
    <3>1. fold = [ChatStart EXCEPT !.stopped = stopped]
      BY <1>5 DEF InitLoaded, NothingRuns
    <3>2. ~AgentActive(fold)
      BY <3>1 DEF ChatStart, AgentActive, TurnRuns
    <3> QED  BY <1>2, <2>1, <3>2 DEF LogFits
  <2>4. NoFaults
    <3>1. \A r \in Runs : run[r].pc # "halted"
      BY <2>1 DEF NewRun
    <3>2. \A u \in Texts : msg[u].st # "halt"
      BY <1>5 DEF InitLoaded
    <3> QED  BY <1>1, <3>1, <3>2 DEF NoFaults
  <2> QED  BY <1>2, <1>3, <2>2, <2>3, <2>4 DEF MirrorInv
<1> QED  BY <1>4, <1>5 DEF Init

-----------------------------------------------------------------------------
(* The theorems. *)

\* In every reachable state, as long as no write of the log failed: what the current run has in
\* mind is what the log says once every write that was called is done, each write of the queue
\* fits the state that it meets, each message that is being written has one call, and every run
\* but the current one writes nothing any more.
THEOREM LogHolds == Spec => []LogInv
<1>1. TypeInv /\ TypeInv' /\ StartInv /\ PlaceInv /\ LogInv /\ [Next]_vars => LogInv'
  BY NextLogs
<1> QED  BY <1>1, InitLogs, TypesHold, StartsWait, PlacesHold, PTL DEF Spec

\* In every reachable state, a chat with no run shows no agent at work once its writes are done:
\* no failure, exit, stop, end or restart leaves a turn in the log that nobody ends.
THEOREM NoOrphanTurnHolds == Spec => []NoOrphanTurn
<1>1. LogInv => NoOrphanTurn
  BY DEF LogInv, MirrorInv, LogFits, NoOrphanTurn
<1> QED  BY <1>1, LogHolds, PTL

\* In every reachable state, the open requests, the background and the turn that a run keeps for
\* itself are what the log says once its writes are done.
THEOREM RunMirrorsLogHolds == Spec => []RunMirrorsLog
<1>1. LogInv => RunMirrorsLog
  BY DEF LogInv, MirrorInv, LogFits, LogOf, Mirrors, InTurn, RunMirrorsLog
<1> QED  BY <1>1, LogHolds, PTL

\* Each event fits the log that it is written to: no turn ends twice, no request is resolved or
\* opened twice, and no background value is written again.
THEOREM EventsFitHolds == Spec => EventsFit
<1>1. TypeInv /\ LogInv /\ [Next]_vars =>
        [writes # <<>> /\ writes' = Tail(writes) /\ ~faulted' =>
           LET e == Head(writes).ev IN
           /\ e.kind \in {"turn-end", "turn-cancelled"} => fold.turn
           /\ e.kind = "resolved" => e.reqs \subseteq fold.open
           /\ e.kind = "ask" => e.reqs \cap fold.open = {}
           /\ e.kind = "background" => <<e.job, e.own>> # <<fold.job, fold.own>>]_vars
  <2> SUFFICES ASSUME TypeInv, LogInv, [Next]_vars, writes # <<>>, ~faulted'
               PROVE  EventFits(fold, Head(writes).ev)
    BY DEF EventFits
  <2>1. Fitting(fold, writes)
    BY NextOnward DEF Onward, LogInv, MirrorInv, QueueFits
  <2> QED  BY <2>1, LogTyped, WrittenTail
<1> QED  BY <1>1, LogHolds, TypesHold, PTL DEF Spec, EventsFit

\* In every reachable state, a closed chat has no run and no process that is alive, and while the
\* end of a chat goes on it gets no other run.
THEOREM EndsHold == Spec => []EndInv
<1>1. TypeInv /\ TypeInv' /\ StartInv /\ EndInv /\ [Next]_vars => EndInv'
  BY NextEnds
<1> QED  BY <1>1, InitEnds, TypesHold, StartsWait, PTL DEF Spec

\* Once `close` was called and its writes are done, the chat shows no agent at work and every
\* process is ending.
THEOREM ClosedIsAtRestHolds == Spec => []ClosedIsAtRest
<1>1. LogInv /\ EndInv => ClosedIsAtRest
  BY NothingWaits DEF LogInv, MirrorInv, LogFits, EndInv, ClosedRests, ClosedIsAtRest
<1> QED  BY <1>1, LogHolds, EndsHold, PTL

\* When `end` resolves, every process of the chat has ended, it has no run, and its log shows no
\* agent at work.
THEOREM EndMeansEndedHolds == Spec => EndMeansEnded
<1>1. TypeInv /\ StartInv /\ LogInv /\ EndInv /\ [Next]_vars =>
        [end.st = "ends" /\ end'.st = "none" /\ ~stopping =>
           /\ \A r \in Runs : run[r].proc \in {"none", "ended"}
           /\ cur = NoRun
           /\ ~faulted => ~AgentActive(fold)]_vars
  <2> SUFFICES ASSUME TypeInv, StartInv, LogInv, EndInv, [Next]_vars,
                      end.st = "ends", end'.st = "none", ~stopping
               PROVE  /\ \A r \in Runs : run[r].proc \in {"none", "ended"}
                      /\ cur = NoRun
                      /\ ~faulted => ~AgentActive(fold)
    OBVIOUS
  <2>1. EndResolves
    BY NextOnward
       DEF Onward, EndRefused, EndFails, EndWaited, EndCancels, EndAtOnce, EndWithNoRun
  <2>2. EndsResolved(ends) /\ writes = <<>>
    BY <2>1 DEF EndResolves
  <2>3. cur = NoRun
    BY DEF EndInv, EndHasItsRun
  <2>4. ASSUME NEW r \in Runs PROVE run[r].proc \in {"none", "ended"}
    <3>1. run[r].proc \in Processes /\ r # NoRun
      BY DEF TypeInv, TypeOK, RunRecord, Runs, NoRun
    <3>2. run[r].proc \in Live => r = ends
      BY DEF StartInv, LiveIsLast
    <3> QED  BY <2>2, <3>1, <3>2 DEF EndsResolved, Processes, Live
  <2> QED  BY <2>2, <2>3, <2>4, NothingWaits DEF LogInv, MirrorInv, LogFits
<1> QED  BY <1>1, LogHolds, EndsHold, TypesHold, StartsWait, PTL DEF Spec, EndMeansEnded

-----------------------------------------------------------------------------
(* The line of the runs. *)

Waits(r) == run[r].pc = "reopen"
Holder(r) == r \in 1..used /\ ~Waits(r) /\ \A s \in 1..used : r < s => Waits(s)

\* A run whose process is over or never was, and one that does nothing on its own.
Dead(x) == x.proc \in {"none", "ended"}
Off(x) == x.quiet \/ ~x.turning

LineInv ==
  /\ last = used
  /\ cur # NoRun => cur = last
  /\ end.st = "turn" => end.run = last
  /\ \A r \in 1..used : run[r].prev = r - 1
  /\ \A r \in 1..used : Waits(r) => run[r].awaits = ends /\ run[r].reopened = "wait"
  /\ \A r, s \in 1..used : r < s /\ Waits(r) => Waits(s)
  /\ \A r, s \in 1..used : r < s /\ ~Waits(s) => Dead(run[r])
  /\ \A r \in 1..used : r # cur => Off(run[r])

-----------------------------------------------------------------------------
(* The record of a run. *)

\* The places before the session, and before its first prompt or the end of a start of a pick.
BeforeSession == {"reopen", "interrupt", "hold", "launch", "init", "open", "create"}
Opening == BeforeSession \union {"store", "options", "pick"}
Talking == {"prompt", "check", "over"}

Form(x) ==
  /\ x.steering # {} => Connected(x) /\ x.turning /\ x.pc \in Talking
  /\ x.injected \subseteq x.steering
  /\ x.created => x.pc \notin BeforeSession
  /\ x.turning /\ x.reaches /\ ~x.pickRelaunch => x.pc \in Talking
  /\ x.pc = "held" => ~x.pickRelaunch
  /\ x.session \/ x.reaches => x.pc \notin Opening
FormInv == \A r \in 1..used : Form(run[r])

\* A start in a new session, from its request to its first prompt.
Anew(x) ==
  \/ x.pc = "create"
  \/ x.created /\ x.pc \in {"store", "options", "pick", "resumed", "halted", "held"}

\* A start that the agent has not answered yet.
Silences == {"hold", "launch", "init", "open", "create", "store"}

\* A run of a chat whose session was never stored.
Unstored(x) ==
  /\ x.pc \in {"reopen", "interrupt", "hold", "launch", "init", "create", "store", "over"}
  /\ x.pc = "store" => x.created
  /\ x.turning /\ ~x.reaches /\ ~x.session /\ x.steering = {}

-----------------------------------------------------------------------------
(* Steps that move no text. *)

PlaceGoes(x, y) ==
  /\ y.pc = "reopen" <=> x.pc = "reopen"
  /\ y.pc = "interrupt" => x.pc = "interrupt"
  /\ y.pc = "create" => x.pc = "create"
  /\ y.pc = "store" => x.pc = "store"
  /\ y.pc \in Silences => x.pc \in Silences \union {"interrupt"}
  /\ Form(x) /\ Anew(y) => Anew(x) /\ (x.pickRelaunch /\ x.reaches => y.pickRelaunch /\ y.reaches)

\* A step of a run that leaves its texts, and goes on in its start or in its turn.
Glides(x, y) ==
  /\ y.unsent = x.unsent /\ y.steering = x.steering /\ y.injected = x.injected
  /\ y.created = x.created /\ y.earlyCancels = x.earlyCancels
  /\ y.prev = x.prev /\ y.awaits = x.awaits /\ (y.pc = "reopen" => y.reopened = x.reopened)
  /\ (x.quiet => y.quiet) /\ (y.turning => x.turning)
  /\ (Connected(y) <=> Connected(x)) /\ (Dead(x) => Dead(y))
  /\ PlaceGoes(x, y)
  /\ Form(x) => Form(y)
  /\ Unstored(x) => Unstored(y)

\* A step that also leaves its place.
Steady(x, y) ==
  /\ y.unsent = x.unsent /\ y.steering = x.steering /\ y.injected = x.injected
  /\ y.created = x.created /\ y.earlyCancels = x.earlyCancels
  /\ y.prev = x.prev /\ y.awaits = x.awaits /\ y.reopened = x.reopened
  /\ y.pc = x.pc /\ y.turning = x.turning /\ y.reaches = x.reaches
  /\ y.pickRelaunch = x.pickRelaunch /\ y.session = x.session
  /\ x.quiet => y.quiet
  /\ (Connected(y) <=> Connected(x)) /\ (Dead(x) => Dead(y))

LEMMA SameSteady == ASSUME NEW x PROVE Steady(x, x)
  BY DEF Steady

LEMMA SteadyOn ==
  ASSUME NEW x, NEW y, NEW z, Steady(x, y), Steady(y, z) PROVE Steady(x, z)
  BY DEF Steady

LEMMA SteadyGlides ==
  ASSUME NEW x, NEW y, Steady(x, y) PROVE Glides(x, y)
<1>1. Form(x) => Form(y)
  BY DEF Steady, Form
<1>2. PlaceGoes(x, y)
  BY DEF Steady, PlaceGoes, Anew
<1> QED  BY <1>1, <1>2 DEF Steady, Glides, Unstored

LEMMA SameGlides == ASSUME NEW x PROVE Glides(x, x)
  BY SameSteady, SteadyGlides

LEMMA GlidesOn ==
  ASSUME NEW x, NEW y, NEW z, Steady(x, y), Glides(y, z) PROVE Glides(x, z)
<1>1. Form(x) => Form(y)
  BY DEF Steady, Form
<1>2. PlaceGoes(x, z)
  <2>1. Anew(x) <=> Anew(y)
    BY DEF Steady, Anew
  <2>2. x.pc = y.pc /\ x.pickRelaunch = y.pickRelaunch /\ x.reaches = y.reaches
    BY DEF Steady
  <2> QED  BY <1>1, <2>1, <2>2 DEF Glides, PlaceGoes
<1>3. Unstored(x) <=> Unstored(y)
  BY DEF Steady, Unstored
<1> QED  BY <1>1, <1>2, <1>3 DEF Steady, Glides

LEMMA GlidesThen ==
  ASSUME NEW x, NEW y, NEW z, Glides(x, y), Steady(y, z) PROVE Glides(x, z)
<1>1. Form(y) => Form(z)
  BY DEF Steady, Form
<1>2. PlaceGoes(x, z)
  <2>1. Anew(z) <=> Anew(y)
    BY DEF Steady, Anew
  <2>2. z.pc = y.pc /\ z.pickRelaunch = y.pickRelaunch /\ z.reaches = y.reaches
    BY DEF Steady
  <2> QED  BY <2>1, <2>2 DEF Glides, PlaceGoes
<1>3. Unstored(z) <=> Unstored(y)
  BY DEF Steady, Unstored
<1> QED  BY <1>1, <1>2, <1>3 DEF Steady, Glides

\* The parts of a step that leave the texts and the place.
LEMMA TouchSteady == ASSUME NEW x \in RunRecord PROVE Steady(x, Touch(x))
  BY DEF Steady, Touch, Connected, Dead, RunRecord

LEMMA SilenceSteady == ASSUME NEW x \in RunRecord PROVE Steady(x, Silence(x))
  BY DEF Steady, Silence, Connected, Dead, RunRecord

LEMMA EndProcessSteady == ASSUME NEW x \in RunRecord PROVE Steady(x, EndProcess(x))
  BY DEF Steady, EndProcess, Connected, Dead, RunRecord

LEMMA QuitSteady == ASSUME NEW x \in RunRecord PROVE Steady(x, Quit(x))
  BY SilenceSteady, SilenceType, EndProcessSteady, SteadyOn DEF Quit

LEMMA FailSteady == ASSUME NEW x \in RunRecord PROVE Steady(x, Fail(x))
  BY SilenceSteady, SameSteady DEF Fail

LEMMA SetBackgroundSteady ==
  ASSUME NEW x \in RunRecord, NEW job, NEW own PROVE Steady(x, SetBackground(x, job, own))
  BY DEF Steady, SetBackground, Connected, Dead, RunRecord

LEMMA CancelOpenSteady == ASSUME NEW x \in RunRecord PROVE Steady(x, CancelOpen(x))
<1>1. [x EXCEPT !.open = {}] \in RunRecord /\ Steady(x, [x EXCEPT !.open = {}])
  BY DEF Steady, Connected, Dead, RunRecord
<1> QED  BY <1>1, TouchSteady, SteadyOn, SameSteady DEF CancelOpen

LEMMA StaleSteady ==
  ASSUME NEW x \in RunRecord PROVE Steady(x, StaleAll(x)) /\ Steady(x, StaleMarker(x))
<1>1. \A m, s : Steady(x, [x EXCEPT !.marker = m, !.stopper = s])
  BY DEF Steady, Connected, Dead, RunRecord
<1>2. \A m : Steady(x, [x EXCEPT !.marker = m])
  BY DEF Steady, Connected, Dead, RunRecord
<1> QED  BY <1>1, <1>2 DEF StaleAll, StaleMarker

\* A change of the place.
PlaceLeads(x, p) ==
  \/ p = x.pc
  \/ p = "over" /\ x.pc # "reopen"
  \/ x.pc = "interrupt" /\ p \in {"hold", "launch"}
  \/ x.pc = "hold" /\ p = "launch"
  \/ x.pc \in {"open", "pick"} /\ p = "options"
  \/ x.pc = "options" /\ p = "pick"
  \/ x.pc = "prompt" /\ p = "check"
  \/ x.pc = "resumed" /\ p = "halted"
  \/ x.pc \in {"resumed", "halted"} /\ p = "held" /\ ~x.pickRelaunch

LEMMA PlaceGlides ==
  ASSUME NEW x \in RunRecord, NEW p \in Places, PlaceLeads(x, p) PROVE Glides(x, [x EXCEPT !.pc = p])
<1> DEFINE y == [x EXCEPT !.pc = p]
<1>1. /\ y.pc = p /\ y.unsent = x.unsent /\ y.steering = x.steering /\ y.injected = x.injected
      /\ y.created = x.created /\ y.earlyCancels = x.earlyCancels
      /\ y.prev = x.prev /\ y.awaits = x.awaits /\ y.quiet = x.quiet /\ y.turning = x.turning
      /\ y.reaches = x.reaches /\ y.pickRelaunch = x.pickRelaunch /\ y.session = x.session
      /\ y.proc = x.proc /\ y.reopened = x.reopened
  BY DEF RunRecord
<1> HIDE DEF y
<1>2. Connected(y) <=> Connected(x)
  BY <1>1 DEF Connected
<1>3. Form(x) => Form(y)
  BY <1>1, <1>2 DEF Form, PlaceLeads, BeforeSession, Opening, Talking
<1>4. PlaceGoes(x, y)
  <2>1. Form(x) /\ Anew(y) => Anew(x) /\ (x.pickRelaunch /\ x.reaches => y.pickRelaunch /\ y.reaches)
    BY <1>1 DEF PlaceLeads, Anew, Form, BeforeSession
  <2>2. y.pc \in Silences => x.pc \in Silences \union {"interrupt"}
    BY <1>1 DEF PlaceLeads, Silences
  <2>3. /\ y.pc = "reopen" <=> x.pc = "reopen"
        /\ y.pc = "interrupt" => x.pc = "interrupt"
        /\ y.pc = "create" => x.pc = "create"
        /\ y.pc = "store" => x.pc = "store"
    BY <1>1 DEF PlaceLeads
  <2> QED  BY <2>1, <2>2, <2>3 DEF PlaceGoes
<1>5. Unstored(x) => Unstored(y)
  BY <1>1 DEF PlaceLeads, Unstored
<1>6. Glides(x, y)
  BY <1>1, <1>2, <1>3, <1>4, <1>5 DEF Glides, Dead
<1> QED  BY <1>6 DEF y

\* A place in which the holder says what counts as an answer of the agent.
MaySpeak ==
  /\ stored
  /\ \A r \in 1..used :
       Holder(r) => run[r].pc \notin Silences \union {"interrupt"} /\ ~Anew(run[r])

\* The writes of a step that moves no text.
Addable ==
  {w \in Write : /\ w.ev.kind # "user" /\ w.cont \in Conts \ {"call", "hold"}
                 /\ w.cont = "end" => w.by = last
                 /\ IsAnswer(w.ev) => MaySpeak}
Adds == \E s \in Seq(Addable) : writes' = writes \o s

\* A message that is refused, or starts over.
MsgRests(m, n) ==
  \/ m.st \in {"new", "again", "wait", "halt"} /\ n.st = "refused" /\ n.restarts = m.restarts
  \/ m.st = "wait" /\ n.st = "again" /\ n.restarts
MsgCalm == \A t \in Texts : msg'[t] = msg[t] \/ MsgRests(msg[t], msg'[t])

\* What a step leaves of the line, of the call of `end` and of the runs.
LineKept ==
  /\ used' = used /\ last' = last /\ ends' = ends
  /\ cur' \in {cur, NoRun} /\ (cur' # cur => Off(run'[cur]))
EndKept ==
  /\ end'.st = "turn" => end' = end
  /\ end.st = "turn" => end' = end \/ cur' # end.run \/ stopping
RunsGlide == \A r \in 1..used : Glides(run[r], run'[r])
TextsKept ==
  /\ answers' = answers /\ stored' = stored
  /\ got' = got /\ missed' = missed /\ cancelled' = cancelled /\ unsure' = unsure

Calm == LineKept /\ EndKept /\ RunsGlide /\ TextsKept /\ MsgCalm /\ Adds

-----------------------------------------------------------------------------
(* The parts of such a step. *)

LEMMA AddsNone == ASSUME TypeInv, writes' = writes PROVE Adds
<1>1. writes \in Seq(Write) /\ <<>> \in Seq(Addable)
  BY DEF TypeInv, TypeOK
<1>2. writes \o <<>> = writes
  BY <1>1
<1> QED  BY <1>1, <1>2 DEF Adds

LEMMA AddsOne ==
  ASSUME TypeInv, NEW w \in Addable, writes' = Append(writes, w) PROVE Adds
<1>1. writes \in Seq(Write) /\ w \in Write
  BY DEF TypeInv, TypeOK, Addable
<1>2. writes \o <<w>> = Append(writes, w) /\ <<w>> \in Seq(Addable)
  BY <1>1
<1> QED  BY <1>2 DEF Adds

LEMMA AddsTwo ==
  ASSUME TypeInv, NEW s \in Seq(Addable), NEW u \in Seq(Addable), writes' = writes \o s \o u
  PROVE  Adds
<1>1. writes \in Seq(Write)
  BY DEF TypeInv, TypeOK
<1>2. s \o u \in Seq(Addable) /\ s \in Seq(Write) /\ u \in Seq(Write)
  BY DEF Addable
<1>3. writes \o s \o u = writes \o (s \o u)
  BY <1>1, <1>2, ConcatAssociative
<1> QED  BY <1>2, <1>3 DEF Adds

\* A step that gives one run a new record.
LEMMA GlideOne ==
  ASSUME TypeInv, NEW r, NEW y, run' = [run EXCEPT ![r] = y], r \in 1..used => Glides(run[r], y)
  PROVE  RunsGlide
<1> SUFFICES ASSUME NEW s \in 1..used PROVE Glides(run[s], run'[s])
  BY DEF RunsGlide
<1>1. s \in Runs
  BY Registry DEF TypeInv
<1>2. CASE s = r
  BY <1>1, <1>2 DEF TypeInv, TypeOK
<1>3. CASE s # r
  BY <1>1, <1>3, SameGlides DEF TypeInv, TypeOK
<1> QED  BY <1>2, <1>3

LEMMA GlideNone == ASSUME run' = run PROVE RunsGlide
  BY SameGlides DEF RunsGlide

LEMMA MsgSame == ASSUME msg' = msg PROVE MsgCalm
  BY DEF MsgCalm

LEMMA MsgOne ==
  ASSUME TypeInv, NEW t \in Texts, NEW n, msg' = [msg EXCEPT ![t] = n], MsgRests(msg[t], n) PROVE MsgCalm
  BY DEF MsgCalm, TypeInv, TypeOK

\* The writes of a run that say nothing of the agent.
SilentEvents == {e \in Event : e.kind \notin {"user", "turn-end", "ask", "work"}}

LEMMA SilentAdds ==
  ASSUME NEW e \in SilentEvents, NEW r \in 0..MaxRuns,
         NEW cont \in Conts \ {"call", "hold"}, cont = "end" => r = last
  PROVE  WThen(e, r, cont) \in Addable /\ W(e, r) \in Addable
<1>1. e \in Event /\ e.kind \notin {"user", "turn-end", "ask", "work"}
  BY DEF SilentEvents
<1>2. WThen(e, r, cont) \in Write /\ W(e, r) \in Write
  BY <1>1, WriteType DEF Conts, W, WThen
<1> QED  BY <1>1, <1>2 DEF Addable, Conts, W, WThen, IsAnswer

LEMMA SpokenAdds ==
  ASSUME NEW e \in Event, e.kind # "user", MaySpeak, NEW r \in 0..MaxRuns PROVE W(e, r) \in Addable
<1>1. W(e, r) \in Write
  BY WriteType DEF Conts, W, WThen
<1> QED  BY <1>1 DEF Addable, Conts, W

LEMMA SilentKinds ==
  /\ \A k \in EventKinds \ {"user", "turn-end", "ask", "work"} : Plain(k) \in SilentEvents
  /\ \A qs \in SUBSET Requests : ResolvedEvent(qs) \in SilentEvents
  /\ \A job, own \in BOOLEAN : BackgroundEvent(job, own) \in SilentEvents
<1>1. \A k \in EventKinds : Plain(k).kind = k
  BY DEF Plain
<1>2. \A qs : ResolvedEvent(qs).kind = "resolved"
  BY DEF ResolvedEvent, Plain
<1>3. \A job, own : BackgroundEvent(job, own).kind = "background"
  BY DEF BackgroundEvent, Plain
<1> QED  BY <1>1, <1>2, <1>3, EventType DEF SilentEvents

LEMMA FailAdds ==
  ASSUME NEW x \in RunRecord, NEW r \in 0..MaxRuns PROVE FailWrites(x, r) \in Seq(Addable)
<1>1. WThen(Plain("failed"), r, "kill") \in Addable
  BY SilentAdds, SilentKinds DEF EventKinds, Conts
<1> QED  BY <1>1 DEF FailWrites

LEMMA CancelOpenAdds ==
  ASSUME NEW x \in RunRecord, NEW r \in 0..MaxRuns, NEW cont \in {"none", "end"}, cont = "end" => r = last
  PROVE  CancelOpenWrites(x, r, cont) \in Seq(Addable)
<1>1. x.open \in SUBSET Requests
  BY DEF RunRecord
<1>2. WThen(ResolvedEvent(x.open), r, cont) \in Addable
  BY <1>1, SilentAdds, SilentKinds DEF Conts
<1> QED  BY <1>2 DEF CancelOpenWrites

LEMMA BackgroundAdds ==
  ASSUME NEW x \in RunRecord, NEW r \in 0..MaxRuns, NEW job \in BOOLEAN, NEW own \in BOOLEAN
  PROVE  SetBackgroundWrites(x, r, job, own) \in Seq(Addable)
<1>1. W(BackgroundEvent(job, own), r) \in Addable
  <2>1. BackgroundEvent(job, own) \in SilentEvents
    BY SilentKinds
  <2> QED  BY <2>1, SilentAdds DEF Conts
<1> QED  BY <1>1 DEF SetBackgroundWrites

LEMMA EndTurnAdds ==
  ASSUME NEW x \in RunRecord, NEW r \in 0..MaxRuns, x.quiet \/ x.turnCancelled \/ MaySpeak
  PROVE  EndTurnWrites(x, r) \in Seq(Addable)
<1>1. CancelOpenWrites(x, r, "none") \in Seq(Addable)
  BY CancelOpenAdds
<1>2. ASSUME ~x.quiet
      PROVE  W(Plain(IF x.turnCancelled THEN "turn-cancelled" ELSE "turn-end"), r) \in Addable
  <2>1. CASE x.turnCancelled
    <3>1. Plain("turn-cancelled") \in SilentEvents
      BY SilentKinds DEF EventKinds
    <3> QED  BY <2>1, <3>1, SilentAdds DEF Conts
  <2>2. CASE ~x.turnCancelled
    <3>1. Plain("turn-end") \in Event /\ Plain("turn-end").kind = "turn-end"
      BY EventType DEF EventKinds, Plain
    <3> QED  BY <1>2, <2>2, <3>1, SpokenAdds
  <2> QED  BY <2>1, <2>2
<1> QED  BY <1>1, <1>2 DEF EndTurnWrites

LEMMA WorkAdds ==
  ASSUME NEW r \in 0..MaxRuns, MaySpeak PROVE WorkWrites(r) \in Seq(Addable)
<1>1. Plain("work") \in Event /\ Plain("work").kind = "work"
  BY EventType DEF EventKinds, Plain
<1>2. W(Plain("work"), r) \in Addable
  BY <1>1, SpokenAdds
<1> QED  BY <1>2 DEF WorkWrites

-----------------------------------------------------------------------------
(* The invariant. *)

\* Before the session of a chat is stored, its agent got no text and said nothing.
Unspoken == \A i \in 1..Len(writes) : ~IsAnswer(writes[i].ev)
StoredInv ==
  ~stored =>
    /\ ~answers.answered /\ cancelled = {}
    /\ \A t \in Texts : got[t] = 0
    /\ \A r \in 1..used : Unstored(run[r])
    /\ Unspoken

\* A message that is not written yet: its text is nowhere but in its write.
Fresh(t) == msg[t].st \in {"new", "again", "wait", "write"}
Has(t) ==
  \/ got[t] # 0 \/ t \in ToSet(answers.unanswered)
  \/ \E r \in 1..used : t \in ToSet(run[r].unsent) \union run[r].steering
FreshInv == \A t \in Texts : Fresh(t) => ~Has(t)

\* Each message has one write, and is not in the log before.
NoDup(s) == \A i, j \in 1..Len(s) : i # j => s[i] # s[j]
UserFits(w) ==
  IF IsCall(w)
  THEN /\ w.ev.kind = "user" /\ w.by \in 1..used
       /\ Len(w.ev.text) = 1 /\ w.ev.text[1] \notin ToSet(answers.unanswered)
       /\ msg[w.ev.text[1]].st = IF w.cont = "call" THEN "call" ELSE "write"
  ELSE w.ev.kind # "user"
CallsOnce ==
  /\ \A i \in 1..Len(writes) : UserFits(writes[i])
  /\ \A i, j \in 1..Len(writes) :
       i # j /\ IsCall(writes[i]) /\ IsCall(writes[j]) => writes[i].ev.text[1] # writes[j].ev.text[1]
  /\ NoDup(answers.unanswered)
UnsentOnce == \A r \in 1..used : NoDup(run[r].unsent)
OnceInv == CallsOnce /\ UnsentOnce

\* What the agent still has to get, it has not got.
Ungot(t) == t \in unsure \/ got[t] = 0
SteersUngot == \A r \in 1..used : \A t \in run[r].steering \ run[r].injected : Ungot(t)
HolderUngot ==
  \A r \in 1..used : Holder(r) => \A t \in ToSet(run[r].unsent) \ run[r].injected : Ungot(t)
AnewUngot == \A r \in 1..used : Holder(r) /\ Anew(run[r]) => \A t \in Texts : got[t] = 0
NoCalls == \A i \in 1..Len(writes) : ~IsCall(writes[i])
NoneGot ==
  (\A r \in 1..used : Waits(r)) => answers.unanswered = <<>> /\ NoCalls /\ \A t \in Texts : got[t] = 0
GotInv == NoTextTwice /\ SteersUngot /\ HolderUngot /\ AnewUngot /\ NoneGot

TextInv == LineInv /\ FormInv /\ StoredInv /\ FreshInv /\ OnceInv /\ GotInv

\* The invariants of the runner that the texts rest on.
Base == TypeInv /\ StartInv /\ PlaceInv /\ EndInv

-----------------------------------------------------------------------------
(* The holder. *)

LEMMA HolderOne ==
  ASSUME TypeInv, NEW q, NEW r, Holder(q), Holder(r) PROVE q = r
<1>1. q \in Nat /\ r \in Nat
  BY Registry DEF Holder, TypeInv
<1>2. q < r \/ r < q \/ q = r
  BY <1>1
<1> QED  BY <1>2 DEF Holder

LEMMA CurIsHolder ==
  ASSUME TypeInv, LineInv, cur # NoRun, ~Waits(cur) PROVE Holder(cur)
<1>1. cur \in 1..used /\ cur = used /\ used \in Nat
  BY Registry DEF LineInv, TypeInv
<1>2. \A s \in 1..used : ~(cur < s)
  BY <1>1
<1> QED  BY <1>1, <1>2 DEF Holder

LEMMA LiveHolds ==
  ASSUME Base, LineInv, NEW r \in 1..used, ~Dead(run[r]) PROVE Holder(r)
<1>1. ~Waits(r)
  <2>1. r \in Runs
    BY Registry DEF TypeInv, Base
  <2> QED  BY <2>1 DEF Base, StartInv, Unspawned, Early, Waits, Dead
<1>2. \A s \in 1..used : r < s => Waits(s)
  BY DEF LineInv
<1> QED  BY <1>1, <1>2 DEF Holder

\* A run in a turn that is not quiet is the holder.
LEMMA TurnIsCur ==
  ASSUME TypeInv, LineInv, NEW r \in 1..used, ~Off(run[r]) PROVE cur = r /\ cur # NoRun
<1>1. r \in 1..used /\ cur = r
  BY DEF LineInv
<1> QED  BY <1>1, Registry DEF TypeInv, NoRun

LEMMA SpeaksMay ==
  ASSUME Base, TextInv, NEW r \in 1..used, Speaks(r) PROVE MaySpeak
<1>1. run[r].session /\ Connected(run[r]) /\ (run[r].created => \E t \in Texts : got[t] > 0)
  BY DEF Speaks, Hears
<1>2. Holder(r)
  BY <1>1, LiveHolds DEF TextInv, Connected, Dead
<1>3. stored
  BY <1>1 DEF TextInv, StoredInv, Unstored
<1>4. run[r].pc \notin Opening
  BY <1>1 DEF TextInv, FormInv, Form
<1>5. ~Anew(run[r])
  <2>1. run[r].pc # "create"
    BY <1>4 DEF Opening, BeforeSession
  <2>2. CASE run[r].created
    <3>1. PICK t \in Texts : got[t] > 0
      BY <1>1, <2>2
    <3>2. got[t] # 0
      BY <3>1
    <3> QED  BY <1>2, <3>2 DEF TextInv, GotInv, AnewUngot
  <2> QED  BY <2>1, <2>2 DEF Anew
<1>6. run[r].pc \notin Silences \union {"interrupt"}
  BY <1>4 DEF Opening, BeforeSession, Silences
<1> QED  BY <1>2, <1>3, <1>5, <1>6, HolderOne DEF MaySpeak, Base

\* So does the end of a prompt.
LEMMA CheckMay ==
  ASSUME Base, TextInv, NEW r \in 1..used, run[r].pc = "check", ~run[r].quiet PROVE MaySpeak
<1>1. run[r].turning
  BY DEF Base, PlaceInv, TurnsFit, TurnFits
<1>2. cur = r /\ cur # NoRun
  BY <1>1, TurnIsCur DEF TextInv, Off, Base
<1>3. Holder(r)
  <2>1. TypeInv /\ LineInv /\ ~Waits(cur)
    BY <1>2 DEF TextInv, Base, Waits
  <2>2. Holder(cur)
    BY <1>2, <2>1, CurIsHolder
  <2> QED  BY <1>2, <2>2
<1>4. stored
  BY DEF TextInv, StoredInv, Unstored
<1>5. ~Anew(run[r]) /\ run[r].pc \notin Silences \union {"interrupt"}
  BY DEF Anew, Silences
<1> QED  BY <1>3, <1>4, <1>5, HolderOne DEF MaySpeak, Base

-----------------------------------------------------------------------------
(* The steps that move no text. *)

LEMMA CalmIs ==
  ASSUME chat' = chat, table' = table, history' = history, ends' = ends, end' = end,
         cur' \in {cur, NoRun}, cur' # cur => Off(run'[cur]), RunsGlide, MsgCalm, Adds
  PROVE  Calm
  BY DEF Calm, LineKept, EndKept, TextsKept, chat, table, history

\* A step that forgets its run silences it.
LEMMA ForgetOff ==
  ASSUME NEW r, Forget(r), Off(run'[r]) PROVE cur' \in {cur, NoRun} /\ (cur' # cur => Off(run'[cur]))
  BY DEF Forget

LEMMA HoldFailedGlides ==
  ASSUME NEW x \in RunRecord PROVE Glides(x, HoldFailed(x))
<1>1. CASE x.pc = "hold"
  <2>1. Glides(x, [x EXCEPT !.pc = "over"])
    BY <1>1, PlaceGlides DEF PlaceLeads, Places
  <2> QED  BY <1>1, <2>1 DEF HoldFailed
<1>2. CASE x.pc # "hold"
  <2>1. HoldFailed(x) = x
    BY <1>2 DEF HoldFailed, RunRecord
  <2> QED  BY <2>1, SameGlides
<1> QED  BY <1>1, <1>2

LEMMA RefusalCalm ==
  ASSUME TypeInv, NEW t \in Texts,
         RefuseMessage(t) \/ MessageFails(t) \/ \E r \in 1..used : HoldRefused(r, t) \/ HoldAgain(r, t)
  PROVE  Calm
<1>1. writes' = writes /\ chat' = chat /\ table' = table /\ history' = history /\ ends' = ends /\ end' = end
      /\ cur' = cur
  BY DEF RefuseMessage, MessageFails, HoldRefused, HoldAgain, chat, table, history
<1>2. RunsGlide
  <2>1. CASE RefuseMessage(t)
    BY <2>1, GlideNone DEF RefuseMessage
  <2>2. ASSUME NEW r, run' = [run EXCEPT ![r] = HoldFailed(@)] PROVE RunsGlide
    <3>1. r \in 1..used => run[r] \in RunRecord
      BY Registry DEF TypeInv
    <3>2. run' = [run EXCEPT ![r] = HoldFailed(run[r])]
      BY <2>2
    <3> QED  BY <3>1, <3>2, HoldFailedGlides, GlideOne
  <2>3. CASE MessageFails(t)
    BY <2>2, <2>3 DEF MessageFails
  <2>4. CASE \E r \in 1..used : HoldRefused(r, t) \/ HoldAgain(r, t)
    BY <2>2, <2>4 DEF HoldRefused, HoldAgain
  <2> QED  BY <2>1, <2>3, <2>4
<1>3. MsgCalm
  <2>1. msg[t] \in Message
    BY DEF TypeInv, TypeOK
  <2>2. CASE \E r \in 1..used : HoldAgain(r, t)
    <3>1. msg' = [msg EXCEPT ![t] = [msg[t] EXCEPT !.st = "again", !.restarts = TRUE]] /\ msg[t].st = "wait"
      BY <2>2 DEF HoldAgain, TypeInv, TypeOK
    <3>2. MsgRests(msg[t], [msg[t] EXCEPT !.st = "again", !.restarts = TRUE])
      BY <2>1, <3>1 DEF MsgRests, Message
    <3> QED  BY <3>1, <3>2, MsgOne
  <2>3. CASE RefuseMessage(t) \/ MessageFails(t) \/ \E r \in 1..used : HoldRefused(r, t)
    <3>1. msg' = [msg EXCEPT ![t] = [msg[t] EXCEPT !.st = "refused"]] /\ msg[t].st \in {"new", "again", "wait", "halt"}
      BY <2>3 DEF RefuseMessage, MessageFails, HoldRefused, Sent, TypeInv, TypeOK
    <3>2. MsgRests(msg[t], [msg[t] EXCEPT !.st = "refused"])
      BY <2>1, <3>1 DEF MsgRests, Message
    <3> QED  BY <3>1, <3>2, MsgOne
  <2> QED  BY <2>2, <2>3
<1>4. Adds
  BY <1>1, AddsNone
<1> QED  BY <1>1, <1>2, <1>3, <1>4, CalmIs

LEMMA StoppingCalm ==
  ASSUME TypeInv, NEW t \in Texts, NEW r \in 1..used, HoldStopping(r, t) PROVE Calm
<1>1. writes' = writes /\ chat' = chat /\ table' = table /\ history' = history /\ ends' = ends /\ end' = end
  BY DEF HoldStopping, chat, table, history
<1>2. run[r] \in RunRecord /\ r \in Runs
  BY Registry DEF TypeInv
<1>3. msg[t] \in Message /\ run \in [Runs -> RunRecord]
  BY DEF TypeInv, TypeOK
<1>4. MsgCalm
  <2>1. msg' = [msg EXCEPT ![t] = [msg[t] EXCEPT !.st = "refused"]] /\ msg[t].st = "wait"
    BY DEF HoldStopping
  <2>2. MsgRests(msg[t], [msg[t] EXCEPT !.st = "refused"])
    BY <1>3, <2>1 DEF MsgRests, Message
  <2> QED  BY <2>1, <2>2, MsgOne
<1>5. Adds
  BY <1>1, AddsNone
<1>6. CASE ChatBusy(fold)
  <2>1. run' = [run EXCEPT ![r] = HoldFailed(run[r])] /\ cur' = cur
    BY <1>6 DEF HoldStopping
  <2>2. RunsGlide
    BY <1>2, <2>1, HoldFailedGlides, GlideOne
  <2> QED  BY <1>1, <1>4, <1>5, <2>1, <2>2, CalmIs
<1>7. CASE ~ChatBusy(fold)
  <2> DEFINE x == Silence(run[r])
  <2>1. x \in RunRecord /\ Steady(run[r], x) /\ x.quiet
    BY <1>2, SilenceType, SilenceSteady, ZenonT(30) DEF Silence, RunRecord
  <2>2. run' = [run EXCEPT ![r] = HoldFailed(x)] /\ Forget(r)
    BY <1>7 DEF HoldStopping
  <2> HIDE DEF x
  <2>3. Glides(run[r], HoldFailed(x)) /\ HoldFailed(x).quiet
    <3>1. Glides(x, HoldFailed(x))
      BY <2>1, HoldFailedGlides
    <3> QED  BY <2>1, <3>1, GlidesOn DEF Glides
  <2>4. RunsGlide
    BY <2>2, <2>3, GlideOne
  <2>5. Off(run'[r])
    BY <1>2, <1>3, <2>2, <2>3 DEF Off
  <2> QED  BY <1>1, <1>4, <1>5, <2>2, <2>4, <2>5, ForgetOff, CalmIs
<1> QED  BY <1>6, <1>7

LEMMA FailOverGlides ==
  ASSUME NEW x \in RunRecord, x.pc # "reopen"
  PROVE  Glides(x, [Fail(x) EXCEPT !.pc = "over"]) /\ [Fail(x) EXCEPT !.pc = "over"].quiet
<1> DEFINE y == Fail(x)
<1>1. y \in RunRecord /\ Steady(x, y) /\ y.quiet
  <2>1. CASE x.quiet
    BY <2>1, SameSteady DEF Fail
  <2>2. CASE ~x.quiet
    <3>1. Silence(x) \in RunRecord /\ Steady(x, Silence(x))
      BY SilenceType, SilenceSteady
    <3>2. Silence(x).quiet
      BY DEF Silence, RunRecord
    <3> QED  BY <2>2, <3>1, <3>2 DEF Fail
  <2> QED  BY <2>1, <2>2
<1>2. y.pc # "reopen"
  BY <1>1 DEF Steady
<1> HIDE DEF y
<1>3. Glides(y, [y EXCEPT !.pc = "over"])
  BY <1>1, <1>2, PlaceGlides DEF PlaceLeads, Places
<1>4. [y EXCEPT !.pc = "over"].quiet
  BY <1>1 DEF RunRecord
<1>5. Glides(x, [y EXCEPT !.pc = "over"])
  BY <1>1, <1>3, GlidesOn
<1> QED  BY <1>4, <1>5 DEF y

\* A start that fails.
LEMMA FailCalm ==
  ASSUME TypeInv, NEW r \in 1..used,
         LaunchFails(r) \/ AgentFails(r) \/ (SessionLost(r) /\ answers.answered)
  PROVE  Calm
<1>1. chat' = chat /\ table' = table /\ history' = history /\ ends' = ends /\ end' = end /\ msg' = msg
  BY DEF LaunchFails, AgentFails, SessionLost, chat, table, history
<1>2. r \in Runs /\ r \in 0..MaxRuns /\ run[r] \in RunRecord /\ run \in [Runs -> RunRecord]
  BY Registry DEF TypeInv, TypeOK
<1>3. /\ run' = [run EXCEPT ![r] = [Fail(run[r]) EXCEPT !.pc = "over"]]
      /\ writes' = writes \o FailWrites(run[r], r)
      /\ (cur' = cur /\ pick' = pick) \/ Forget(r)
      /\ run[r].pc # "reopen"
  BY DEF LaunchFails, AgentFails, SessionLost, AtAgent
<1>4. Glides(run[r], [Fail(run[r]) EXCEPT !.pc = "over"]) /\ [Fail(run[r]) EXCEPT !.pc = "over"].quiet
  BY <1>2, <1>3, FailOverGlides
<1>5. RunsGlide
  BY <1>3, <1>4, GlideOne
<1>6. Off(run'[r])
  BY <1>2, <1>3, <1>4 DEF Off
<1>7. cur' \in {cur, NoRun} /\ (cur' # cur => Off(run'[cur]))
  BY <1>3, <1>6, ForgetOff
<1>8. Adds
  BY <1>2, <1>3, FailAdds DEF Adds
<1> QED  BY <1>1, <1>5, <1>7, <1>8, MsgSame, CalmIs

\* A step that only moves the place of a run.
LEMMA PlaceCalm ==
  ASSUME TypeInv, NEW r \in 1..used,
         \/ LaunchOver(r) \/ SessionResumed(r) \/ OptionSent(r) \/ OptionAnswered(r) \/ OptionsQuiet(r)
         \/ (StartHalted(r) /\ ~run[r].pickRelaunch)
  PROVE  Calm
<1>1. chat' = chat /\ table' = table /\ history' = history /\ ends' = ends /\ end' = end /\ msg' = msg
      /\ cur' = cur /\ writes' = writes
  BY DEF LaunchOver, SessionResumed, OptionSent, OptionAnswered, OptionsQuiet, StartHalted, chat, table, history
<1>2. run[r] \in RunRecord
  BY Registry DEF TypeInv
<1>3. \E p \in Places : PlaceLeads(run[r], p) /\ run' = [run EXCEPT ![r] = [run[r] EXCEPT !.pc = p]]
  <2>1. {"over", "options", "pick", "held"} \subseteq Places
    BY DEF Places, AtAgent
  <2>2. CASE LaunchOver(r) \/ OptionsQuiet(r)
    BY <2>1, <2>2 DEF LaunchOver, OptionsQuiet, PlaceLeads
  <2>3. CASE SessionResumed(r) \/ OptionAnswered(r)
    BY <2>1, <2>3 DEF SessionResumed, OptionAnswered, PlaceLeads
  <2>4. CASE OptionSent(r)
    BY <2>1, <2>4 DEF OptionSent, PlaceLeads
  <2>5. CASE StartHalted(r) /\ ~run[r].pickRelaunch
    BY <2>1, <2>5 DEF StartHalted, AfterResumed, PlaceLeads
  <2> QED  BY <2>2, <2>3, <2>4, <2>5
<1>4. RunsGlide
  BY <1>2, <1>3, PlaceGlides, GlideOne
<1> QED  BY <1>1, <1>4, AddsNone, MsgSame, CalmIs

\* The end of the start of a pick.
LEMMA PickOverGlides ==
  ASSUME NEW x \in RunRecord, NEW y \in RunRecord, y \in {x, [x EXCEPT !.session = TRUE, !.reaches = TRUE]},
         x.pc \in {"options", "resumed", "halted"}
  PROVE  Glides(x, PickRelaunchOver(y))
<1> DEFINE z == [y EXCEPT !.pickRelaunch = FALSE, !.turning = FALSE, !.pc = "idle"]
<1>0. y \in RunRecord
  <2>1. CASE y = x
    BY <2>1
  <2>2. CASE y = [x EXCEPT !.session = TRUE, !.reaches = TRUE]
    BY <2>2 DEF RunRecord
  <2> QED  BY <2>1, <2>2
<1>1. y.pc = x.pc /\ y.unsent = x.unsent /\ y.steering = x.steering /\ y.injected = x.injected
      /\ y.created = x.created /\ y.earlyCancels = x.earlyCancels
      /\ y.prev = x.prev /\ y.awaits = x.awaits /\ y.quiet = x.quiet /\ y.proc = x.proc
  BY ZenonT(30) DEF RunRecord
<1>2. z \in RunRecord /\ z.pc = "idle" /\ z.unsent = y.unsent /\ z.steering = y.steering /\ z.injected = y.injected
      /\ z.created = y.created /\ z.earlyCancels = y.earlyCancels
      /\ z.prev = y.prev /\ z.awaits = y.awaits /\ z.quiet = y.quiet /\ ~z.turning /\ z.proc = y.proc
  <2>1. "idle" \in Places
    BY DEF Places
  <2>2. z \in RunRecord
    BY <1>0, <2>1, ZenonT(30) DEF RunRecord
  <2>3. z.pc = "idle" /\ z.unsent = y.unsent /\ z.steering = y.steering /\ z.injected = y.injected
        /\ z.created = y.created
    BY <1>0 DEF RunRecord
  <2>4. z.earlyCancels = y.earlyCancels /\ z.prev = y.prev /\ z.awaits = y.awaits /\ z.quiet = y.quiet
        /\ ~z.turning /\ z.proc = y.proc
    BY <1>0 DEF RunRecord
  <2> QED  BY <2>2, <2>3, <2>4
<1>3. Touch(z) = PickRelaunchOver(y)
  BY DEF PickRelaunchOver
<1> HIDE DEF z
<1>4. Form(x) => Form(z)
  BY <1>1, <1>2 DEF Form, Talking, Opening, BeforeSession
<1>5. PlaceGoes(x, z)
  BY <1>1, <1>2 DEF PlaceGoes, Anew, Silences
<1>6. Glides(x, z)
  BY <1>1, <1>2, <1>4, <1>5 DEF Glides, Unstored, Connected, Dead
<1> QED  BY <1>2, <1>3, <1>6, TouchSteady, GlidesThen

LEMMA StartHaltedCalm ==
  ASSUME TypeInv, NEW r \in 1..used, StartHalted(r), run[r].pickRelaunch PROVE Calm
<1>1. chat' = chat /\ table' = table /\ history' = history /\ ends' = ends /\ end' = end /\ msg' = msg
      /\ cur' = cur /\ writes' = writes
  BY DEF StartHalted, chat, table, history
<1>2. run[r] \in RunRecord
  BY Registry DEF TypeInv
<1>3. run' = [run EXCEPT ![r] = PickRelaunchOver(run[r])] /\ run[r].pc = "halted"
  BY DEF StartHalted, AfterResumed
<1>4. RunsGlide
  BY <1>2, <1>3, PickOverGlides, GlideOne
<1> QED  BY <1>1, <1>4, AddsNone, MsgSame, CalmIs

LEMMA PickOptionsCalm ==
  ASSUME TypeInv, NEW r \in 1..used, PickOptionsDone(r) PROVE Calm
<1>1. chat' = chat /\ table' = table /\ history' = history /\ ends' = ends /\ end' = end /\ msg' = msg
      /\ cur' = cur
  BY DEF PickOptionsDone, chat, table, history
<1>2. run[r] \in RunRecord /\ r \in 0..MaxRuns
  BY Registry DEF TypeInv
<1> DEFINE x == run[r]
           y == [x EXCEPT !.session = TRUE, !.reaches = TRUE]
<1>3. y \in RunRecord /\ x.pc = "options" /\ x.pickRelaunch
  BY <1>2 DEF RunRecord, PickOptionsDone
<1>4. CASE fold.stopped # "none"
  <2> DEFINE z == [y EXCEPT !.pc = "resumed"]
  <2>1. run' = [run EXCEPT ![r] = z] /\ writes' = Append(writes, WThen(Plain("resumed"), r, "resumed"))
    BY <1>4 DEF PickOptionsDone
  <2>2. z.pc = "resumed" /\ z.unsent = x.unsent /\ z.steering = x.steering /\ z.injected = x.injected
        /\ z.created = x.created /\ z.earlyCancels = x.earlyCancels
        /\ z.prev = x.prev /\ z.awaits = x.awaits /\ z.quiet = x.quiet /\ z.turning = x.turning
        /\ z.proc = x.proc /\ z.pickRelaunch /\ z.reaches
    BY <1>2, <1>3 DEF RunRecord
  <2> HIDE DEF z
  <2>3. Form(x) => Form(z)
    BY <1>3, <2>2 DEF Form, Talking, Opening, BeforeSession
  <2>4. PlaceGoes(x, z)
    BY <1>3, <2>2 DEF PlaceGoes, Anew, Silences
  <2>5. Glides(x, z)
    BY <1>3, <2>2, <2>3, <2>4 DEF Glides, Unstored, Connected, Dead
  <2>6. RunsGlide
    BY <2>1, <2>5, GlideOne
  <2>7. WThen(Plain("resumed"), r, "resumed") \in Addable
    BY <1>2, SilentAdds, SilentKinds DEF EventKinds, Conts
  <2>8. Adds
    BY <2>1, <2>7, AddsOne
  <2> QED  BY <1>1, <2>6, <2>8, MsgSame, CalmIs
<1>5. CASE fold.stopped = "none"
  <2>1. run' = [run EXCEPT ![r] = PickRelaunchOver(y)] /\ writes' = writes
    BY <1>5 DEF PickOptionsDone
  <2>2. Glides(x, PickRelaunchOver(y))
    BY <1>2, <1>3, PickOverGlides
  <2>3. RunsGlide
    BY <2>1, <2>2, GlideOne
  <2> QED  BY <1>1, <2>1, <2>3, AddsNone, MsgSame, CalmIs
<1> QED  BY <1>4, <1>5

\* The first prompt waits for the messages that joined the start.
LEMMA OptionsHeldCalm ==
  ASSUME TypeInv, NEW r \in 1..used, OptionsDone(r), run[r].held # <<>> PROVE Calm
<1>1. chat' = chat /\ table' = table /\ ends' = ends /\ end' = end /\ msg' = msg /\ cur' = cur
      /\ unsure' = unsure
  BY DEF OptionsDone, chat, table
<1>2. run[r] \in RunRecord
  BY Registry DEF TypeInv
<1> DEFINE x == run[r]
           z == [x EXCEPT !.session = TRUE, !.pc = "held"]
<1>3. [x EXCEPT !.session = TRUE].held = x.held
  BY <1>2 DEF RunRecord
<1>4. run' = [run EXCEPT ![r] = z] /\ writes' = writes /\ got' = got /\ missed' = missed
      /\ cancelled' = cancelled /\ x.pc = "options" /\ ~x.pickRelaunch
  BY <1>2, <1>3 DEF OptionsDone, RunRecord
<1>5. z.pc = "held" /\ z.unsent = x.unsent /\ z.steering = x.steering /\ z.injected = x.injected
      /\ z.created = x.created /\ z.earlyCancels = x.earlyCancels
      /\ z.prev = x.prev /\ z.awaits = x.awaits /\ z.quiet = x.quiet /\ z.turning = x.turning
      /\ z.proc = x.proc /\ z.pickRelaunch = x.pickRelaunch /\ z.reaches = x.reaches
  BY <1>2 DEF RunRecord
<1> HIDE DEF z
<1>6. Form(x) => Form(z)
  BY <1>4, <1>5 DEF Form, Talking, Opening, BeforeSession
<1>7. PlaceGoes(x, z)
  BY <1>4, <1>5 DEF PlaceGoes, Anew, Silences
<1>8. Glides(x, z)
  BY <1>4, <1>5, <1>6, <1>7 DEF Glides, Unstored, Connected, Dead
<1>9. RunsGlide
  BY <1>4, <1>8, GlideOne
<1>10. history' = history
  BY <1>1, <1>4 DEF history
<1> QED  BY <1>1, <1>4, <1>9, <1>10, AddsNone, MsgSame, CalmIs

LEMMA ReturnCalm ==
  ASSUME TypeInv, NEW r \in 1..used, NEW reason \in BOOLEAN, PromptReturned(r, reason) PROVE Calm
<1>1. chat' = chat /\ table' = table /\ history' = history /\ ends' = ends /\ end' = end /\ msg' = msg
      /\ cur' = cur /\ writes' = writes
  BY DEF PromptReturned, chat, table, history
<1>2. run[r] \in RunRecord
  BY Registry DEF TypeInv
<1> DEFINE x == run[r]
           y == [x EXCEPT !.pc = "check"]
           z == [y EXCEPT !.endCheck = TRUE, !.turnCancelled = reason]
<1>3. run' = [run EXCEPT ![r] = z] /\ x.pc = "prompt"
  BY <1>2 DEF PromptReturned
<1>4. Glides(x, y) /\ y \in RunRecord
  <2>1. "check" \in Places
    BY DEF Places
  <2> QED  BY <1>2, <1>3, <2>1, PlaceGlides, PlaceType DEF PlaceLeads
<1> HIDE DEF y
<1>5. Steady(y, z)
  BY <1>4 DEF Steady, Connected, Dead, RunRecord
<1>6. Glides(x, z)
  BY <1>4, <1>5, GlidesThen
<1>7. RunsGlide
  BY <1>3, <1>6, GlideOne
<1> QED  BY <1>1, <1>7, AddsNone, MsgSame, CalmIs

\* The end of a turn.
LEMMA EndTurnGlides ==
  ASSUME NEW x \in RunRecord, x.pc = "check", x.steering = {} PROVE Glides(x, EndTurn(x))
<1>1. ASSUME NEW p \in {"over", "idle"}, NEW o,
             NEW z, z \in {[x EXCEPT !.turning = FALSE, !.pc = p], [x EXCEPT !.turning = FALSE, !.pc = p, !.open = {}]}
      PROVE  Glides(x, z)
  <2>1. z.pc = p /\ z.unsent = x.unsent /\ z.steering = x.steering /\ z.injected = x.injected
        /\ z.created = x.created /\ z.earlyCancels = x.earlyCancels
        /\ z.prev = x.prev /\ z.awaits = x.awaits /\ z.quiet = x.quiet /\ ~z.turning
        /\ z.proc = x.proc /\ z.pickRelaunch = x.pickRelaunch /\ z.reaches = x.reaches
    BY <1>1, ZenonT(30) DEF RunRecord
  <2>2. Form(x) => Form(z)
    BY <1>1, <2>1 DEF Form, Talking, Opening, BeforeSession
  <2>3. PlaceGoes(x, z)
    BY <1>1, <2>1 DEF PlaceGoes, Anew, Silences
  <2> QED  BY <2>1, <2>2, <2>3 DEF Glides, Unstored, Connected, Dead
<1>2. [x EXCEPT !.turning = FALSE, !.pc = "idle", !.open = {}] \in RunRecord
  BY DEF RunRecord, Places
<1>3. CASE x.quiet
  BY <1>1, <1>3 DEF EndTurn
<1>4. CASE ~x.quiet
  BY <1>1, <1>2, <1>4, TouchSteady, GlidesThen DEF EndTurn
<1> QED  BY <1>3, <1>4

LEMMA TurnOverCalm ==
  ASSUME Base, TextInv, NEW r \in 1..used, NEW jobs \in BOOLEAN, TurnOver(r, jobs) PROVE Calm
<1>1. chat' = chat /\ table' = table /\ history' = history /\ ends' = ends /\ end' = end /\ msg' = msg
      /\ cur' = cur
  BY DEF TurnOver, chat, table, history
<1>2. run[r] \in RunRecord /\ r \in 0..MaxRuns /\ TypeInv
  BY Registry DEF TypeInv, Base
<1> DEFINE x == [run[r] EXCEPT !.endCheck = FALSE]
           y == IF jobs THEN SetBackground(x, TRUE, FALSE) ELSE x
           s == IF jobs THEN SetBackgroundWrites(x, r, TRUE, FALSE) ELSE <<>>
<1>3. run' = [run EXCEPT ![r] = EndTurn(y)] /\ writes' = writes \o s \o EndTurnWrites(y, r)
      /\ run[r].pc = "check" /\ run[r].steering = {}
  BY DEF TurnOver
<1>4. x \in RunRecord /\ Steady(run[r], x)
  BY <1>2 DEF RunRecord, Steady, Connected, Dead
<1> HIDE DEF x
<1>5. y \in RunRecord /\ Steady(run[r], y) /\ (y.quiet => run[r].quiet)
  <2>1. y \in RunRecord /\ Steady(x, y)
    BY <1>4, SetBackgroundType, SetBackgroundSteady, SameSteady
  <2>2. y.quiet = x.quiet /\ x.quiet = run[r].quiet
    BY <1>2, <1>4 DEF SetBackground, RunRecord, x
  <2> QED  BY <1>4, <2>1, <2>2, SteadyOn
<1>6. s \in Seq(Addable)
  <2>1. CASE jobs
    <3>1. \A job, own \in BOOLEAN : SetBackgroundWrites(x, r, job, own) \in Seq(Addable)
      BY <1>2, <1>4, BackgroundAdds
    <3>2. SetBackgroundWrites(x, r, TRUE, FALSE) \in Seq(Addable)
      BY <3>1, Zenon
    <3> QED  BY <2>1, <3>2
  <2>2. CASE ~jobs
    BY <2>2
  <2> QED  BY <2>1, <2>2
<1> HIDE DEF y, s
<1>7. EndTurnWrites(y, r) \in Seq(Addable)
  <2>1. run[r].quiet \/ MaySpeak
    BY <1>3, CheckMay
  <2>2. y.quiet \/ MaySpeak
    BY <1>5, <2>1 DEF Steady
  <2> QED  BY <1>2, <1>5, <2>2, EndTurnAdds
<1>8. Adds
  BY <1>2, <1>3, <1>6, <1>7, AddsTwo
<1>9. Glides(run[r], EndTurn(y))
  <2>1. y.pc = "check" /\ y.steering = {}
    BY <1>3, <1>5 DEF Steady
  <2> QED  BY <1>5, <2>1, EndTurnGlides, GlidesOn
<1>10. RunsGlide
  BY <1>2, <1>3, <1>9, GlideOne
<1> QED  BY <1>1, <1>8, <1>10, MsgSame, CalmIs

\* A step of one run that moves no text.
LEMMA OneCalm ==
  ASSUME TypeInv, NEW r \in 1..used, NEW y,
         chat' = chat, table' = table, history' = history, ends' = ends, end' = end, msg' = msg,
         cur' = cur \/ (Forget(r) /\ Off(y)),
         run' = [run EXCEPT ![r] = y], Glides(run[r], y), Adds
  PROVE  Calm
<1>1. r \in Runs /\ run \in [Runs -> RunRecord]
  BY Registry DEF TypeInv, TypeOK
<1>2. run'[r] = y
  BY <1>1
<1>3. cur' \in {cur, NoRun} /\ (cur' # cur => Off(run'[cur]))
  BY <1>2, ForgetOff
<1>4. RunsGlide
  BY GlideOne
<1> QED  BY <1>3, <1>4, MsgSame, CalmIs

LEMMA WorksCalm ==
  ASSUME Base, TextInv, NEW r \in 1..used, AgentWorks(r) PROVE Calm
<1>1. TypeInv /\ run[r] \in RunRecord /\ r \in 0..MaxRuns
  BY Registry DEF Base, TypeInv
<1>2. /\ chat' = chat /\ table' = table /\ history' = history /\ ends' = ends /\ end' = end /\ msg' = msg
      /\ cur' = cur /\ run' = [run EXCEPT ![r] = Touch(run[r])] /\ writes' = writes \o WorkWrites(r)
  BY DEF AgentWorks, chat, table, history
<1>3. MaySpeak
  BY SpeaksMay DEF AgentWorks
<1>4. Adds
  BY <1>1, <1>2, <1>3, WorkAdds DEF Adds
<1>5. Glides(run[r], Touch(run[r]))
  BY <1>1, TouchSteady, SteadyGlides
<1> QED  BY <1>1, <1>2, <1>4, <1>5, OneCalm

LEMMA OutputCalm ==
  ASSUME Base, TextInv, NEW r \in 1..used, OwnOutput(r) PROVE Calm
<1>1. TypeInv /\ run[r] \in RunRecord /\ r \in 0..MaxRuns
  BY Registry DEF Base, TypeInv
<1> DEFINE x == StaleMarker(Touch(run[r]))
           y == IF x.ownStopped THEN x ELSE SetBackground(x, x.job, TRUE)
           s == IF x.ownStopped THEN <<>> ELSE SetBackgroundWrites(x, r, x.job, TRUE)
<1>2. /\ chat' = chat /\ table' = table /\ history' = history /\ ends' = ends /\ end' = end /\ msg' = msg
      /\ cur' = cur /\ run' = [run EXCEPT ![r] = y] /\ writes' = writes \o s \o WorkWrites(r)
  BY DEF OwnOutput, chat, table, history
<1>3. MaySpeak
  BY SpeaksMay DEF OwnOutput
<1>4. x \in RunRecord /\ Steady(run[r], x)
  <2>1. Touch(run[r]) \in RunRecord /\ Steady(run[r], Touch(run[r]))
    BY <1>1, TouchType, TouchSteady
  <2>2. x \in RunRecord /\ Steady(Touch(run[r]), x)
    BY <2>1, StaleType, StaleSteady
  <2> QED  BY <2>1, <2>2, SteadyOn
<1> HIDE DEF x
<1>5. x.job \in BOOLEAN /\ TRUE \in BOOLEAN
  BY <1>4 DEF RunRecord
<1>6. Steady(run[r], y)
  BY <1>4, <1>5, SetBackgroundSteady, SteadyOn
<1>7. s \in Seq(Addable)
  <2>1. \A job, own \in BOOLEAN : SetBackgroundWrites(x, r, job, own) \in Seq(Addable)
    BY <1>1, <1>4, BackgroundAdds
  <2>2. SetBackgroundWrites(x, r, x.job, TRUE) \in Seq(Addable)
    BY <1>5, <2>1, Zenon
  <2>3. <<>> \in Seq(Addable)
    OBVIOUS
  <2> QED  BY <2>2, <2>3, Zenon
<1> HIDE DEF y, s
<1>8. WorkWrites(r) \in Seq(Addable)
  BY <1>1, <1>3, WorkAdds
<1>9. Adds
  BY <1>1, <1>2, <1>7, <1>8, AddsTwo
<1> QED  BY <1>1, <1>2, <1>6, <1>9, SteadyGlides, OneCalm

LEMMA MarkerCalm ==
  ASSUME TypeInv, NEW r \in 1..used, OwnTurnMarker(r) PROVE Calm
<1>1. run[r] \in RunRecord
  BY Registry DEF TypeInv
<1> DEFINE y == [run[r] EXCEPT !.ownStopped = FALSE, !.marker = IF run[r].own THEN "on" ELSE run[r].marker]
<1>2. /\ chat' = chat /\ table' = table /\ history' = history /\ ends' = ends /\ end' = end /\ msg' = msg
      /\ cur' = cur /\ run' = [run EXCEPT ![r] = Touch(y)] /\ writes' = writes
  BY DEF OwnTurnMarker, chat, table, history
<1>3. y \in RunRecord /\ Steady(run[r], y)
  BY <1>1, ZenonT(30) DEF RunRecord, Checks, Steady, Connected, Dead
<1> HIDE DEF y
<1>4. Glides(run[r], Touch(y))
  BY <1>3, TouchSteady, SteadyOn, SteadyGlides
<1> QED  BY <1>2, <1>4, AddsNone, OneCalm

LEMMA CheckedCalm ==
  ASSUME TypeInv, NEW r \in 1..used, NEW jobs \in BOOLEAN, MarkerChecked(r, jobs) \/ StopChecked(r, jobs)
  PROVE  Calm
<1>1. run[r] \in RunRecord /\ r \in 0..MaxRuns
  BY Registry DEF TypeInv
<1>2. /\ chat' = chat /\ table' = table /\ history' = history /\ ends' = ends /\ end' = end /\ msg' = msg
      /\ cur' = cur
  BY DEF MarkerChecked, StopChecked, chat, table, history
<1>3. PICK x \in {[run[r] EXCEPT !.marker = "off"], [run[r] EXCEPT !.stopper = "off"]} :
        \/ run' = [run EXCEPT ![r] = SetBackground(x, jobs, FALSE)]
           /\ writes' = writes \o SetBackgroundWrites(x, r, jobs, FALSE)
        \/ run' = [run EXCEPT ![r] = x] /\ writes' = writes \o <<>>
  <2>1. CASE MarkerChecked(r, jobs)
    BY <2>1 DEF MarkerChecked
  <2>2. CASE StopChecked(r, jobs)
    BY <2>2 DEF StopChecked
  <2> QED  BY <2>1, <2>2
<1>4. x \in RunRecord /\ Steady(run[r], x)
  <2>1. CASE x = [run[r] EXCEPT !.marker = "off"]
    BY <1>1, <2>1 DEF RunRecord, Checks, Steady, Connected, Dead
  <2>2. CASE x = [run[r] EXCEPT !.stopper = "off"]
    BY <1>1, <2>2 DEF RunRecord, Checks, Steady, Connected, Dead
  <2> QED  BY <1>3, <2>1, <2>2
<1>5. CASE run' = [run EXCEPT ![r] = x] /\ writes' = writes \o <<>>
  <2>1. <<>> \in Seq(Addable)
    OBVIOUS
  <2>2. Adds
    BY <1>5, <2>1 DEF Adds
  <2> QED  BY <1>2, <1>4, <1>5, <2>2, SteadyGlides, OneCalm
<1>6. CASE run' = [run EXCEPT ![r] = SetBackground(x, jobs, FALSE)]
           /\ writes' = writes \o SetBackgroundWrites(x, r, jobs, FALSE)
  <2>1. \A own \in BOOLEAN : SetBackgroundWrites(x, r, jobs, own) \in Seq(Addable)
    BY <1>1, <1>4, BackgroundAdds
  <2>2. SetBackgroundWrites(x, r, jobs, FALSE) \in Seq(Addable)
    BY <2>1, Zenon
  <2>3. Adds
    BY <1>6, <2>2 DEF Adds
  <2>4. Glides(run[r], SetBackground(x, jobs, FALSE))
    <3>1. \A own : Glides(run[r], SetBackground(x, jobs, own))
      BY <1>4, SetBackgroundSteady, SteadyOn, SteadyGlides
    <3> QED  BY <3>1, Zenon
  <2> QED  BY <1>2, <1>6, <2>3, <2>4, OneCalm
<1> QED  BY <1>3, <1>5, <1>6

LEMMA AskCalm ==
  ASSUME Base, TextInv, NEW r \in 1..used, NEW q \in Requests, Ask(r, q) PROVE Calm
<1>1. TypeInv /\ run[r] \in RunRecord /\ r \in 0..MaxRuns
  BY Registry DEF Base, TypeInv
<1> DEFINE y == [run[r] EXCEPT !.open = @ \union {q}]
<1>2. /\ chat' = chat /\ table' = table /\ history' = history /\ ends' = ends /\ end' = end /\ msg' = msg
      /\ cur' = cur /\ run' = [run EXCEPT ![r] = Touch(y)] /\ writes' = Append(writes, W(AskEvent(q), r))
  BY DEF Ask, chat, table, history
<1>3. MaySpeak
  BY SpeaksMay DEF Ask
<1>4. y \in RunRecord /\ Steady(run[r], y)
  BY <1>1 DEF RunRecord, Steady, Connected, Dead
<1> HIDE DEF y
<1>5. Glides(run[r], Touch(y))
  BY <1>4, TouchSteady, SteadyOn, SteadyGlides
<1>6. Adds
  <2>1. AskEvent(q) \in Event /\ AskEvent(q).kind = "ask"
    BY EventType DEF AskEvent, Plain
  <2>2. W(AskEvent(q), r) \in Addable
    BY <1>1, <1>3, <2>1, SpokenAdds
  <2> QED  BY <1>1, <1>2, <2>2, AddsOne
<1> QED  BY <1>1, <1>2, <1>5, <1>6, OneCalm

LEMMA ResolveCalm ==
  ASSUME TypeInv, NEW r \in 1..used, NEW q \in Requests, Resolve(r, q) PROVE Calm
<1>1. run[r] \in RunRecord /\ r \in 0..MaxRuns
  BY Registry DEF TypeInv
<1> DEFINE y == [run[r] EXCEPT !.open = @ \ {q}]
<1>2. /\ chat' = chat /\ table' = table /\ history' = history /\ ends' = ends /\ end' = end /\ msg' = msg
      /\ cur' = cur /\ run' = [run EXCEPT ![r] = Touch(y)] /\ writes' = Append(writes, W(ResolvedEvent({q}), r))
  BY DEF Resolve, chat, table, history
<1>3. y \in RunRecord /\ Steady(run[r], y)
  BY <1>1 DEF RunRecord, Steady, Connected, Dead
<1> HIDE DEF y
<1>4. Glides(run[r], Touch(y))
  BY <1>3, TouchSteady, SteadyOn, SteadyGlides
<1>5. Adds
  <2>1. ResolvedEvent({q}) \in SilentEvents
    BY SilentKinds
  <2>2. W(ResolvedEvent({q}), r) \in Addable
    BY <1>1, <2>1, SilentAdds DEF Conts
  <2> QED  BY <1>2, <2>2, AddsOne
<1> QED  BY <1>2, <1>4, <1>5, OneCalm

\* A call of setBackground that takes the values away, and what it writes.
LEMMA BackgroundOver ==
  ASSUME NEW x \in RunRecord, NEW r \in 0..MaxRuns
  PROVE  /\ SetBackground(x, FALSE, FALSE) \in RunRecord
         /\ Steady(x, SetBackground(x, FALSE, FALSE))
         /\ SetBackgroundWrites(x, r, FALSE, FALSE) \in Seq(Addable)
<1>1. \A job, own \in BOOLEAN : /\ SetBackground(x, job, own) \in RunRecord
                                /\ Steady(x, SetBackground(x, job, own))
                                /\ SetBackgroundWrites(x, r, job, own) \in Seq(Addable)
  BY SetBackgroundType, SetBackgroundSteady, BackgroundAdds
<1> QED  BY <1>1, Zenon

LEMMA QuitQuiet ==
  ASSUME NEW x \in RunRecord PROVE Quit(x) \in RunRecord /\ Steady(x, Quit(x)) /\ Quit(x).quiet
<1>1. Silence(x) \in RunRecord /\ Silence(x).quiet
  BY SilenceType, ZenonT(30) DEF Silence, RunRecord
<1>2. Quit(x).quiet
  BY <1>1 DEF Quit, EndProcess, RunRecord
<1> QED  BY <1>2, QuitType, QuitSteady

LEMMA FailQuiet ==
  ASSUME NEW x \in RunRecord PROVE Fail(x) \in RunRecord /\ Steady(x, Fail(x)) /\ Fail(x).quiet
<1>1. Fail(x).quiet
  <2>1. CASE x.quiet
    BY <2>1 DEF Fail
  <2>2. CASE ~x.quiet
    <3>1. Silence(x).quiet
      BY DEF Silence, RunRecord
    <3> QED  BY <2>2, <3>1 DEF Fail
  <2> QED  BY <2>1, <2>2
<1> QED  BY <1>1, FailType, FailSteady

\* The handler of an exit.
LEMMA ExitHandledCalm ==
  ASSUME TypeInv, NEW r \in 1..used, OnExit(r) PROVE Calm
<1>1. run[r] \in RunRecord /\ r \in 0..MaxRuns
  BY Registry DEF TypeInv
<1> DEFINE x == [run[r] EXCEPT !.handled = TRUE]
           y == IF ExitFails(x) THEN Fail(x) ELSE SetBackground(x, FALSE, FALSE)
           z == [y EXCEPT !.open = {}, !.idle = "off"]
           s == IF ExitFails(x) THEN FailWrites(x, r) ELSE SetBackgroundWrites(x, r, FALSE, FALSE)
<1>2. /\ chat' = chat /\ table' = table /\ history' = history /\ ends' = ends /\ end' = end /\ msg' = msg
      /\ run' = [run EXCEPT ![r] = z] /\ writes' = writes \o s /\ Forget(r)
  BY DEF OnExit, chat, table, history
<1>3. x \in RunRecord /\ Steady(run[r], x)
  BY <1>1 DEF RunRecord, Steady, Connected, Dead
<1> HIDE DEF x
<1>4. y \in RunRecord /\ Steady(x, y) /\ Off(y)
  <2>1. CASE ExitFails(x)
    BY <1>3, <2>1, FailQuiet DEF Off
  <2>2. CASE ~ExitFails(x)
    <3>1. y \in RunRecord /\ Steady(x, y)
      BY <1>1, <1>3, <2>2, BackgroundOver, Zenon
    <3>2. ~x.turning
      BY <2>2 DEF ExitFails
    <3> HIDE DEF y
    <3> QED  BY <3>1, <3>2 DEF Steady, Off
  <2> HIDE DEF y
  <2> QED  BY <2>1, <2>2
<1>5. s \in Seq(Addable)
  <2>1. CASE ExitFails(x)
    BY <1>1, <1>3, <2>1, FailAdds
  <2>2. CASE ~ExitFails(x)
    BY <1>1, <1>3, <2>2, BackgroundOver, Zenon
  <2> HIDE DEF s
  <2> QED  BY <2>1, <2>2
<1> HIDE DEF y, s
<1>6. Steady(y, z) /\ Off(z)
  BY <1>4 DEF RunRecord, Steady, Connected, Dead, Off
<1> HIDE DEF z
<1>7. Glides(run[r], z)
  BY <1>3, <1>4, <1>6, SteadyOn, SteadyGlides
<1>8. Adds
  BY <1>2, <1>5 DEF Adds
<1> QED  BY <1>2, <1>6, <1>7, <1>8, OneCalm

LEMMA GroupCalm ==
  ASSUME TypeInv, NEW r \in 1..used, GroupEnded(r) PROVE Calm
<1>1. run[r] \in RunRecord
  BY Registry DEF TypeInv
<1> DEFINE y == [run[r] EXCEPT !.proc = "ended"]
<1>2. /\ chat' = chat /\ table' = table /\ history' = history /\ ends' = ends /\ end' = end /\ msg' = msg
      /\ cur' = cur /\ run' = [run EXCEPT ![r] = y] /\ writes' = writes /\ run[r].proc = "exited"
  BY DEF GroupEnded, chat, table, history
<1>3. Steady(run[r], y)
  BY <1>1, <1>2 DEF RunRecord, Steady, Connected, Dead
<1> QED  BY <1>2, <1>3, SteadyGlides, AddsNone, OneCalm

\* The idle timer.
LEMMA IdleCalm ==
  ASSUME TypeInv, NEW r \in 1..used, IdleExpires(r) \/ IdleOvertaken(r) PROVE Calm
<1>1. run[r] \in RunRecord
  BY Registry DEF TypeInv
<1>2. /\ chat' = chat /\ table' = table /\ history' = history /\ ends' = ends /\ end' = end /\ msg' = msg
      /\ writes' = writes
  BY DEF IdleExpires, IdleOvertaken, chat, table, history
<1>3. Adds
  BY <1>2, AddsNone
<1>4. CASE cur' = cur /\ \E i : run' = [run EXCEPT ![r] = [run[r] EXCEPT !.idle = i]]
  <2>1. PICK i : run' = [run EXCEPT ![r] = [run[r] EXCEPT !.idle = i]]
    BY <1>4
  <2>2. Steady(run[r], [run[r] EXCEPT !.idle = i])
    BY <1>1 DEF RunRecord, Steady, Connected, Dead
  <2> QED  BY <1>2, <1>3, <1>4, <2>1, <2>2, SteadyGlides, OneCalm
<1>5. CASE run' = [run EXCEPT ![r] = Quit(run[r])] /\ Forget(r)
  <2>1. Glides(run[r], Quit(run[r])) /\ Off(Quit(run[r]))
    BY <1>1, QuitQuiet, SteadyGlides DEF Off
  <2> QED  BY <1>2, <1>3, <1>5, <2>1, OneCalm
<1>6. CASE IdleExpires(r)
  BY <1>4, <1>5, <1>6 DEF IdleExpires
<1>7. CASE IdleOvertaken(r)
  BY <1>4, <1>7 DEF IdleOvertaken
<1> QED  BY <1>6, <1>7

LEMMA IdleCheckedCalm ==
  ASSUME TypeInv, NEW r \in 1..used, NEW jobs \in BOOLEAN, NEW ended \in BOOLEAN, NEW recent \in BOOLEAN,
         IdleChecked(r, jobs, ended, recent)
  PROVE  Calm
<1>1. run[r] \in RunRecord /\ r \in 0..MaxRuns
  BY Registry DEF TypeInv
<1> DEFINE x == IF jobs THEN run[r] ELSE SetBackground(run[r], FALSE, run[r].own)
           said == IF jobs THEN <<>> ELSE SetBackgroundWrites(run[r], r, FALSE, run[r].own)
           rearms == ((jobs \/ x.own) /\ recent) \/ (~jobs /\ ended)
           fails == jobs \/ x.own
<1>2. chat' = chat /\ table' = table /\ history' = history /\ ends' = ends /\ end' = end /\ msg' = msg
  BY DEF IdleChecked, chat, table, history
<1>3. \/ run' = [run EXCEPT ![r] = [x EXCEPT !.idle = "on"]] /\ writes' = writes \o said /\ cur' = cur
      \/ /\ run' = [run EXCEPT ![r] = IF fails THEN Fail(x) ELSE Quit(x)]
         /\ writes' = writes \o said \o (IF fails THEN FailWrites(x, r) ELSE <<>>)
         /\ Forget(r)
  BY DEF IdleChecked
<1>4. run[r].own \in BOOLEAN
  BY <1>1 DEF RunRecord
<1>5. /\ \A job, own \in BOOLEAN : SetBackground(run[r], job, own) \in RunRecord
      /\ \A job, own \in BOOLEAN : Steady(run[r], SetBackground(run[r], job, own))
      /\ \A job, own \in BOOLEAN : SetBackgroundWrites(run[r], r, job, own) \in Seq(Addable)
  BY <1>1, SetBackgroundType, SetBackgroundSteady, BackgroundAdds
<1>6. <<>> \in Seq(Addable)
  OBVIOUS
<1>7. x \in RunRecord /\ Steady(run[r], x)
  BY <1>1, <1>4, <1>5, SameSteady, Zenon
<1>8. said \in Seq(Addable)
  BY <1>4, <1>5, <1>6, Zenon
<1> HIDE DEF x, said
<1>9. CASE run' = [run EXCEPT ![r] = [x EXCEPT !.idle = "on"]] /\ writes' = writes \o said /\ cur' = cur
  <2>1. Steady(x, [x EXCEPT !.idle = "on"])
    BY <1>7 DEF RunRecord, Steady, Connected, Dead
  <2>2. Adds
    BY <1>8, <1>9 DEF Adds
  <2> QED  BY <1>2, <1>7, <1>9, <2>1, <2>2, SteadyOn, SteadyGlides, OneCalm
<1>10. CASE /\ run' = [run EXCEPT ![r] = IF fails THEN Fail(x) ELSE Quit(x)]
            /\ writes' = writes \o said \o (IF fails THEN FailWrites(x, r) ELSE <<>>)
            /\ Forget(r)
  <2> DEFINE y == IF fails THEN Fail(x) ELSE Quit(x)
             s == IF fails THEN FailWrites(x, r) ELSE <<>>
  <2>1. y.quiet /\ Steady(x, y)
    BY <1>7, FailQuiet, QuitQuiet
  <2>2. s \in Seq(Addable)
    BY <1>1, <1>6, <1>7, FailAdds
  <2>3. run' = [run EXCEPT ![r] = y] /\ writes' = writes \o said \o s /\ Forget(r)
    BY <1>10
  <2> HIDE DEF y, s
  <2>4. Adds
    BY <1>8, <2>2, <2>3, AddsTwo
  <2>5. Glides(run[r], y) /\ Off(y)
    BY <1>7, <2>1, SteadyOn, SteadyGlides DEF Off
  <2> QED  BY <1>2, <2>3, <2>4, <2>5, OneCalm
<1> QED  BY <1>3, <1>9, <1>10

\* The picks, and the steps of `end` that only answer its caller.
LEMMA PickStepCalm ==
  ASSUME TypeInv, SetOption \/ PickRefused \/ PickWaits \/ PickDirect \/ PickAnswered PROVE Calm
<1>1. /\ chat' = chat /\ table' = table /\ history' = history /\ ends' = ends /\ end' = end /\ msg' = msg
      /\ cur' = cur /\ writes' = writes
  BY DEF SetOption, PickRefused, PickWaits, PickDirect, PickAnswered, chat, table, history
<1>2. Adds
  BY <1>1, AddsNone
<1>3. CASE PickDirect
  <2>1. cur \in 1..used /\ run[cur] \in RunRecord /\ run' = [run EXCEPT ![cur] = Touch(run[cur])]
    BY <1>3, Registry DEF PickDirect, TypeInv
  <2>2. Glides(run[cur], Touch(run[cur]))
    BY <2>1, TouchSteady, SteadyGlides
  <2> QED  BY <1>1, <1>2, <2>1, <2>2, OneCalm
<1>4. CASE SetOption \/ PickRefused \/ PickWaits \/ PickAnswered
  <2>1. run' = run
    BY <1>4 DEF SetOption, PickRefused, PickWaits, PickAnswered
  <2> QED  BY <1>1, <1>2, <2>1, GlideNone, MsgSame, CalmIs
<1> QED  BY <1>3, <1>4

LEMMA EndStepCalm ==
  ASSUME TypeInv, EndWithNoRun \/ EndRefused \/ EndResolves \/ EndFails PROVE Calm
<1>1. /\ chat' = chat /\ table' = table /\ history' = history /\ ends' = ends /\ msg' = msg
      /\ cur' = cur /\ writes' = writes /\ run' = run
  BY DEF EndWithNoRun, EndRefused, EndResolves, EndFails, chat, table, history
<1>2. EndKept
  BY DEF EndWithNoRun, EndRefused, EndResolves, EndFails, EndKept, NoEnd
<1> QED  BY <1>1, <1>2, AddsNone, GlideNone, MsgSame DEF Calm, LineKept, TextsKept, chat, table, history

LEMMA OwnCancelCalm ==
  ASSUME TypeInv, CancelOwnTurn PROVE Calm
<1>1. cur \in 1..used /\ cur \in 0..MaxRuns /\ run[cur] \in RunRecord
  BY Registry DEF CancelOwnTurn, TypeInv
<1> DEFINE x == CancelOpen(run[cur])
           y == [x EXCEPT !.ownStopped = TRUE, !.stopper = "on"]
<1>2. /\ chat' = chat /\ table' = table /\ history' = history /\ ends' = ends /\ end' = end /\ msg' = msg
      /\ cur' = cur /\ run' = [run EXCEPT ![cur] = y] /\ writes' = writes \o CancelOpenWrites(run[cur], cur, "none")
  BY DEF CancelOwnTurn, chat, table, history
<1>3. x \in RunRecord /\ Steady(run[cur], x)
  BY <1>1, CancelOpenType, CancelOpenSteady
<1> HIDE DEF x
<1>4. Steady(x, y)
  BY <1>3 DEF RunRecord, Steady, Connected, Dead
<1> HIDE DEF y
<1>5. Glides(run[cur], y)
  BY <1>3, <1>4, SteadyOn, SteadyGlides
<1>6. Adds
  <2>1. CancelOpenWrites(run[cur], cur, "none") \in Seq(Addable)
    BY <1>1, CancelOpenAdds
  <2> QED  BY <1>2, <2>1 DEF Adds
<1> QED  BY <1>1, <1>2, <1>5, <1>6, OneCalm

LEMMA StopCalm ==
  ASSUME TypeInv, Stop PROVE Calm
<1>1. cur \in 1..used /\ cur \in 0..MaxRuns /\ run[cur] \in RunRecord
  BY Registry DEF Stop, TypeInv
<1> DEFINE x == SetBackground(run[cur], FALSE, FALSE)
           s == SetBackgroundWrites(run[cur], cur, FALSE, FALSE)
<1>2. /\ chat' = chat /\ table' = table /\ history' = history /\ ends' = ends /\ end' = end /\ msg' = msg
      /\ Forget(cur) /\ run' = [run EXCEPT ![cur] = Quit(x)] /\ writes' = writes \o s
  BY DEF Stop, chat, table, history
<1>3. x \in RunRecord /\ Steady(run[cur], x) /\ s \in Seq(Addable)
  BY <1>1, BackgroundOver, Zenon
<1> HIDE DEF x, s
<1>4. Glides(run[cur], Quit(x)) /\ Off(Quit(x))
  BY <1>3, QuitQuiet, SteadyOn, SteadyGlides DEF Off
<1>5. Adds
  BY <1>2, <1>3 DEF Adds
<1> QED  BY <1>1, <1>2, <1>4, <1>5, OneCalm

\* The end of a run now: it interrupts a turn, and resolves what is open between turns.
LEMMA EndNowCalm ==
  ASSUME TypeInv, NEW r \in 1..used, r = last, EndNow(r),
         chat' = chat, table' = table, history' = history, ends' = ends, msg' = msg,
         end.st = "turn" => end.run = r
  PROVE  Calm
<1>1. run[r] \in RunRecord /\ r \in 0..MaxRuns /\ r \in Runs /\ run \in [Runs -> RunRecord] /\ writes \in Seq(Write)
  BY Registry DEF TypeInv, TypeOK
<1>2. \E y : /\ run' = [run EXCEPT ![r] = Quit(y)] /\ y \in RunRecord /\ Steady(run[r], y)
             /\ Adds
  <2>1. CASE ~run[r].turning
    <3> DEFINE y == SetBackground(run[r], FALSE, FALSE)
               s == CancelOpenWrites(run[r], r, "end")
               u == SetBackgroundWrites(run[r], r, FALSE, FALSE)
    <3>1. run' = [run EXCEPT ![r] = Quit(y)] /\ writes' = writes \o s \o u
      BY <2>1 DEF EndNow
    <3>2. y \in RunRecord /\ Steady(run[r], y) /\ u \in Seq(Addable)
      BY <1>1, BackgroundOver, Zenon
    <3>3. s \in Seq(Addable)
      BY <1>1, CancelOpenAdds
    <3> HIDE DEF y, s, u
    <3>4. Adds
      BY <3>1, <3>2, <3>3, AddsTwo
    <3> QED  BY <3>1, <3>2, <3>4
  <2>2. CASE run[r].turning
    <3>1. run' = [run EXCEPT ![r] = Quit(run[r])]
      BY <2>2 DEF EndNow
    <3>2. CASE run[r].quiet
      BY <1>1, <2>2, <3>1, <3>2, AddsNone, SameSteady DEF EndNow
    <3>3. CASE ~run[r].quiet
      <4>1. writes' = Append(writes, WThen(Plain("interrupted"), r, "end"))
        BY <2>2, <3>3 DEF EndNow
      <4>2. WThen(Plain("interrupted"), r, "end") \in Addable
        BY <1>1, SilentAdds, SilentKinds DEF EventKinds, Conts
      <4> QED  BY <1>1, <3>1, <4>1, <4>2, AddsOne, SameSteady
    <3> QED  BY <3>2, <3>3
  <2> QED  BY <2>1, <2>2
<1>3. PICK y : /\ run' = [run EXCEPT ![r] = Quit(y)] /\ y \in RunRecord /\ Steady(run[r], y)
               /\ Adds
  BY <1>2
<1>4. Glides(run[r], Quit(y)) /\ Quit(y).quiet
  BY <1>3, QuitQuiet, SteadyOn, SteadyGlides
<1>5. RunsGlide
  BY <1>3, <1>4, GlideOne
<1>6. run'[r].quiet
  BY <1>1, <1>3, <1>4
<1>7. LineKept
  <2>1. cur' \in {cur, NoRun} /\ (cur' # cur => Off(run'[cur]))
    BY <1>6, ForgetOff DEF EndNow, Off
  <2> QED  BY <2>1 DEF LineKept, table
<1>8. EndKept
  <2>1. cur' # r
    BY DEF EndNow, Forget, NoRun
  <2>2. end' = [st |-> "ends", run |-> r]
    BY DEF EndNow
  <2> QED  BY <2>1, <2>2 DEF EndKept
<1> QED  BY <1>3, <1>5, <1>7, <1>8, MsgSame DEF Calm, TextsKept, chat, history

LEMMA EndingCalm ==
  ASSUME Base, LineInv, EndAtOnce \/ EndWaited PROVE Calm
<1>1. TypeInv
  BY DEF Base
<1>2. CASE EndAtOnce
  <2>1. cur \in 1..used /\ cur = last
    BY <1>1, <1>2, Registry DEF EndAtOnce, TypeInv, LineInv
  <2>2. /\ EndNow(cur) /\ chat' = chat /\ table' = table /\ history' = history /\ ends' = ends /\ msg' = msg
        /\ end.st = "none"
    BY <1>2 DEF EndAtOnce, chat, table, history
  <2> QED  BY <1>1, <2>1, <2>2, EndNowCalm
<1>3. CASE EndWaited
  <2>1. /\ EndNow(end.run) /\ chat' = chat /\ table' = table /\ history' = history /\ ends' = ends /\ msg' = msg
        /\ end.st = "turn"
    BY <1>3 DEF EndWaited, chat, table, history
  <2>2. end.run \in 1..used /\ end.run = last
    BY <2>1 DEF Base, EndInv, EndHasItsRun, LineInv
  <2> QED  BY <1>1, <2>1, <2>2, EndNowCalm
<1> QED  BY <1>2, <1>3

LEMMA ClosingCalm ==
  ASSUME TypeInv, StopStarts \/ Close PROVE Calm
<1>1. used \in Nat /\ \A r \in 1..used : r \in Runs /\ run[r] \in RunRecord
  BY Registry DEF TypeInv
<1>2. chat' = chat /\ table' = table /\ history' = history /\ ends' = ends /\ end' = end /\ msg' = msg
  BY DEF StopStarts, Close, chat, table, history
<1>3. CASE StopStarts
  <2>1. cur' = cur /\ writes' = writes /\ run' = [r \in Runs |-> IF r = cur THEN [run[r] EXCEPT !.idle = "off"] ELSE run[r]]
    BY <1>3 DEF StopStarts
  <2>2. RunsGlide
    <3> SUFFICES ASSUME NEW r \in 1..used PROVE Glides(run[r], run'[r])
      BY DEF RunsGlide
    <3>1. Steady(run[r], [run[r] EXCEPT !.idle = "off"])
      BY <1>1 DEF RunRecord, Steady, Connected, Dead
    <3>2. run'[r] \in {run[r], [run[r] EXCEPT !.idle = "off"]}
      BY <1>1, <2>1
    <3> QED  BY <3>1, <3>2, SteadyGlides, SameGlides
  <2> QED  BY <1>2, <2>1, <2>2, AddsNone, MsgSame, CalmIs
<1>4. CASE Close
  <2>1. run' = [r \in Runs |-> Closing(r)] /\ Forget(cur)
    BY <1>4 DEF Close
  <2>2. \A r \in 1..used : Steady(run[r], Closing(r)) /\ (r = cur => Closing(r).quiet)
    <3> SUFFICES ASSUME NEW r \in 1..used PROVE Steady(run[r], Closing(r)) /\ (r = cur => Closing(r).quiet)
      OBVIOUS
    <3>1. CASE r = cur
      <4>1. Closing(r) = Quit(run[r])
        BY <3>1 DEF Closing, Quit
      <4> QED  BY <1>1, <4>1, QuitQuiet
    <3>2. CASE r # cur
      <4>1. Closing(r) = EndProcess(run[r])
        BY <3>2 DEF Closing
      <4> QED  BY <1>1, <3>2, <4>1, EndProcessSteady
    <3> QED  BY <3>1, <3>2
  <2>3. RunsGlide
    BY <1>1, <2>1, <2>2, SteadyGlides DEF RunsGlide
  <2>4. cur # NoRun => cur \in 1..used /\ Off(run'[cur])
    <3>1. cur # NoRun => cur \in 1..used
      BY Registry DEF TypeInv
    <3> QED  BY <1>1, <2>1, <2>2, <3>1 DEF Off
  <2>5. cur' \in {cur, NoRun} /\ (cur' # cur => Off(run'[cur]))
    BY <2>1, <2>4 DEF Forget
  <2>6. Adds
    <3>1. CASE cur = NoRun
      BY <1>4, <3>1, AddsNone DEF Close
    <3>2. CASE cur # NoRun
      <4>1. cur \in 0..MaxRuns /\ writes' = Append(writes, WThen(Plain("interrupted"), cur, "close"))
        BY <1>4, <3>2, Registry DEF Close, TypeInv
      <4>2. WThen(Plain("interrupted"), cur, "close") \in Addable
        BY <4>1, SilentAdds, SilentKinds DEF EventKinds, Conts
      <4> QED  BY <4>1, <4>2, AddsOne
    <3> QED  BY <3>1, <3>2
  <2> QED  BY <1>2, <2>3, <2>5, <2>6, MsgSame, CalmIs
<1> QED  BY <1>3, <1>4

-----------------------------------------------------------------------------
(* The parts of a step that keep the invariant. *)

\* A step that leaves a run its place in the line.
Lines(x, y) ==
  /\ y.prev = x.prev /\ y.awaits = x.awaits
  /\ y.pc = "reopen" <=> x.pc = "reopen"
  /\ y.pc = "reopen" => y.reopened = x.reopened

\* A step after which a run has no more to tell its agent, or is unsure of it.
Less(x, y, lost) ==
  /\ ToSet(y.unsent) \subseteq ToSet(x.unsent) /\ y.steering \subseteq x.steering
  /\ y.steering \ y.injected \subseteq x.steering \ x.injected
  /\ NoDup(x.unsent) =>
       NoDup(y.unsent) /\ ToSet(y.unsent) \ y.injected \subseteq (ToSet(x.unsent) \ x.injected) \union lost
  /\ Form(x) => Form(y) /\ (Anew(y) => Anew(x))

RunsLine == \A r \in 1..used : Lines(run[r], run'[r])
RunsDead == \A r \in 1..used : Dead(run[r]) => Dead(run'[r])
RunsRest == \A r \in 1..used : r # cur' => Off(run'[r])
RunsLess == \A r \in 1..used : Less(run[r], run'[r], unsure')
Fresher ==
  \A t \in Texts : Fresh(t)' => Fresh(t) /\ (t \in ToSet(answers'.unanswered) => t \in ToSet(answers.unanswered))

LEMMA LineOn ==
  ASSUME LineInv, used' = used, last' = last, ends' = ends, cur' \in {cur, NoRun},
         end'.st = "turn" => end'.run = last, RunsLine, RunsDead, RunsRest
  PROVE  LineInv'
  BY DEF LineInv, Waits, Lines, RunsLine, RunsDead, RunsRest

LEMMA HolderStays ==
  ASSUME used' = used, RunsLine, NEW r PROVE Holder(r)' <=> Holder(r)
  BY DEF Holder, Waits, Lines, RunsLine

LEMMA TextOn ==
  ASSUME TextInv, used' = used, got' = got, unsure \subseteq unsure',
         RunsLine, RunsLess, Fresher, LineInv', StoredInv', CallsOnce', NoneGot'
  PROVE  TextInv'
<1>1. FormInv'
  BY DEF TextInv, FormInv, RunsLess, Less
<1>2. FreshInv'
  <2> SUFFICES ASSUME NEW t \in Texts, Fresh(t)', Has(t)' PROVE FALSE
    BY DEF FreshInv
  <2>1. Fresh(t) /\ (t \in ToSet(answers'.unanswered) => t \in ToSet(answers.unanswered))
    BY DEF Fresher
  <2>2. Has(t)
    BY <2>1 DEF Has, RunsLess, Less
  <2> QED  BY <2>1, <2>2 DEF TextInv, FreshInv
<1>3. UnsentOnce'
  BY DEF TextInv, OnceInv, UnsentOnce, RunsLess, Less
<1>4. \A t : Ungot(t) => Ungot(t)'
  BY DEF Ungot
<1>5. NoTextTwice'
  BY DEF TextInv, GotInv, NoTextTwice
<1>6. SteersUngot'
  BY <1>4 DEF TextInv, GotInv, SteersUngot, RunsLess, Less
<1>7. HolderUngot'
  <2> SUFFICES ASSUME NEW r \in 1..used, Holder(r)', NEW t \in ToSet(run'[r].unsent) \ run'[r].injected
               PROVE  Ungot(t)'
    BY DEF HolderUngot
  <2>1. Holder(r) /\ NoDup(run[r].unsent)
    BY HolderStays DEF TextInv, OnceInv, UnsentOnce
  <2>2. t \in (ToSet(run[r].unsent) \ run[r].injected) \union unsure'
    BY <2>1 DEF RunsLess, Less
  <2> QED  BY <1>4, <2>1, <2>2 DEF TextInv, GotInv, HolderUngot, Ungot
<1>8. AnewUngot'
  <2> SUFFICES ASSUME NEW r \in 1..used, Holder(r)', Anew(run'[r]), NEW t \in Texts PROVE got'[t] = 0
    BY DEF AnewUngot
  <2>1. Holder(r) /\ Anew(run[r])
    BY HolderStays DEF TextInv, FormInv, RunsLess, Less
  <2> QED  BY <2>1 DEF TextInv, GotInv, AnewUngot
<1> QED  BY <1>1, <1>2, <1>3, <1>5, <1>6, <1>7, <1>8 DEF TextInv, OnceInv, GotInv

\* The parts that one step of one run has.
LEMMA GlidesParts ==
  ASSUME NEW x, NEW y, NEW lost, Glides(x, y)
  PROVE  Lines(x, y) /\ Less(x, y, lost) /\ (Off(x) => Off(y)) /\ (Dead(x) => Dead(y))
<1>1. Lines(x, y) /\ (Off(x) => Off(y)) /\ (Dead(x) => Dead(y))
  BY DEF Lines, Off, Glides, PlaceGoes
<1>2. Form(x) => Form(y) /\ (Anew(y) => Anew(x))
  BY DEF Glides, PlaceGoes
<1>3. y.unsent = x.unsent /\ y.steering = x.steering /\ y.injected = x.injected
  BY DEF Glides
<1> QED  BY <1>1, <1>2, <1>3 DEF Less

\* A call of a write that is no message.
LEMMA CallsAdd ==
  ASSUME TypeInv, CallsOnce, used' = used, answers' = answers, Adds, CallsStay
  PROVE  CallsOnce'
<1> PICK s \in Seq(Addable) : writes' = writes \o s
  BY DEF Adds
<1>1. writes \in Seq(Write) /\ s \in Seq(Write)
  BY DEF TypeInv, TypeOK, Addable
<1>2. Len(writes') = Len(writes) + Len(s) /\ Len(writes) \in Nat /\ Len(s) \in Nat
  BY <1>1
<1>3. \A i \in 1..Len(writes) : writes'[i] = writes[i]
  BY <1>1
<1>4. \A i \in 1..Len(writes') : i \notin 1..Len(writes) => ~IsCall(writes'[i]) /\ writes'[i].ev.kind # "user"
  <2> SUFFICES ASSUME NEW i \in 1..Len(writes'), i \notin 1..Len(writes)
               PROVE  ~IsCall(writes'[i]) /\ writes'[i].ev.kind # "user"
    OBVIOUS
  <2>1. i - Len(writes) \in 1..Len(s) /\ writes'[i] = s[i - Len(writes)]
    BY <1>1, <1>2
  <2>2. s[i - Len(writes)] \in Addable
    BY <2>1
  <2> QED  BY <2>1, <2>2 DEF Addable, IsCall
<1>5. ASSUME NEW i \in 1..Len(writes') PROVE UserFits(writes[i])'
  <2>1. CASE i \in 1..Len(writes)
    <3>1. UserFits(writes[i]) /\ writes'[i] = writes[i] /\ writes[i] \in Write
      BY <1>1, <1>3, <2>1 DEF CallsOnce
    <3>2. CASE IsCall(writes[i])
      <4>1. writes[i].ev.text[1] \in Texts
        BY <3>1, <3>2 DEF UserFits, Write, Event
      <4>2. msg'[writes[i].ev.text[1]].st = msg[writes[i].ev.text[1]].st
        BY <3>1, <3>2, <4>1 DEF UserFits, CallsStay
      <4> QED  BY <3>1, <3>2, <4>2 DEF UserFits
    <3>3. CASE ~IsCall(writes[i])
      BY <3>1, <3>3 DEF UserFits
    <3> QED  BY <3>2, <3>3
  <2>2. CASE i \notin 1..Len(writes)
    BY <1>4, <2>2 DEF UserFits
  <2> QED  BY <2>1, <2>2
<1>6. \A i, j \in 1..Len(writes') :
        i # j /\ IsCall(writes'[i]) /\ IsCall(writes'[j]) => writes'[i].ev.text[1] # writes'[j].ev.text[1]
  <2> SUFFICES ASSUME NEW i \in 1..Len(writes'), NEW j \in 1..Len(writes'), i # j,
                      IsCall(writes'[i]), IsCall(writes'[j])
               PROVE  writes'[i].ev.text[1] # writes'[j].ev.text[1]
    OBVIOUS
  <2>1. i \in 1..Len(writes) /\ j \in 1..Len(writes)
    BY <1>4
  <2>2. writes'[i] = writes[i] /\ writes'[j] = writes[j]
    BY <1>3, <2>1
  <2>3. IsCall(writes[i]) /\ IsCall(writes[j])
    BY <2>2
  <2> QED  BY <2>1, <2>2, <2>3 DEF CallsOnce
<1>7. NoDup(answers'.unanswered)
  BY DEF CallsOnce
<1>8. \A i \in 1..Len(writes') : UserFits(writes[i])'
  BY <1>5
<1> QED  BY <1>6, <1>7, <1>8 DEF CallsOnce

\* The queue of a chat whose agent said nothing.
LEMMA UnspokenAdds ==
  ASSUME TypeInv, Unspoken, ~stored, Adds PROVE Unspoken'
<1> PICK s \in Seq(Addable) : writes' = writes \o s
  BY DEF Adds
<1>1. writes \in Seq(Write) /\ s \in Seq(Write)
  BY DEF TypeInv, TypeOK, Addable
<1>2. Len(writes') = Len(writes) + Len(s) /\ Len(writes) \in Nat /\ Len(s) \in Nat
  BY <1>1
<1> SUFFICES ASSUME NEW i \in 1..Len(writes') PROVE ~IsAnswer(writes'[i].ev)
  BY DEF Unspoken
<1>3. CASE i \in 1..Len(writes)
  BY <1>1, <1>3 DEF Unspoken
<1>4. CASE i \notin 1..Len(writes)
  <2>1. i - Len(writes) \in 1..Len(s) /\ writes'[i] = s[i - Len(writes)]
    BY <1>1, <1>2, <1>4
  <2>2. s[i - Len(writes)] \in Addable
    BY <2>1
  <2> QED  BY <2>1, <2>2 DEF Addable, MaySpeak
<1> QED  BY <1>3, <1>4

LEMMA UnspokenTail ==
  ASSUME TypeInv, Unspoken, writes # <<>>, writes' = Tail(writes) PROVE Unspoken'
<1>1. writes \in Seq(Write)
  BY DEF TypeInv, TypeOK
<1>2. Len(writes') = Len(writes) - 1 /\ \A i \in 1..Len(writes') : writes'[i] = writes[i + 1]
  BY <1>1
<1> SUFFICES ASSUME NEW i \in 1..Len(writes') PROVE ~IsAnswer(writes'[i].ev)
  BY DEF Unspoken
<1>3. i + 1 \in 1..Len(writes)
  BY <1>1, <1>2
<1> QED  BY <1>2, <1>3 DEF Unspoken

LEMMA UnspokenAppend ==
  ASSUME TypeInv, Unspoken, NEW w \in Write, ~IsAnswer(w.ev), writes' = Append(writes, w) PROVE Unspoken'
<1>1. writes \in Seq(Write)
  BY DEF TypeInv, TypeOK
<1>2. Len(writes') = Len(writes) + 1 /\ Len(writes) \in Nat
  BY <1>1
<1> SUFFICES ASSUME NEW i \in 1..Len(writes') PROVE ~IsAnswer(writes'[i].ev)
  BY DEF Unspoken
<1>3. CASE i \in 1..Len(writes)
  BY <1>1, <1>3 DEF Unspoken
<1>4. CASE i \notin 1..Len(writes)
  BY <1>1, <1>2, <1>4
<1> QED  BY <1>3, <1>4

\* Nor does such a step call the write of a message.
LEMMA NoCallsAdds ==
  ASSUME TypeInv, NoCalls, Adds PROVE NoCalls'
<1> PICK s \in Seq(Addable) : writes' = writes \o s
  BY DEF Adds
<1>1. writes \in Seq(Write) /\ s \in Seq(Write)
  BY DEF TypeInv, TypeOK, Addable
<1>2. Len(writes') = Len(writes) + Len(s) /\ Len(writes) \in Nat /\ Len(s) \in Nat
  BY <1>1
<1> SUFFICES ASSUME NEW i \in 1..Len(writes') PROVE ~IsCall(writes'[i])
  BY DEF NoCalls
<1>3. CASE i \in 1..Len(writes)
  BY <1>1, <1>3 DEF NoCalls
<1>4. CASE i \notin 1..Len(writes)
  <2>1. i - Len(writes) \in 1..Len(s) /\ writes'[i] = s[i - Len(writes)]
    BY <1>1, <1>2, <1>4
  <2>2. s[i - Len(writes)] \in Addable
    BY <2>1
  <2> QED  BY <2>1, <2>2 DEF Addable, IsCall
<1> QED  BY <1>3, <1>4

\* What a calm step keeps.
LEMMA CalmMessages ==
  ASSUME MsgCalm PROVE CallsStay /\ \A t \in Texts : Fresh(t)' => Fresh(t)
<1>1. CallsStay
  BY DEF MsgCalm, MsgRests, CallsStay
<1>2. \A t \in Texts : Fresh(t)' => Fresh(t)
  BY DEF MsgCalm, MsgRests, Fresh
<1> QED  BY <1>1, <1>2

LEMMA CalmTexts ==
  ASSUME TypeInv, TextInv, Calm PROVE TextInv'
<1>1. /\ used' = used /\ last' = last /\ ends' = ends /\ cur' \in {cur, NoRun}
      /\ cur' # cur => Off(run'[cur])
  BY DEF Calm, LineKept
<1>2. answers' = answers /\ stored' = stored /\ got' = got /\ cancelled' = cancelled /\ unsure' = unsure
  BY DEF Calm, TextsKept
<1>3. \A r \in 1..used : Lines(run[r], run'[r]) /\ Less(run[r], run'[r], unsure') /\ (Off(run[r]) => Off(run'[r]))
                         /\ (Dead(run[r]) => Dead(run'[r]))
  BY GlidesParts DEF Calm, RunsGlide
<1>4. RunsLine /\ RunsLess /\ RunsDead
  BY <1>3 DEF RunsLine, RunsLess, RunsDead
<1>5. RunsRest
  BY <1>1, <1>3 DEF RunsRest, TextInv, LineInv
<1>6. LineInv'
  <2>1. end'.st = "turn" => end'.run = last
    BY DEF Calm, EndKept, TextInv, LineInv
  <2> QED  BY <1>1, <1>4, <1>5, <2>1, LineOn DEF TextInv
<1>7. CallsStay /\ Fresher
  BY <1>2, CalmMessages DEF Calm, Fresher
<1>8. CallsOnce'
  BY <1>1, <1>2, <1>7, CallsAdd DEF Calm, TextInv, OnceInv
<1>9. StoredInv'
  <2> SUFFICES ASSUME ~stored
               PROVE  /\ ~answers.answered /\ cancelled = {} /\ \A t \in Texts : got[t] = 0
                      /\ \A r \in 1..used : Unstored(run'[r])
                      /\ Unspoken'
    BY <1>1, <1>2 DEF StoredInv
  <2>1. Unspoken'
    BY UnspokenAdds DEF TextInv, StoredInv, Calm
  <2>2. \A r \in 1..used : Unstored(run'[r])
    BY DEF TextInv, StoredInv, Calm, RunsGlide, Glides
  <2> QED  BY <2>1, <2>2 DEF TextInv, StoredInv
<1>10. NoneGot'
  <2>1. (\A r \in 1..used : Waits(r))' => \A r \in 1..used : Waits(r)
    BY <1>1, <1>4 DEF Waits, RunsLine, Lines
  <2>2. NoCalls => NoCalls'
    BY NoCallsAdds DEF Calm
  <2> QED  BY <1>2, <2>1, <2>2 DEF TextInv, GotInv, NoneGot
<1>11. got' = got /\ unsure \subseteq unsure'
  BY <1>2
<1> QED  BY <1>1, <1>4, <1>6, <1>7, <1>8, <1>9, <1>10, <1>11, TextOn

\* What remains of texts that differ, without one of them.
LEMMA WithoutOnce ==
  ASSUME NEW s \in Seq(Texts), NoDup(s), NEW t
  PROVE  /\ NoDup(Without(s, t)) /\ ToSet(Without(s, t)) \subseteq ToSet(s) \ {t}
         /\ ToSet(s) \ {t} \subseteq ToSet(Without(s, t))
<1>1. CASE t \in ToSet(s)
  <2> DEFINE k == CHOOSE i \in DOMAIN s : s[i] = t
             u == RemoveAt(s, k)
  <2>1. k \in 1..Len(s) /\ s[k] = t
    BY <1>1 DEF ToSet
  <2> HIDE DEF k, u
  <2>2. Len(u) = Len(s) - 1 /\ \A i \in 1..Len(u) : u[i] = s[IF i < k THEN i ELSE i + 1]
    <3> DEFINE a == SubSeq(s, 1, k - 1)
               b == SubSeq(s, k + 1, Len(s))
    <3>1. a \in Seq(Texts) /\ b \in Seq(Texts)
      BY <2>1
    <3>2. Len(a) = k - 1 /\ Len(b) = Len(s) - k
      BY <2>1
    <3>3. \A i \in 1..Len(a) : a[i] = s[i]
      BY <2>1, <3>2
    <3>4. \A i \in 1..Len(b) : b[i] = s[k + i]
      BY <2>1, <3>2
    <3>5. u = a \o b
      BY DEF RemoveAt, u
    <3> HIDE DEF a, b
    <3>6. Len(u) = Len(s) - 1 /\ Len(s) \in Nat /\ k \in Nat
      <4>1. Len(s) \in Nat /\ k \in Nat
        BY <2>1
      <4>2. Len(u) = Len(a) + Len(b)
        BY <3>1, <3>5
      <4> QED  BY <3>2, <4>1, <4>2
    <3>7. ASSUME NEW i \in 1..Len(u) PROVE u[i] = s[IF i < k THEN i ELSE i + 1]
      <4>1. CASE i < k
        <5>1. i \in 1..Len(a)
          BY <3>2, <3>6, <4>1
        <5>2. u[i] = a[i]
          BY <3>1, <3>5, <5>1
        <5> QED  BY <3>3, <4>1, <5>1, <5>2
      <4>2. CASE ~(i < k)
        <5>1. i - Len(a) \in 1..Len(b) /\ i + 1 = k + (i - Len(a))
          BY <3>2, <3>6, <4>2
        <5>2. u[i] = b[i - Len(a)]
          BY <3>1, <3>2, <3>5, <3>6, <4>2, <5>1
        <5> QED  BY <3>4, <4>2, <5>1, <5>2
      <4> QED  BY <4>1, <4>2
    <3> QED  BY <3>6, <3>7
  <2>3. \A i \in 1..Len(u) : (IF i < k THEN i ELSE i + 1) \in 1..Len(s) \ {k}
    BY <2>1, <2>2
  <2>4. NoDup(u)
    BY <2>1, <2>2, <2>3 DEF NoDup
  <2>5. u \in Seq(Texts)
    <3>1. SubSeq(s, 1, k - 1) \in Seq(Texts) /\ SubSeq(s, k + 1, Len(s)) \in Seq(Texts)
      BY <2>1
    <3> QED  BY <3>1 DEF u, RemoveAt
  <2>6. ToSet(u) \subseteq ToSet(s) \ {t}
    <3> SUFFICES ASSUME NEW x \in ToSet(u) PROVE x \in ToSet(s) /\ x # t
      OBVIOUS
    <3>1. PICK i \in 1..Len(u) : x = u[i]
      BY <2>5 DEF ToSet
    <3> DEFINE j == IF i < k THEN i ELSE i + 1
    <3>2. x = s[j] /\ j \in 1..Len(s) /\ j # k
      BY <2>2, <2>3, <3>1
    <3> HIDE DEF j
    <3> QED  BY <2>1, <3>2 DEF ToSet, NoDup
  <2>7. ToSet(s) \ {t} \subseteq ToSet(u)
    <3> SUFFICES ASSUME NEW x \in ToSet(s) \ {t} PROVE x \in ToSet(u)
      OBVIOUS
    <3>1. PICK j \in 1..Len(s) : x = s[j]
      BY DEF ToSet
    <3> DEFINE i == IF j < k THEN j ELSE j - 1
    <3>2. i \in 1..Len(u) /\ (IF i < k THEN i ELSE i + 1) = j
      BY <2>1, <2>2, <3>1
    <3> HIDE DEF i
    <3>3. u[i] = x
      BY <2>2, <3>1, <3>2
    <3> QED  BY <2>5, <3>2, <3>3 DEF ToSet
  <2> QED  BY <1>1, <2>4, <2>6, <2>7 DEF Without, k, u
<1>2. CASE t \notin ToSet(s)
  BY <1>2 DEF Without
<1> QED  BY <1>1, <1>2

-----------------------------------------------------------------------------
(* Steps of one run after which it has no more to tell its agent. *)

LEMMA LessOne ==
  ASSUME TypeInv, NEW r \in 1..used, NEW y, run' = [run EXCEPT ![r] = y],
         Lines(run[r], y), Less(run[r], y, unsure')
  PROVE  RunsLine /\ RunsLess
<1>1. \A s \in 1..used : s \in Runs
  BY Registry DEF TypeInv
<1>2. run \in [Runs -> RunRecord]
  BY DEF TypeInv, TypeOK
<1>3. ASSUME NEW s \in 1..used PROVE Lines(run[s], run'[s]) /\ Less(run[s], run'[s], unsure')
  <2>1. CASE s = r
    BY <1>1, <1>2, <2>1
  <2>2. CASE s # r
    <3>1. run'[s] = run[s]
      BY <1>1, <1>2, <2>2
    <3> QED  BY <3>1 DEF Lines, Less
  <2> QED  BY <2>1, <2>2
<1> QED  BY <1>3 DEF RunsLine, RunsLess

LEMMA LineOne ==
  ASSUME TypeInv, LineInv, NEW r \in 1..used, NEW y, run' = [run EXCEPT ![r] = y],
         used' = used, last' = last, ends' = ends, end'.st = "turn" => end'.run = last,
         Lines(run[r], y), Dead(run[r]) => Dead(y),
         \/ cur' = cur /\ (r = cur \/ (Off(run[r]) => Off(y)))
         \/ Forget(r) /\ Off(y)
  PROVE  LineInv'
<1>1. \A s \in 1..used : s \in Runs
  BY Registry DEF TypeInv
<1>2. run \in [Runs -> RunRecord]
  BY DEF TypeInv, TypeOK
<1>3. run'[r] = y /\ \A s \in 1..used : s # r => run'[s] = run[s]
  BY <1>1, <1>2
<1>4. RunsLine /\ RunsDead
  BY <1>3 DEF RunsLine, RunsDead, Lines
<1>5. cur' \in {cur, NoRun}
  BY DEF Forget
<1>6. RunsRest
  <2> SUFFICES ASSUME NEW s \in 1..used, s # cur' PROVE Off(run'[s])
    BY DEF RunsRest
  <2>1. s # cur => Off(run[s])
    BY DEF LineInv
  <2>2. CASE s = r
    BY <1>3, <2>1, <2>2 DEF Forget
  <2>3. CASE s # r
    <3>1. s # cur
      BY <2>3 DEF Forget
    <3> QED  BY <1>3, <2>1, <2>3, <3>1
  <2> QED  BY <2>2, <2>3
<1> QED  BY <1>4, <1>5, <1>6, LineOn

\* Such a step with no write that is a message.
LEMMA MoveOn ==
  ASSUME TypeInv, TextInv, used' = used, answers' = answers, stored' = stored, got' = got,
         unsure \subseteq unsure', RunsLine, RunsLess, LineInv', Adds, CallsStay,
         \A t \in Texts : Fresh(t)' => Fresh(t),
         ~stored => cancelled' = cancelled /\ \A r \in 1..used : Unstored(run[r]) => Unstored(run'[r])
  PROVE  TextInv'
<1>1. Fresher
  BY DEF Fresher
<1>2. CallsOnce'
  BY CallsAdd DEF TextInv, OnceInv
<1>3. StoredInv'
  <2> SUFFICES ASSUME ~stored
               PROVE  /\ ~answers.answered /\ cancelled' = {} /\ \A t \in Texts : got[t] = 0
                      /\ \A r \in 1..used : Unstored(run'[r])
                      /\ Unspoken'
    BY DEF StoredInv
  <2>1. Unspoken'
    BY UnspokenAdds DEF TextInv, StoredInv
  <2> QED  BY <2>1 DEF TextInv, StoredInv
<1>4. NoneGot'
  <2>1. (\A r \in 1..used : Waits(r))' => \A r \in 1..used : Waits(r)
    BY DEF Waits, RunsLine, Lines
  <2>2. NoCalls => NoCalls'
    BY NoCallsAdds
  <2> QED  BY <2>1, <2>2 DEF TextInv, GotInv, NoneGot
<1> QED  BY <1>1, <1>2, <1>3, <1>4, TextOn

\* The same of one run.
LEMMA MoveOne ==
  ASSUME TypeInv, TextInv, NEW r \in 1..used, NEW y, run' = [run EXCEPT ![r] = y],
         used' = used, last' = last, ends' = ends, end'.st = "turn" => end'.run = last,
         answers' = answers, stored' = stored, got' = got, unsure \subseteq unsure',
         Lines(run[r], y), Less(run[r], y, unsure'), Dead(run[r]) => Dead(y),
         \/ cur' = cur /\ (r = cur \/ (Off(run[r]) => Off(y)))
         \/ Forget(r) /\ Off(y),
         Adds, CallsStay, \A t \in Texts : Fresh(t)' => Fresh(t),
         ~stored => cancelled' = cancelled /\ (Unstored(run[r]) => Unstored(y))
  PROVE  TextInv'
<1>1. RunsLine /\ RunsLess
  BY LessOne
<1>2. LineInv'
  BY LineOne DEF TextInv
<1>3. \A s \in 1..used : s \in Runs
  BY Registry DEF TypeInv
<1>4. run'[r] = y /\ \A s \in 1..used : s # r => run'[s] = run[s]
  BY <1>3 DEF TypeInv, TypeOK
<1>5. ~stored => cancelled' = cancelled /\ \A s \in 1..used : Unstored(run[s]) => Unstored(run'[s])
  BY <1>4
<1> QED  BY <1>1, <1>2, <1>5, MoveOn

\* A message that joins a start waits for its turn.
LEMMA JoinStartTexts ==
  ASSUME TypeInv, TextInv, NEW t \in Texts, JoinStart(t) PROVE TextInv'
<1> DEFINE x == run[cur]
           z == IF x.pickRelaunch
                THEN [x EXCEPT !.pickRelaunch = FALSE, !.reaches = FALSE, !.earlierPicks = pick.issued]
                ELSE x
           y == Hold(z, t)
<1>1. cur \in 1..used /\ x \in RunRecord
  BY Registry DEF JoinStart, TypeInv
<1>2. /\ used' = used /\ last' = last /\ ends' = ends /\ end' = end /\ cur' = cur
      /\ answers' = answers /\ stored' = stored /\ got' = got /\ unsure' = unsure /\ cancelled' = cancelled
      /\ writes' = writes /\ run' = [run EXCEPT ![cur] = y]
      /\ Sent(t) /\ msg' = HoldCall(t, cur, x.earlyCancels)
  BY DEF JoinStart, chat, table, history
<1>3. /\ z.unsent = x.unsent /\ z.steering = x.steering /\ z.injected = x.injected
      /\ z.created = x.created /\ z.prev = x.prev /\ z.awaits = x.awaits /\ z.pc = x.pc
      /\ z.proc = x.proc /\ z.reopened = x.reopened /\ z.turning = x.turning /\ z.session = x.session
      /\ z.reaches => x.reaches
      /\ ~z.pickRelaunch => ~x.pickRelaunch \/ ~z.reaches
      /\ z.pickRelaunch => x.pickRelaunch
      /\ z \in RunRecord
  <2>1. pick.issued \in 0..MaxPicks
    BY DEF TypeInv, TypeOK, Pick
  <2>2. CASE x.pickRelaunch
    BY <1>1, <2>1, <2>2, ZenonT(30) DEF RunRecord
  <2>3. CASE ~x.pickRelaunch
    BY <1>1, <2>3
  <2> QED  BY <2>2, <2>3
<1> HIDE DEF z
<1>4. /\ y.unsent = z.unsent /\ y.steering = z.steering /\ y.injected = z.injected
      /\ y.created = z.created /\ y.prev = z.prev /\ y.awaits = z.awaits /\ y.pc = z.pc
      /\ y.proc = z.proc /\ y.reopened = z.reopened /\ y.turning = z.turning /\ y.session = z.session
      /\ y.reaches = z.reaches /\ y.pickRelaunch = z.pickRelaunch
  BY <1>3 DEF Hold, RunRecord
<1> HIDE DEF x, y
<1>5. Lines(x, y) /\ (Dead(x) => Dead(y))
  BY <1>3, <1>4 DEF Lines, Dead
<1>6. Less(x, y, unsure')
  <2>1. Form(x) => Form(y)
    BY <1>3, <1>4 DEF Form, Connected
  <2>2. Anew(y) => Anew(x)
    BY <1>3, <1>4 DEF Anew
  <2> QED  BY <1>3, <1>4, <2>1, <2>2 DEF Less
<1>7. Unstored(x) => Unstored(y)
  BY <1>3, <1>4 DEF Unstored
<1>8. CallsStay /\ \A u \in Texts : Fresh(u)' => Fresh(u)
  <2>1. msg' = [msg EXCEPT ![t] = [msg[t] EXCEPT !.st = "wait", !.run = cur, !.cancels = x.earlyCancels]]
    BY <1>2 DEF HoldCall
  <2>2. msg[t].st \in {"new", "again"}
    BY <1>2 DEF Sent
  <2> QED  BY <2>1, <2>2 DEF CallsStay, Fresh, TypeInv, TypeOK
<1>9. Adds
  BY <1>2, AddsNone
<1>10. end'.st = "turn" => end'.run = last
  BY <1>2 DEF TextInv, LineInv
<1>11. x = run[cur]
  BY DEF x
<1>12. unsure \subseteq unsure'
  BY <1>2
<1> QED  BY <1>1, <1>2, <1>5, <1>6, <1>7, <1>8, <1>9, <1>10, <1>11, <1>12, MoveOne

\* A process that exits loses its steers: the runner is unsure of them from then on.
LEMMA LostTexts ==
  ASSUME TypeInv, TextInv, NEW r \in 1..used,
         NEW y, y.unsent = run[r].unsent, y.steering = {}, y.injected = {}, y.created = run[r].created,
         y.prev = run[r].prev, y.awaits = run[r].awaits, y.reopened = run[r].reopened, y.quiet = run[r].quiet, y.turning = run[r].turning,
         y.reaches = run[r].reaches, y.pickRelaunch = run[r].pickRelaunch, y.session = run[r].session,
         y.pc = run[r].pc \/ (run[r].pc \in AtAgent /\ y.pc = "over"),
         Dead(run[r]) => Dead(y),
         run' = [run EXCEPT ![r] = y], unsure' = unsure \union run[r].steering,
         chat' = chat, table' = table, end' = end, cur' = cur, ends' = ends, msg' = msg, writes' = writes,
         got' = got, cancelled' = cancelled
  PROVE  TextInv'
<1>1. Lines(run[r], y) /\ (Off(run[r]) => Off(y)) /\ (Unstored(run[r]) => Unstored(y))
  BY DEF Lines, Off, Unstored, AtAgent
<1>2. Form(run[r])
  BY DEF TextInv, FormInv
<1>3. Less(run[r], y, unsure')
  <2>1. run[r].injected \subseteq run[r].steering
    BY <1>2 DEF Form
  <2>2. ToSet(y.unsent) \ y.injected \subseteq (ToSet(run[r].unsent) \ run[r].injected) \union unsure'
    BY <2>1
  <2>3. Form(run[r]) => Form(y) /\ (Anew(y) => Anew(run[r]))
    <3>1. Form(run[r]) => Form(y)
      BY DEF Form, Talking, Opening, BeforeSession, AtAgent
    <3>2. Anew(y) => Anew(run[r])
      BY DEF Anew
    <3> QED  BY <3>1, <3>2
  <2> QED  BY <2>2, <2>3 DEF Less
<1>4. /\ used' = used /\ last' = last /\ answers' = answers /\ stored' = stored /\ unsure \subseteq unsure'
      /\ end'.st = "turn" => end'.run = last
  BY DEF chat, table, TextInv, LineInv
<1>5. CallsStay /\ \A u \in Texts : Fresh(u)' => Fresh(u)
  BY DEF CallsStay, Fresh
<1> QED  BY <1>1, <1>3, <1>4, <1>5, AddsNone, MoveOne

LEMMA ExitTexts ==
  ASSUME TypeInv, TextInv, NEW r \in 1..used,
         ConnectionCut(r) \/ \E clean \in BOOLEAN : Exit(r, clean)
  PROVE  TextInv'
<1>1. run[r] \in RunRecord
  BY Registry DEF TypeInv
<1> DEFINE x == ConnectionLost(run[r])
<1>2. /\ x.unsent = run[r].unsent /\ x.steering = {} /\ x.injected = {} /\ x.created = run[r].created
      /\ x.prev = run[r].prev /\ x.awaits = run[r].awaits /\ x.reopened = run[r].reopened /\ x.quiet = run[r].quiet /\ x.turning = run[r].turning
      /\ x.reaches = run[r].reaches /\ x.pickRelaunch = run[r].pickRelaunch /\ x.session = run[r].session
      /\ x.pc = run[r].pc \/ (run[r].pc \in AtAgent /\ x.pc = "over")
  BY <1>1 DEF ConnectionLost, RunRecord
<1>3. x \in RunRecord
  BY <1>1, ConnectionLostType
<1> HIDE DEF x
<1>4. \E p, c : run' = [run EXCEPT ![r] = [x EXCEPT !.proc = p, !.clean = c]] /\ ~Dead(run[r])
  <2>1. CASE ConnectionCut(r)
    <3>1. [x EXCEPT !.proc = "cut"] = [x EXCEPT !.proc = "cut", !.clean = x.clean]
      BY <1>3 DEF RunRecord
    <3>2. run' = [run EXCEPT ![r] = [x EXCEPT !.proc = "cut"]] /\ run[r].proc = "alive"
      BY <2>1 DEF ConnectionCut, x
    <3> QED  BY <3>1, <3>2 DEF Dead
  <2>2. CASE \E clean \in BOOLEAN : Exit(r, clean)
    <3>1. PICK clean \in BOOLEAN : Exit(r, clean)
      BY <2>2
    <3>2. run' = [run EXCEPT ![r] = [x EXCEPT !.proc = "exited", !.clean = clean]]
          /\ run[r].proc \in {"alive", "ending", "cut"}
      BY <3>1 DEF Exit, x
    <3> QED  BY <3>2 DEF Dead
  <2> QED  BY <2>1, <2>2
<1>5. PICK p, c : run' = [run EXCEPT ![r] = [x EXCEPT !.proc = p, !.clean = c]] /\ ~Dead(run[r])
  BY <1>4
<1> DEFINE y == [x EXCEPT !.proc = p, !.clean = c]
<1>6. /\ y.unsent = x.unsent /\ y.steering = x.steering /\ y.injected = x.injected /\ y.created = x.created
      /\ y.prev = x.prev /\ y.awaits = x.awaits /\ y.reopened = x.reopened /\ y.quiet = x.quiet /\ y.turning = x.turning
      /\ y.reaches = x.reaches /\ y.pickRelaunch = x.pickRelaunch /\ y.session = x.session /\ y.pc = x.pc
  BY <1>3 DEF RunRecord
<1>7. /\ unsure' = unsure \union run[r].steering
      /\ chat' = chat /\ table' = table /\ end' = end /\ cur' = cur /\ ends' = ends /\ msg' = msg /\ writes' = writes
      /\ got' = got /\ cancelled' = cancelled
  BY DEF ConnectionCut, Exit
<1>8. run' = [run EXCEPT ![r] = y]
  BY <1>5
<1> HIDE DEF y
<1>9. PICK u : u = y
  OBVIOUS
<1>10. u.unsent = run[r].unsent /\ u.steering = {} /\ u.injected = {} /\ u.created = run[r].created
  BY <1>2, <1>6, <1>9
<1>11. /\ u.prev = run[r].prev /\ u.awaits = run[r].awaits /\ u.reopened = run[r].reopened /\ u.quiet = run[r].quiet
       /\ u.turning = run[r].turning /\ u.reaches = run[r].reaches
       /\ u.pickRelaunch = run[r].pickRelaunch /\ u.session = run[r].session
  BY <1>2, <1>6, <1>9
<1>12. u.pc = run[r].pc \/ (run[r].pc \in AtAgent /\ u.pc = "over")
  BY <1>2, <1>6, <1>9
<1>13. run' = [run EXCEPT ![r] = u] /\ (Dead(run[r]) => Dead(u))
  BY <1>5, <1>8, <1>9
<1> QED  BY <1>7, <1>10, <1>11, <1>12, <1>13, LostTexts

\* A step of a run that drops its texts, or keeps them.
LEMMA DropLess ==
  ASSUME NEW x, NEW y, NEW lost,
         y.unsent = x.unsent \/ y.unsent = <<>>, y.steering = x.steering, y.injected = x.injected,
         y.created = x.created, y.prev = x.prev, y.awaits = x.awaits, y.reopened = x.reopened, y.pc = x.pc, y.proc = x.proc,
         y.turning = x.turning, y.reaches = x.reaches, y.pickRelaunch = x.pickRelaunch, y.session = x.session
  PROVE  /\ Lines(x, y) /\ Less(x, y, lost) /\ (Dead(x) => Dead(y))
         /\ Unstored(x) => Unstored(y)
<1>1. ToSet(y.unsent) \subseteq ToSet(x.unsent)
  BY DEF ToSet
<1>2. NoDup(x.unsent) => NoDup(y.unsent)
  BY DEF NoDup
<1>3. (Form(x) => Form(y)) /\ (Anew(y) => Anew(x))
  BY DEF Form, Anew, Connected
<1>4. Less(x, y, lost)
  BY <1>1, <1>2, <1>3 DEF Less
<1> QED  BY <1>4 DEF Lines, Dead, Unstored

\* The record of a run whose open requests a cancel resolves.
LEMMA CancelOpenFields ==
  ASSUME NEW x \in RunRecord
  PROVE  LET y == CancelOpen(x) IN
         /\ y.unsent = x.unsent /\ y.steering = x.steering /\ y.injected = x.injected
         /\ y.created = x.created /\ y.prev = x.prev /\ y.awaits = x.awaits /\ y.reopened = x.reopened /\ y.pc = x.pc /\ y.proc = x.proc
         /\ y.turning = x.turning /\ y.reaches = x.reaches /\ y.pickRelaunch = x.pickRelaunch
         /\ y.session = x.session
<1>1. Steady(x, CancelOpen(x))
  BY CancelOpenSteady
<1>2. CancelOpen(x).proc = x.proc
  BY DEF CancelOpen, Touch, RunRecord
<1> QED  BY <1>1, <1>2 DEF Steady

LEMMA CancelOneTexts ==
  ASSUME TypeInv, TextInv, cur # NoRun,
         NEW x \in RunRecord, NEW s \in Seq(Addable),
         x.unsent = run[cur].unsent \/ x.unsent = <<>>, x.steering = run[cur].steering, x.injected = run[cur].injected,
         x.created = run[cur].created, x.prev = run[cur].prev, x.awaits = run[cur].awaits, x.reopened = run[cur].reopened, x.pc = run[cur].pc,
         x.proc = run[cur].proc, x.turning = run[cur].turning, x.reaches = run[cur].reaches,
         x.pickRelaunch = run[cur].pickRelaunch, x.session = run[cur].session,
         run' = [run EXCEPT ![cur] = x] \/ run' = [run EXCEPT ![cur] = CancelOpen(x)],
         writes' = writes \/ writes' = writes \o s,
         chat' = chat, table' = table, cur' = cur, ends' = ends, msg' = msg, got' = got, unsure' = unsure,
         end'.st = "turn" => end'.run = last, ~stored => cancelled' = cancelled
  PROVE  TextInv'
<1>1. \E y : /\ run' = [run EXCEPT ![cur] = y] /\ Lines(run[cur], y) /\ Less(run[cur], y, unsure')
             /\ Dead(run[cur]) => Dead(y)
             /\ Unstored(run[cur]) => Unstored(y)
  <2>1. CASE run' = [run EXCEPT ![cur] = x]
    <3>1. /\ Lines(run[cur], x) /\ Less(run[cur], x, unsure') /\ (Dead(run[cur]) => Dead(x))
          /\ Unstored(run[cur]) => Unstored(x)
      BY DropLess
    <3> QED  BY <2>1, <3>1
  <2>2. CASE run' = [run EXCEPT ![cur] = CancelOpen(x)]
    <3> PICK y : y = CancelOpen(x)
      OBVIOUS
    <3>1. y.unsent = run[cur].unsent \/ y.unsent = <<>>
      BY CancelOpenFields
    <3>2. /\ y.steering = run[cur].steering /\ y.injected = run[cur].injected
          /\ y.created = run[cur].created /\ y.prev = run[cur].prev /\ y.awaits = run[cur].awaits /\ y.reopened = run[cur].reopened
      BY CancelOpenFields
    <3>3. /\ y.pc = run[cur].pc /\ y.proc = run[cur].proc /\ y.turning = run[cur].turning
          /\ y.reaches = run[cur].reaches
          /\ y.pickRelaunch = run[cur].pickRelaunch /\ y.session = run[cur].session
      BY CancelOpenFields
    <3>4. /\ Lines(run[cur], y) /\ Less(run[cur], y, unsure') /\ (Dead(run[cur]) => Dead(y))
          /\ Unstored(run[cur]) => Unstored(y)
      BY <3>1, <3>2, <3>3, DropLess
    <3> QED  BY <2>2, <3>4
  <2> QED  BY <2>1, <2>2
<1>2. PICK y : /\ run' = [run EXCEPT ![cur] = y] /\ Lines(run[cur], y) /\ Less(run[cur], y, unsure')
               /\ Dead(run[cur]) => Dead(y)
               /\ Unstored(run[cur]) => Unstored(y)
  BY <1>1
<1>3. used' = used /\ last' = last /\ answers' = answers /\ stored' = stored /\ unsure \subseteq unsure'
  BY DEF chat, table
<1>4. CallsStay /\ \A u \in Texts : Fresh(u)' => Fresh(u)
  BY DEF CallsStay, Fresh
<1>5. cur \in 1..used
  BY Registry DEF TypeInv
<1>6. Adds
  BY AddsNone DEF Adds
<1> QED  BY <1>2, <1>3, <1>4, <1>5, <1>6, MoveOne

\* A cancel drops texts, and the agent gets nothing of it.
LEMMA CancelTexts ==
  ASSUME TypeInv, TextInv, CancelTurn \/ CancelEarly \/ EndCancels PROVE TextInv'
<1>1. cur # NoRun /\ cur \in 1..used /\ cur \in 0..MaxRuns /\ run[cur] \in RunRecord
  BY Registry DEF CancelTurn, CancelEarly, EndCancels, TypeInv
<1>2. /\ chat' = chat /\ table' = table /\ cur' = cur /\ ends' = ends /\ msg' = msg /\ got' = got
      /\ unsure' = unsure
  BY DEF CancelTurn, CancelEarly, EndCancels
<1>3. end'.st = "turn" => end'.run = last
  BY <1>1 DEF CancelTurn, CancelEarly, EndCancels, TextInv, LineInv
<1>4. cur = last
  BY <1>1 DEF TextInv, LineInv
<1>5. CASE CancelTurn \/ EndCancels
  <2> DEFINE x == [run[cur] EXCEPT !.cancelAsked = TRUE, !.unsent = <<>>]
  <2>1. /\ x \in RunRecord /\ x.unsent = <<>> /\ x.steering = run[cur].steering
        /\ x.injected = run[cur].injected /\ x.created = run[cur].created /\ x.prev = run[cur].prev
        /\ x.awaits = run[cur].awaits /\ x.reopened = run[cur].reopened /\ x.pc = run[cur].pc /\ x.proc = run[cur].proc
        /\ x.turning = run[cur].turning /\ x.reaches = run[cur].reaches
        /\ x.pickRelaunch = run[cur].pickRelaunch /\ x.session = run[cur].session
    <3>0. <<>> \in Seq(Texts)
      OBVIOUS
    <3>1. x \in RunRecord
      BY <1>1, <3>0 DEF RunRecord
    <3>2. /\ x.unsent = <<>> /\ x.steering = run[cur].steering
          /\ x.injected = run[cur].injected /\ x.created = run[cur].created /\ x.prev = run[cur].prev
      BY <1>1 DEF RunRecord
    <3>3. /\ x.awaits = run[cur].awaits /\ x.reopened = run[cur].reopened /\ x.pc = run[cur].pc /\ x.proc = run[cur].proc
          /\ x.turning = run[cur].turning /\ x.reaches = run[cur].reaches
          /\ x.pickRelaunch = run[cur].pickRelaunch /\ x.session = run[cur].session
      BY <1>1 DEF RunRecord
    <3> QED  BY <3>1, <3>2, <3>3
  <2>2. run[cur].reaches
    BY <1>5 DEF CancelTurn, EndCancels
  <2>3. stored
    BY <1>1, <2>2 DEF TextInv, StoredInv, Unstored
  <2>4. CancelOpenWrites(x, cur, "none") \in Seq(Addable) /\ CancelOpenWrites(run[cur], cur, "end") \in Seq(Addable)
    BY <1>1, <1>4, <2>1, CancelOpenAdds
  <2>5. \/ run' = [run EXCEPT ![cur] = x] /\ writes' = writes
        \/ run' = [run EXCEPT ![cur] = CancelOpen(x)] /\ writes' = writes \o CancelOpenWrites(x, cur, "none")
        \/ run' = [run EXCEPT ![cur] = CancelOpen(x)] /\ writes' = writes \o CancelOpenWrites(run[cur], cur, "end")
    BY <1>5 DEF CancelTurn, EndCancels
  <2> HIDE DEF x
  <2> PICK y, s, u : y = x /\ s = CancelOpenWrites(x, cur, "none") /\ u = CancelOpenWrites(run[cur], cur, "end")
    OBVIOUS
  <2>6. /\ y \in RunRecord /\ y.unsent = <<>> /\ y.steering = run[cur].steering
        /\ y.injected = run[cur].injected /\ y.created = run[cur].created /\ y.prev = run[cur].prev
        /\ y.awaits = run[cur].awaits /\ y.reopened = run[cur].reopened /\ y.pc = run[cur].pc /\ y.proc = run[cur].proc
        /\ y.turning = run[cur].turning /\ y.reaches = run[cur].reaches
        /\ y.pickRelaunch = run[cur].pickRelaunch /\ y.session = run[cur].session
    BY <2>1
  <2>7. s \in Seq(Addable) /\ u \in Seq(Addable)
    BY <2>4
  <2>8. run' = [run EXCEPT ![cur] = y] \/ run' = [run EXCEPT ![cur] = CancelOpen(y)]
    BY <2>5
  <2>9. writes' = writes \/ writes' = writes \o s \/ writes' = writes \o u
    BY <2>5
  <2>10. CASE writes' = writes \/ writes' = writes \o s
    BY <1>1, <1>2, <1>3, <2>3, <2>6, <2>7, <2>8, <2>10, CancelOneTexts
  <2>11. CASE writes' = writes \o u
    BY <1>1, <1>2, <1>3, <2>3, <2>6, <2>7, <2>8, <2>11, CancelOneTexts
  <2> QED  BY <2>9, <2>10, <2>11
<1>6. CASE CancelEarly
  <2> DEFINE x == [run[cur] EXCEPT !.cancelledEarly = TRUE, !.earlyCancels = @ + 1,
                                   !.unsent = IF answers.answered THEN <<>> ELSE @]
  <2>1. /\ x \in RunRecord /\ (x.unsent = run[cur].unsent \/ x.unsent = <<>>) /\ x.steering = run[cur].steering
        /\ x.injected = run[cur].injected /\ x.created = run[cur].created /\ x.prev = run[cur].prev
        /\ x.awaits = run[cur].awaits /\ x.reopened = run[cur].reopened /\ x.pc = run[cur].pc /\ x.proc = run[cur].proc
        /\ x.turning = run[cur].turning /\ x.reaches = run[cur].reaches
        /\ x.pickRelaunch = run[cur].pickRelaunch /\ x.session = run[cur].session
    <3> DEFINE u == IF answers.answered THEN <<>> ELSE run[cur].unsent
    <3>0. u \in Seq(Texts) /\ u \in {<<>>, run[cur].unsent}
      BY <1>1 DEF RunRecord
    <3> DEFINE n == run[cur].earlyCancels + 1
    <3>1. x = [run[cur] EXCEPT !.cancelledEarly = TRUE, !.earlyCancels = n, !.unsent = u] /\ n \in Nat
      BY <1>1 DEF RunRecord
    <3> HIDE DEF n, u, x
    <3>2. x \in RunRecord
      BY <1>1, <3>0, <3>1 DEF RunRecord
    <3>3. /\ x.unsent = u /\ x.steering = run[cur].steering
          /\ x.injected = run[cur].injected /\ x.created = run[cur].created /\ x.prev = run[cur].prev
      BY <1>1, <3>1 DEF RunRecord
    <3>4. /\ x.awaits = run[cur].awaits /\ x.reopened = run[cur].reopened /\ x.pc = run[cur].pc /\ x.proc = run[cur].proc
          /\ x.turning = run[cur].turning /\ x.reaches = run[cur].reaches
          /\ x.pickRelaunch = run[cur].pickRelaunch /\ x.session = run[cur].session
      BY <1>1, <3>1 DEF RunRecord
    <3> QED  BY <3>0, <3>2, <3>3, <3>4
  <2>2. ~stored => cancelled' = cancelled
    BY <1>6 DEF CancelEarly, TextInv, StoredInv
  <2>3. CancelOpenWrites(run[cur], cur, "none") \in Seq(Addable)
    BY <1>1, CancelOpenAdds
  <2>4. run' = [run EXCEPT ![cur] = CancelOpen(x)] /\ writes' = writes \o CancelOpenWrites(run[cur], cur, "none")
    BY <1>6 DEF CancelEarly
  <2> HIDE DEF x
  <2> PICK y, s : y = x /\ s = CancelOpenWrites(run[cur], cur, "none")
    OBVIOUS
  <2>5. /\ y \in RunRecord /\ (y.unsent = run[cur].unsent \/ y.unsent = <<>>) /\ y.steering = run[cur].steering
        /\ y.injected = run[cur].injected /\ y.created = run[cur].created /\ y.prev = run[cur].prev
        /\ y.awaits = run[cur].awaits /\ y.reopened = run[cur].reopened /\ y.pc = run[cur].pc /\ y.proc = run[cur].proc
        /\ y.turning = run[cur].turning /\ y.reaches = run[cur].reaches
        /\ y.pickRelaunch = run[cur].pickRelaunch /\ y.session = run[cur].session
    BY <2>1
  <2>6. s \in Seq(Addable) /\ writes' = writes \o s /\ run' = [run EXCEPT ![cur] = CancelOpen(y)]
    BY <2>3, <2>4
  <2> QED  BY <1>1, <1>2, <1>3, <2>2, <2>5, <2>6, CancelOneTexts
<1> QED  BY <1>5, <1>6

-----------------------------------------------------------------------------
(* The queue of the writes, and the texts of the log. *)

LEMMA AppendOnce ==
  ASSUME NEW s \in Seq(Texts), NEW t \in Texts
  PROVE  /\ ToSet(Append(s, t)) = ToSet(s) \union {t}
         /\ NoDup(s) /\ t \notin ToSet(s) => NoDup(Append(s, t))
         /\ Append(s, t) \in Seq(Texts) /\ s \o <<t>> = Append(s, t)
<1> DEFINE u == Append(s, t)
<1>1. u \in Seq(Texts) /\ s \o <<t>> = u /\ Len(u) = Len(s) + 1 /\ Len(s) \in Nat
      /\ u[Len(s) + 1] = t /\ \A i \in 1..Len(s) : u[i] = s[i]
  OBVIOUS
<1> HIDE DEF u
<1>2. ToSet(u) = {u[i] : i \in 1..Len(u)} /\ ToSet(s) = {s[i] : i \in 1..Len(s)}
  BY <1>1 DEF ToSet
<1>3. ToSet(u) = ToSet(s) \union {t}
  <2>1. ASSUME NEW x \in ToSet(u) PROVE x \in ToSet(s) \union {t}
    <3>1. PICK i \in 1..Len(u) : x = u[i]
      BY <1>2
    <3>2. CASE i \in 1..Len(s)
      BY <1>1, <1>2, <3>1, <3>2
    <3>3. CASE i = Len(s) + 1
      BY <1>1, <3>1, <3>3
    <3> QED  BY <1>1, <3>2, <3>3
  <2>2. ToSet(s) \subseteq ToSet(u)
    <3> SUFFICES ASSUME NEW x \in ToSet(s) PROVE x \in ToSet(u)
      OBVIOUS
    <3>1. PICK i \in 1..Len(s) : x = s[i]
      BY <1>2
    <3>2. i \in 1..Len(u) /\ x = u[i]
      BY <1>1, <3>1
    <3> QED  BY <1>2, <3>2
  <2>3. t \in ToSet(u)
    <3>1. Len(s) + 1 \in 1..Len(u) /\ t = u[Len(s) + 1]
      BY <1>1
    <3> QED  BY <1>2, <3>1
  <2> QED  BY <2>1, <2>2, <2>3
<1>4. NoDup(s) /\ t \notin ToSet(s) => NoDup(u)
  <2> SUFFICES ASSUME NoDup(s), t \notin ToSet(s), NEW i \in 1..Len(u), NEW j \in 1..Len(u), i # j
               PROVE  u[i] # u[j]
    BY DEF NoDup
  <2>1. \A k \in 1..Len(s) : u[k] # t
    BY <1>1, <1>2
  <2>2. \A k \in 1..Len(u) : k \in 1..Len(s) \/ k = Len(s) + 1
    BY <1>1
  <2>3. CASE i \in 1..Len(s) /\ j \in 1..Len(s)
    BY <1>1, <2>3 DEF NoDup
  <2> QED  BY <1>1, <2>1, <2>2, <2>3
<1> QED  BY <1>1, <1>3, <1>4 DEF u

\* The text of the next write.
HeadText == Head(writes).ev.text[1]

LEMMA HeadFits ==
  ASSUME TypeInv, CallsOnce, writes # <<>>
  PROVE  /\ Head(writes) \in Write /\ Head(writes) = writes[1] /\ 1 \in 1..Len(writes)
         /\ UserFits(Head(writes))
         /\ IsCall(Head(writes)) => HeadText \in Texts /\ Head(writes).ev.text = <<HeadText>>
<1>1. Head(writes) \in Write /\ Head(writes) = writes[1] /\ 1 \in 1..Len(writes)
  BY DEF TypeInv, TypeOK
<1>2. UserFits(Head(writes))
  BY <1>1 DEF CallsOnce
<1>3. ASSUME IsCall(Head(writes)) PROVE HeadText \in Texts /\ Head(writes).ev.text = <<HeadText>>
  <2>1. Len(Head(writes).ev.text) = 1
    BY <1>2, <1>3 DEF UserFits
  <2>2. Head(writes).ev.text \in Seq(Texts)
    BY <1>1 DEF Write, Event
  <2> QED  BY <2>1, <2>2 DEF HeadText
<1> QED  BY <1>1, <1>2, <1>3

\* What a write does to the texts of the log.
LEMMA LoggedAnswers ==
  ASSUME TypeInv, CallsOnce, writes # <<>>, Logged(Head(writes).ev)
  PROVE  /\ IsCall(Head(writes)) =>
              /\ answers'.unanswered = Append(answers.unanswered, HeadText)
              /\ answers'.answered = answers.answered
         /\ ~IsCall(Head(writes)) =>
              /\ answers'.unanswered \in {answers.unanswered, <<>>}
              /\ answers'.answered = (answers.answered \/ IsAnswer(Head(writes).ev))
              /\ ~answers'.answered => answers' = answers
         /\ NoDup(answers'.unanswered)
<1>1. answers \in Answers /\ answers.answered \in BOOLEAN /\ answers.unanswered \in Seq(Texts)
  BY DEF TypeInv, TypeOK, Answers
<1> DEFINE e == Head(writes).ev
<1>2. answers' = answers \/ answers' = TrackAnswers(answers, e)
  BY DEF Logged
<1>3. ASSUME IsCall(Head(writes))
      PROVE  answers'.unanswered = Append(answers.unanswered, HeadText) /\ answers'.answered = answers.answered
             /\ NoDup(answers'.unanswered)
  <2>1. e.kind = "user" /\ e.text = <<HeadText>> /\ HeadText \in Texts /\ HeadText \notin ToSet(answers.unanswered)
    BY <1>3, HeadFits DEF UserFits, HeadText
  <2>2. answers' = TrackAnswers(answers, e)
    BY <2>1 DEF Logged
  <2>3. answers' = [answers EXCEPT !.unanswered = answers.unanswered \o <<HeadText>>]
    BY <2>1, <2>2 DEF TrackAnswers, IsAnswer
  <2>4. answers.unanswered \o <<HeadText>> = Append(answers.unanswered, HeadText)
    BY <1>1, <2>1, AppendOnce
  <2>5. answers'.unanswered = Append(answers.unanswered, HeadText) /\ answers'.answered = answers.answered
    BY <1>1, <2>3, <2>4 DEF Answers
  <2> QED  BY <1>1, <2>1, <2>5, AppendOnce DEF CallsOnce
<1>4. ASSUME ~IsCall(Head(writes))
      PROVE  /\ answers'.unanswered \in {answers.unanswered, <<>>}
             /\ answers'.answered = (answers.answered \/ IsAnswer(e))
             /\ ~answers'.answered => answers' = answers
  <2>1. e.kind # "user"
    BY <1>4, HeadFits DEF UserFits
  <2>2. CASE IsAnswer(e)
    <3>1. answers' = TrackAnswers(answers, e)
      BY <2>2 DEF Logged, IsAnswer
    <3>2. answers' = [answered |-> TRUE, unanswered |-> <<>>]
      BY <2>1, <2>2, <3>1 DEF TrackAnswers, IsAnswer
    <3> QED  BY <2>2, <3>2
  <2>3. CASE ~IsAnswer(e)
    <3>1. answers' = answers \/ (answers.answered /\ answers' = [answers EXCEPT !.unanswered = <<>>])
      BY <1>2, <2>1, <2>3 DEF TrackAnswers
    <3> QED  BY <1>1, <2>3, <3>1 DEF Answers
  <2> QED  BY <2>2, <2>3
<1>5. NoDup(answers'.unanswered)
  <2>1. CASE IsCall(Head(writes))
    BY <1>3, <2>1
  <2>2. CASE ~IsCall(Head(writes))
    BY <1>4, <2>2 DEF CallsOnce, NoDup
  <2> QED  BY <2>1, <2>2
<1> QED  BY <1>3, <1>4, <1>5

\* A message calls its write.
LEMMA CallsAppend ==
  ASSUME TypeInv, CallsOnce, used' = used, answers' = answers,
         NEW t \in Texts, NEW r \in 1..used, NEW cont \in {"call", "hold"},
         writes' = Append(writes, WThen(UserEvent(t), r, cont)),
         t \notin ToSet(answers.unanswered), msg[t].st \notin {"write", "call"},
         msg'[t].st = (IF cont = "call" THEN "call" ELSE "write"), \A u \in Texts \ {t} : msg'[u] = msg[u]
  PROVE  CallsOnce'
<1> DEFINE w == WThen(UserEvent(t), r, cont)
<1>1. writes \in Seq(Write) /\ Len(writes') = Len(writes) + 1 /\ Len(writes) \in Nat
      /\ writes'[Len(writes) + 1] = w /\ \A i \in 1..Len(writes) : writes'[i] = writes[i]
  BY DEF TypeInv, TypeOK
<1>2. IsCall(w) /\ w.ev.kind = "user" /\ w.by = r /\ w.cont = cont /\ Len(w.ev.text) = 1 /\ w.ev.text[1] = t
  BY DEF WThen, UserEvent, Plain, IsCall
<1> HIDE DEF w
<1>3. \A i \in 1..Len(writes') : i \in 1..Len(writes) \/ i = Len(writes) + 1
  BY <1>1
<1>4. \A i \in 1..Len(writes) : UserFits(writes[i]) /\ writes[i] \in Write
  BY <1>1 DEF CallsOnce
<1>5. ASSUME NEW i \in 1..Len(writes), IsCall(writes[i])
      PROVE  writes[i].ev.text[1] \in Texts \ {t}
  <2>1. writes[i].ev.text[1] \in Texts
    BY <1>4, <1>5 DEF UserFits, Write, Event
  <2>2. msg[writes[i].ev.text[1]].st \in {"call", "write"}
    BY <1>4, <1>5 DEF UserFits
  <2> QED  BY <2>1, <2>2
<1>6. ASSUME NEW i \in 1..Len(writes') PROVE UserFits(writes[i])'
  <2>1. CASE i \in 1..Len(writes)
    <3>1. UserFits(writes[i]) /\ writes'[i] = writes[i]
      BY <1>1, <1>4, <2>1
    <3>2. CASE IsCall(writes[i])
      <4>1. msg'[writes[i].ev.text[1]] = msg[writes[i].ev.text[1]]
        BY <1>5, <2>1, <3>2
      <4> QED  BY <3>1, <3>2, <4>1 DEF UserFits
    <3>3. CASE ~IsCall(writes[i])
      BY <3>1, <3>3 DEF UserFits
    <3> QED  BY <3>2, <3>3
  <2>2. CASE i = Len(writes) + 1
    <3>1. writes'[i] = w
      BY <1>1, <2>2
    <3> QED  BY <1>2, <3>1 DEF UserFits
  <2> QED  BY <1>3, <2>1, <2>2
<1>7. ASSUME NEW i \in 1..Len(writes'), NEW j \in 1..Len(writes'), i # j,
             IsCall(writes'[i]), IsCall(writes'[j])
      PROVE  writes'[i].ev.text[1] # writes'[j].ev.text[1]
  <2>1. CASE i \in 1..Len(writes) /\ j \in 1..Len(writes)
    <3>1. writes'[i] = writes[i] /\ writes'[j] = writes[j]
      BY <1>1, <2>1
    <3>2. IsCall(writes[i]) /\ IsCall(writes[j])
      BY <1>7, <3>1
    <3> QED  BY <1>7, <2>1, <3>1, <3>2 DEF CallsOnce
  <2>2. CASE i \in 1..Len(writes) /\ j = Len(writes) + 1
    BY <1>1, <1>2, <1>5, <1>7, <2>2
  <2>3. CASE j \in 1..Len(writes) /\ i = Len(writes) + 1
    BY <1>1, <1>2, <1>5, <1>7, <2>3
  <2> QED  BY <1>3, <1>7, <2>1, <2>2, <2>3
<1>8. NoDup(answers'.unanswered)
  BY DEF CallsOnce
<1>9. \A i \in 1..Len(writes') : UserFits(writes[i])'
  BY <1>6
<1>10. \A i, j \in 1..Len(writes') :
         i # j /\ IsCall(writes'[i]) /\ IsCall(writes'[j]) => writes'[i].ev.text[1] # writes'[j].ev.text[1]
  BY <1>7
<1> QED  BY <1>8, <1>9, <1>10 DEF CallsOnce

\* The next write is done, or fails.
HeadMessages ==
  \A u \in Texts : msg[u].st \in {"write", "call"} =>
     msg'[u].st = msg[u].st \/ (IsCall(Head(writes)) /\ u = HeadText)
HeadAnswers ==
  /\ ToSet(answers'.unanswered) \subseteq
       ToSet(answers.unanswered) \union (IF IsCall(Head(writes)) THEN {HeadText} ELSE {})
  /\ NoDup(answers'.unanswered)

LEMMA CallsTail ==
  ASSUME TypeInv, CallsOnce, used' = used, writes # <<>>, writes' = Tail(writes), HeadMessages, HeadAnswers
  PROVE  CallsOnce'
<1>1. writes \in Seq(Write)
  BY DEF TypeInv, TypeOK
<1>2. Len(writes') = Len(writes) - 1 /\ Len(writes) \in Nat /\ \A i \in 1..Len(writes') : writes'[i] = writes[i + 1]
  BY <1>1
<1>3. \A i \in 1..Len(writes') : i + 1 \in 1..Len(writes) /\ i + 1 # 1
  BY <1>2
<1>4. Head(writes) = writes[1] /\ 1 \in 1..Len(writes)
  BY HeadFits
<1>5. \A i, j \in 1..Len(writes) :
        i # j /\ IsCall(writes[i]) /\ IsCall(writes[j]) => writes[i].ev.text[1] # writes[j].ev.text[1]
  BY DEF CallsOnce
<1>6. ASSUME NEW i \in 1..Len(writes') PROVE UserFits(writes[i])'
  <2>1. UserFits(writes[i + 1]) /\ writes[i + 1] \in Write /\ writes'[i] = writes[i + 1]
    BY <1>1, <1>2, <1>3 DEF CallsOnce
  <2>2. CASE IsCall(writes[i + 1])
    <3>1. writes[i + 1].ev.text[1] \in Texts
      BY <2>1, <2>2 DEF UserFits, Write, Event
    <3>2. IsCall(Head(writes)) => writes[i + 1].ev.text[1] # HeadText
      BY <1>3, <1>4, <1>5, <2>2 DEF HeadText
    <3>3. msg'[writes[i + 1].ev.text[1]].st = msg[writes[i + 1].ev.text[1]].st
      BY <2>1, <2>2, <3>1, <3>2 DEF UserFits, HeadMessages
    <3>4. writes[i + 1].ev.text[1] \notin ToSet(answers'.unanswered)
      BY <2>1, <2>2, <3>2 DEF UserFits, HeadAnswers
    <3> QED  BY <2>1, <2>2, <3>3, <3>4 DEF UserFits
  <2>3. CASE ~IsCall(writes[i + 1])
    BY <2>1, <2>3 DEF UserFits
  <2> QED  BY <2>2, <2>3
<1>7. ASSUME NEW i \in 1..Len(writes'), NEW j \in 1..Len(writes'), i # j,
             IsCall(writes'[i]), IsCall(writes'[j])
      PROVE  writes'[i].ev.text[1] # writes'[j].ev.text[1]
  <2>1. i + 1 # j + 1 /\ i + 1 \in 1..Len(writes) /\ j + 1 \in 1..Len(writes)
    BY <1>3, <1>7
  <2>2. writes'[i] = writes[i + 1] /\ writes'[j] = writes[j + 1]
    BY <1>2
  <2>3. IsCall(writes[i + 1]) /\ IsCall(writes[j + 1])
    BY <1>7, <2>2
  <2> QED  BY <1>5, <2>1, <2>2, <2>3
<1>8. \A i \in 1..Len(writes') : UserFits(writes[i])'
  BY <1>6
<1>9. \A i, j \in 1..Len(writes') :
        i # j /\ IsCall(writes'[i]) /\ IsCall(writes'[j]) => writes'[i].ev.text[1] # writes'[j].ev.text[1]
  BY <1>7
<1> QED  BY <1>8, <1>9 DEF CallsOnce, HeadAnswers

-----------------------------------------------------------------------------
(* A message that joined a start calls its write. *)

LEMMA RunsStill ==
  ASSUME used' = used, run' = run PROVE RunsLine /\ RunsLess /\ RunsDead
<1>1. \A r \in 1..used : Lines(run[r], run'[r]) /\ Less(run[r], run'[r], unsure') /\ (Dead(run[r]) => Dead(run'[r]))
  BY SameGlides, GlidesParts
<1> QED  BY <1>1 DEF RunsLine, RunsLess, RunsDead

LEMMA LineStill ==
  ASSUME LineInv, run' = run, used' = used, last' = last, ends' = ends, cur' = cur,
         end'.st = "turn" => end'.run = last
  PROVE  LineInv'
<1>1. RunsRest
  BY DEF LineInv, RunsRest
<1> QED  BY <1>1, RunsStill, LineOn

LEMMA HoldWriteTexts ==
  ASSUME TypeInv, TextInv, NEW r \in 1..used, NEW t \in Texts, HoldWrite(r, t) PROVE TextInv'
<1>1. /\ used' = used /\ last' = last /\ ends' = ends /\ end' = end /\ cur' = cur /\ run' = run
      /\ answers' = answers /\ stored' = stored /\ got' = got /\ unsure' = unsure /\ cancelled' = cancelled
      /\ writes' = Append(writes, WThen(UserEvent(t), r, "hold")) /\ msg[t].st = "wait"
      /\ msg' = [msg EXCEPT ![t].st = "write"]
  BY DEF HoldWrite, chat, table, history
<1>2. msg'[t].st = "write" /\ \A u \in Texts \ {t} : msg'[u] = msg[u]
  BY <1>1 DEF TypeInv, TypeOK, Message
<1>3. Fresh(t)
  BY <1>1 DEF Fresh
<1>4. t \notin ToSet(answers.unanswered)
  BY <1>3 DEF TextInv, FreshInv, Has
<1>5. CallsOnce'
  <2>1. msg[t].st \notin {"write", "call"}
    BY <1>1
  <2>2. msg'[t].st = (IF "hold" = "call" THEN "call" ELSE "write")
    BY <1>2
  <2> QED  BY <1>1, <1>2, <1>4, <2>1, <2>2, CallsAppend DEF TextInv, OnceInv
<1>6. LineInv'
  <2>1. end'.st = "turn" => end'.run = last
    BY <1>1 DEF TextInv, LineInv
  <2> QED  BY <1>1, <2>1, LineStill DEF TextInv
<1>7. Fresher
  BY <1>1, <1>2, <1>3 DEF Fresher, Fresh
<1>8. StoredInv'
  <2>1. WThen(UserEvent(t), r, "hold") \in Write /\ ~IsAnswer(WThen(UserEvent(t), r, "hold").ev)
    <3>1. r \in 0..MaxRuns
      BY Registry DEF TypeInv
    <3>2. WThen(UserEvent(t), r, "hold").ev.kind = "user"
      BY DEF WThen, UserEvent, Plain
    <3> QED  BY <3>1, <3>2, HoldWriteType DEF IsAnswer
  <2>2. ~stored => Unspoken'
    BY <1>1, <2>1, UnspokenAppend DEF TextInv, StoredInv
  <2> QED  BY <1>1, <2>2 DEF TextInv, StoredInv
<1>9. NoneGot'
  <2>1. run[r].reopened # "wait"
    BY DEF HoldWrite
  <2>2. ~Waits(r)
    BY <2>1 DEF TextInv, LineInv
  <2> QED  BY <1>1, <2>2 DEF NoneGot, Waits
<1>10. unsure \subseteq unsure'
  BY <1>1
<1> QED  BY <1>1, <1>5, <1>6, <1>7, <1>8, <1>9, <1>10, RunsStill, TextOn

-----------------------------------------------------------------------------
(* The fields that a step of a start or of a turn leaves. *)

Carries(x, y) ==
  /\ y.steering = x.steering /\ y.injected = x.injected /\ y.created = x.created
  /\ y.prev = x.prev /\ y.awaits = x.awaits /\ y.earlyCancels = x.earlyCancels
  /\ y.reaches = x.reaches /\ y.pickRelaunch = x.pickRelaunch /\ y.session = x.session
  /\ x.quiet => y.quiet
  /\ (Connected(y) <=> Connected(x)) /\ (Dead(x) => Dead(y))

LEMMA CarriesOn ==
  ASSUME NEW x, NEW y, NEW z, Carries(x, y), Carries(y, z) PROVE Carries(x, z)
  BY DEF Carries

LEMMA SteadyCarries == ASSUME NEW x, NEW y, Steady(x, y) PROVE Carries(x, y)
  BY DEF Steady, Carries

LEMMA PlaceCarries ==
  ASSUME NEW x \in RunRecord, NEW p \in Places
  PROVE  /\ Carries(x, [x EXCEPT !.pc = p]) /\ [x EXCEPT !.pc = p] \in RunRecord
         /\ [x EXCEPT !.pc = p].pc = p /\ [x EXCEPT !.pc = p].unsent = x.unsent
         /\ [x EXCEPT !.pc = p].turning = x.turning
  BY DEF Carries, RunRecord, Connected, Dead

LEMMA RunTurnFields ==
  ASSUME NEW x \in RunRecord
  PROVE  /\ Carries(x, RunTurn(x)) /\ RunTurn(x).unsent = <<>> /\ RunTurn(x).turning = x.turning
         /\ RunTurn(x).pc \in {"prompt", "over"}
<1> DEFINE y == [x EXCEPT !.unsent = <<>>, !.cancelAsked = FALSE, !.turnCancelled = FALSE]
<1>1. <<>> \in Seq(Texts)
  OBVIOUS
<1>2. y \in RunRecord
  BY <1>1 DEF RunRecord
<1>3. Carries(x, y) /\ y.unsent = <<>> /\ y.turning = x.turning
  BY DEF Carries, RunRecord, Connected, Dead
<1> HIDE DEF y
<1>4. CASE Connected(x)
  <2>1. RunTurn(x) = [y EXCEPT !.pc = "prompt"]
    BY <1>4 DEF RunTurn, y
  <2>2. "prompt" \in Places
    BY DEF Places, AtAgent
  <2> QED  BY <1>2, <1>3, <2>1, <2>2, PlaceCarries, CarriesOn
<1>5. CASE ~Connected(x)
  <2> DEFINE z == [y EXCEPT !.pc = "over"]
  <2>1. RunTurn(x) = EndProcess(z)
    BY <1>5 DEF RunTurn, y
  <2>2. "over" \in Places
    BY DEF Places
  <2>3. z \in RunRecord /\ Carries(y, z) /\ z.pc = "over" /\ z.unsent = y.unsent /\ z.turning = y.turning
    BY <1>2, <2>2, PlaceCarries
  <2> HIDE DEF z
  <2>4. Steady(z, EndProcess(z))
    BY <2>3, EndProcessSteady
  <2>5. Carries(z, EndProcess(z))
    BY <2>4, SteadyCarries
  <2>6. Carries(x, EndProcess(z))
    <3>1. Carries(x, z)
      BY <1>3, <2>3, CarriesOn
    <3> QED  BY <2>5, <3>1, CarriesOn
  <2> QED  BY <1>3, <2>1, <2>3, <2>4, <2>6 DEF Steady
<1> QED  BY <1>4, <1>5

LEMMA EndTurnFields ==
  ASSUME NEW x \in RunRecord
  PROVE  /\ Carries(x, EndTurn(x)) /\ EndTurn(x).unsent = x.unsent /\ EndTurn(x).turning = FALSE
         /\ EndTurn(x).pc \in {"idle", "over"}
<1>2. CASE x.quiet
  <2>1. EndTurn(x) = [x EXCEPT !.turning = FALSE, !.pc = "over", !.open = x.open]
    BY <1>2 DEF EndTurn, RunRecord
  <2> DEFINE y == [x EXCEPT !.turning = FALSE, !.pc = "over", !.open = x.open]
  <2>3. /\ Carries(x, y) /\ y.unsent = x.unsent /\ y.turning = FALSE /\ y.pc = "over"
    BY DEF Carries, RunRecord, Connected, Dead
  <2> QED  BY <2>1, <2>3
<1>3. CASE ~x.quiet
  <2> DEFINE y == [x EXCEPT !.turning = FALSE, !.pc = "idle", !.open = {}]
  <2>1. EndTurn(x) = Touch(y)
    BY <1>3 DEF EndTurn
  <2>2. y \in RunRecord /\ Carries(x, y) /\ y.unsent = x.unsent /\ y.turning = FALSE /\ y.pc = "idle"
    <3>1. "idle" \in Places
      BY DEF Places
    <3>2. y \in RunRecord
      BY <3>1 DEF RunRecord
    <3> QED  BY <3>2 DEF Carries, RunRecord, Connected, Dead
  <2> HIDE DEF y
  <2>3. Steady(y, Touch(y))
    BY <2>2, TouchSteady
  <2>4. Carries(x, Touch(y))
    <3>1. Carries(y, Touch(y))
      BY <2>3, SteadyCarries
    <3> QED  BY <2>2, <3>1, CarriesOn
  <2> QED  BY <2>1, <2>2, <2>3, <2>4 DEF Steady
<1> QED  BY <1>2, <1>3

-----------------------------------------------------------------------------
(* A start that takes the texts of the log. *)

LEMMA RefillOn ==
  ASSUME TypeInv, TextInv, NEW r \in 1..used, Holder(r), NEW y, run' = [run EXCEPT ![r] = y],
         \A t \in Texts : got'[t] = 0, used' = used, answers' = answers, stored' = stored,
         Lines(run[r], y), y.steering = {}, y.injected = {}, Form(y),
         y.unsent \in {run[r].unsent, answers.unanswered, <<>>},
         LineInv', Adds, CallsStay, \A t \in Texts : Fresh(t)' => Fresh(t),
         ~stored => cancelled' = {} /\ (Unstored(run[r]) => Unstored(y))
  PROVE  TextInv'
<1>1. \A s \in 1..used : s \in Runs
  BY Registry DEF TypeInv
<1>2. run'[r] = y /\ \A s \in 1..used : s # r => run'[s] = run[s]
  BY <1>1 DEF TypeInv, TypeOK
<1>3. FormInv'
  BY <1>2 DEF TextInv, FormInv
<1>4. StoredInv'
  <2> SUFFICES ASSUME ~stored
               PROVE  /\ ~answers.answered /\ cancelled' = {} /\ \A t \in Texts : got'[t] = 0
                      /\ \A s \in 1..used : Unstored(run'[s])
                      /\ Unspoken'
    BY DEF StoredInv
  <2>1. Unspoken'
    BY UnspokenAdds DEF TextInv, StoredInv
  <2>2. \A s \in 1..used : Unstored(run'[s])
    BY <1>2 DEF TextInv, StoredInv
  <2> QED  BY <2>1, <2>2 DEF TextInv, StoredInv
<1>5. FreshInv'
  <2> SUFFICES ASSUME NEW t \in Texts, Fresh(t)', Has(t)' PROVE FALSE
    BY DEF FreshInv
  <2>1. ~Has(t)
    BY DEF TextInv, FreshInv
  <2>2. t \notin ToSet(answers.unanswered) /\ \A s \in 1..used : t \notin ToSet(run[s].unsent) \union run[s].steering
    BY <2>1 DEF Has
  <2>3. t \notin ToSet(y.unsent)
    BY <2>2 DEF ToSet
  <2>4. \A s \in 1..used : t \notin ToSet(run'[s].unsent) \union run'[s].steering
    BY <1>2, <2>2, <2>3
  <2> QED  BY <2>2, <2>4 DEF Has
<1>6. OnceInv'
  <2>1. CallsOnce'
    BY CallsAdd DEF TextInv, OnceInv
  <2>2. NoDup(y.unsent)
    BY DEF TextInv, OnceInv, CallsOnce, UnsentOnce, NoDup
  <2>3. UnsentOnce'
    BY <1>2, <2>2 DEF TextInv, OnceInv, UnsentOnce
  <2> QED  BY <2>1, <2>3 DEF OnceInv
<1>7. GotInv'
  <2>1. \A t \in Texts : Ungot(t)'
    BY DEF Ungot
  <2>2. \A s \in 1..used : run'[s].steering \subseteq Texts /\ ToSet(run'[s].unsent) \subseteq Texts
    <3>1. \A s \in 1..used : run[s].steering \subseteq Texts /\ run[s].unsent \in Seq(Texts)
      BY Registry DEF TypeInv, RunRecord
    <3>2. answers.unanswered \in Seq(Texts) /\ <<>> \in Seq(Texts)
      BY DEF TypeInv, TypeOK, Answers
    <3>3. \A s \in Seq(Texts) : ToSet(s) \subseteq Texts
      BY DEF ToSet
    <3> QED  BY <1>2, <3>1, <3>2, <3>3
  <2>3. SteersUngot' /\ HolderUngot'
    BY <2>1, <2>2 DEF SteersUngot, HolderUngot
  <2>4. NoTextTwice'
    BY DEF NoTextTwice
  <2>5. AnewUngot'
    BY DEF AnewUngot
  <2>6. NoneGot'
    BY <1>2 DEF NoneGot, Waits, Holder, Lines
  <2> QED  BY <2>3, <2>4, <2>5, <2>6 DEF GotInv
<1> QED  BY <1>3, <1>4, <1>5, <1>6, <1>7 DEF TextInv

LEMMA MsgStays ==
  ASSUME msg' = msg PROVE CallsStay /\ \A t \in Texts : Fresh(t)' => Fresh(t)
  BY DEF CallsStay, Fresh

\* The run at a place that it reaches only after its start.
LEMMA AtPlaceHolds ==
  ASSUME Base, TextInv, NEW r \in 1..used, Connected(run[r]) PROVE Holder(r)
  BY LiveHolds DEF TextInv, Connected, Dead

LEMMA InitializedTexts ==
  ASSUME Base, TextInv, NEW r \in 1..used, Initialized(r) PROVE TextInv'
<1> DEFINE x == run[r]
<1>1. x \in RunRecord /\ TypeInv /\ Form(x)
  BY Registry DEF TypeInv, Base, TextInv, FormInv
<1>2. /\ used' = used /\ last' = last /\ ends' = ends /\ end' = end /\ cur' = cur /\ msg' = msg /\ writes' = writes
      /\ answers' = answers /\ stored' = stored /\ got' = got /\ unsure' = unsure /\ cancelled' = cancelled
      /\ chat' = chat /\ table' = table /\ history' = history
  BY DEF Initialized, chat, table, history
<1>3. x.pc = "init" /\ Holder(r)
  BY AtPlaceHolds DEF Initialized
<1>4. Adds /\ CallsStay /\ (\A t \in Texts : Fresh(t)' => Fresh(t)) /\ unsure \subseteq unsure'
      /\ (end'.st = "turn" => end'.run = last)
  BY <1>1, <1>2, AddsNone, MsgStays DEF TextInv, LineInv
<1>5. x.steering = {} /\ x.injected = {} /\ ~x.created
  BY <1>1, <1>3 DEF Form, Talking, BeforeSession
<1>6. CASE x.quiet
  <2>1. run' = [run EXCEPT ![r] = [x EXCEPT !.pc = "over"]]
    BY <1>6 DEF Initialized
  <2>2. Glides(x, [x EXCEPT !.pc = "over"])
    BY <1>1, <1>3, PlaceGlides DEF PlaceLeads, Places
  <2>3. Calm
    BY <1>1, <1>2, <1>4, <2>1, <2>2, OneCalm
  <2> QED  BY <1>1, <2>3, CalmTexts
<1>7. CASE ~x.quiet /\ stored
  <2> DEFINE y == [x EXCEPT !.pc = "open"]
  <2>1. run' = [run EXCEPT ![r] = y]
    BY <1>7 DEF Initialized, OpenSession
  <2>2. "open" \in Places
    BY DEF Places, AtAgent
  <2>3. Carries(x, y) /\ y.pc = "open" /\ y.unsent = x.unsent /\ y.turning = x.turning
    BY <1>1, <2>2, PlaceCarries
  <2> HIDE DEF x, y
  <2>4. Lines(x, y) /\ (Dead(x) => Dead(y)) /\ (Off(x) => Off(y))
    BY <1>3, <2>3 DEF Lines, Carries, Off
  <2>5. Less(x, y, unsure')
    <3>1. Form(y) /\ ~Anew(y)
      BY <1>1, <1>3, <1>5, <2>3 DEF Form, Anew, Carries, Opening, BeforeSession, Talking
    <3> QED  BY <2>3, <3>1 DEF Less, Carries
  <2>6. x = run[r]
    BY DEF x
  <2> QED  BY <1>1, <1>2, <1>4, <1>7, <2>1, <2>4, <2>5, <2>6, MoveOne
<1>8. CASE ~x.quiet /\ ~stored
  <2> DEFINE u == answers.unanswered
             z == [x EXCEPT !.unsent = u]
             y == [z EXCEPT !.pc = "create"]
  <2>1. [x EXCEPT !.pc = "create", !.unsent = u] = y
    BY <1>1 DEF RunRecord
  <2>2. run' = [run EXCEPT ![r] = y]
    BY <1>8, <2>1 DEF Initialized, OpenSession
  <2>3. "create" \in Places /\ u \in Seq(Texts)
    BY <1>1 DEF Places, AtAgent, TypeInv, TypeOK, Answers
  <2> HIDE DEF u
  <2>4. z \in RunRecord /\ Carries(x, z) /\ z.unsent = u /\ z.turning = x.turning
    BY <1>1, <2>3 DEF Carries, RunRecord, Connected, Dead
  <2> HIDE DEF z
  <2>5. Carries(z, y) /\ y.pc = "create" /\ y.unsent = u /\ y.turning = x.turning
    BY <2>3, <2>4, PlaceCarries
  <2> HIDE DEF x, y
  <2>6. Carries(x, y)
    BY <2>4, <2>5, CarriesOn
  <2>7. Lines(x, y) /\ (Dead(x) => Dead(y)) /\ (Off(x) => Off(y))
    BY <1>3, <2>5, <2>6 DEF Lines, Carries, Off
  <2>8. Form(y) /\ y.steering = {} /\ y.injected = {}
    BY <1>1, <1>3, <1>5, <2>5, <2>6 DEF Form, Carries, Opening, BeforeSession, Talking
  <2>9. Unstored(x) => Unstored(y)
    BY <2>5, <2>6 DEF Unstored, Carries
  <2>10. x = run[r]
    BY DEF x
  <2>11. LineInv'
    BY <1>1, <1>2, <1>4, <2>2, <2>7, <2>10, LineOne DEF TextInv
  <2>12. (\A t \in Texts : got'[t] = 0) /\ cancelled' = {}
    BY <1>2, <1>8 DEF TextInv, StoredInv
  <2>13. y.unsent \in {run[r].unsent, answers.unanswered, <<>>}
    BY <2>5 DEF u
  <2> QED  BY <1>1, <1>2, <1>3, <1>4, <2>2, <2>7, <2>8, <2>9, <2>10, <2>11, <2>12, <2>13, RefillOn
<1> QED  BY <1>6, <1>7, <1>8

\* A chat that was never answered gets a new session for a lost one.
LEMMA SessionLostTexts ==
  ASSUME Base, TextInv, NEW r \in 1..used, SessionLost(r) PROVE TextInv'
<1> DEFINE x == run[r]
<1>1. x \in RunRecord /\ TypeInv /\ Form(x)
  BY Registry DEF TypeInv, Base, TextInv, FormInv
<1>2. CASE answers.answered
  <2>1. Calm
    BY <1>1, <1>2, FailCalm
  <2> QED  BY <1>1, <2>1, CalmTexts
<1>3. CASE ~answers.answered
  <2>0. /\ used' = used /\ last' = last /\ ends' = ends /\ end' = end /\ cur' = cur /\ msg' = msg /\ writes' = writes
        /\ answers' = answers /\ stored' = stored /\ cancelled' = {} /\ \A t \in Texts : got'[t] = 0
    BY <1>3 DEF SessionLost, chat, table
  <2>1. x.pc = "open" /\ Holder(r)
    BY AtPlaceHolds DEF SessionLost
  <2>2. Adds /\ CallsStay /\ (\A t \in Texts : Fresh(t)' => Fresh(t)) /\ (end'.st = "turn" => end'.run = last)
    BY <1>1, <2>0, AddsNone, MsgStays DEF TextInv, LineInv
  <2>3. x.steering = {} /\ x.injected = {} /\ ~x.created
    BY <1>1, <2>1 DEF Form, Talking, BeforeSession
  <2> DEFINE u == answers.unanswered
             y == [x EXCEPT !.pc = "create", !.unsent = u]
  <2>4. run' = [run EXCEPT ![r] = y]
    BY <1>3 DEF SessionLost, TypeInv, TypeOK
  <2>5. u \in Seq(Texts)
    BY <1>1 DEF TypeInv, TypeOK, Answers
  <2> HIDE DEF u
  <2>6. Carries(x, y) /\ y.pc = "create" /\ y.unsent = u /\ y.turning = x.turning
    BY <1>1 DEF Carries, RunRecord, Connected, Dead
  <2> HIDE DEF x, y
  <2>7. Lines(x, y) /\ (Dead(x) => Dead(y)) /\ (Off(x) => Off(y))
    BY <2>1, <2>6 DEF Lines, Carries, Off
  <2>8. Form(y) /\ y.steering = {} /\ y.injected = {}
    BY <1>1, <2>1, <2>3, <2>6 DEF Form, Carries, Opening, BeforeSession, Talking
  <2>9. Unstored(x) => Unstored(y)
    BY <2>6 DEF Unstored, Carries
  <2>10. x = run[r]
    BY DEF x
  <2>11. LineInv'
    BY <1>1, <2>0, <2>2, <2>4, <2>7, <2>10, LineOne DEF TextInv
  <2>12. y.unsent \in {run[r].unsent, answers.unanswered, <<>>}
    BY <2>6 DEF u
  <2> QED  BY <1>1, <2>0, <2>1, <2>2, <2>4, <2>7, <2>8, <2>9, <2>10, <2>11, <2>12, RefillOn
<1> QED  BY <1>2, <1>3

\* The history begins anew with a new session.
LEMMA SessionCreatedTexts ==
  ASSUME Base, TextInv, NEW r \in 1..used, SessionCreated(r) PROVE TextInv'
<1> DEFINE x == run[r]
           y == [x EXCEPT !.pc = "store", !.created = TRUE]
<1>1. x \in RunRecord /\ TypeInv /\ Form(x) /\ r \in 0..MaxRuns
  BY Registry DEF TypeInv, Base, TextInv, FormInv
<1>2. /\ used' = used /\ last' = last /\ ends' = ends /\ end' = end /\ cur' = cur /\ msg' = msg
      /\ answers' = answers /\ stored' = stored /\ cancelled' = {} /\ \A t \in Texts : got'[t] = 0
      /\ run' = [run EXCEPT ![r] = y] /\ writes' = Append(writes, WThen(Plain("other"), r, "session"))
  BY DEF SessionCreated, chat, table, TypeInv, TypeOK
<1>3. x.pc = "create" /\ Holder(r)
  BY AtPlaceHolds DEF SessionCreated
<1>4. Adds
  <2>1. Plain("other") \in SilentEvents
    BY SilentKinds DEF EventKinds
  <2>2. WThen(Plain("other"), r, "session") \in Addable
    BY <1>1, <2>1, SilentAdds DEF Conts
  <2> QED  BY <1>1, <1>2, <2>2, AddsOne
<1>5. CallsStay /\ (\A t \in Texts : Fresh(t)' => Fresh(t)) /\ (end'.st = "turn" => end'.run = last)
  BY <1>2, MsgStays DEF TextInv, LineInv
<1>6. x.steering = {} /\ x.injected = {}
  BY <1>1, <1>3 DEF Form, Talking, BeforeSession
<1>7. /\ y.steering = x.steering /\ y.injected = x.injected /\ y.created
      /\ y.prev = x.prev /\ y.awaits = x.awaits /\ y.proc = x.proc
      /\ y.reaches = x.reaches /\ y.pickRelaunch = x.pickRelaunch /\ y.session = x.session
      /\ y.pc = "store" /\ y.unsent = x.unsent /\ y.turning = x.turning /\ y.quiet = x.quiet
  BY <1>1 DEF RunRecord
<1> HIDE DEF x, y
<1>8. Lines(x, y) /\ (Dead(x) => Dead(y)) /\ (Off(x) => Off(y))
  BY <1>3, <1>7 DEF Lines, Off, Dead
<1>9. Form(y) /\ y.steering = {} /\ y.injected = {}
  BY <1>1, <1>3, <1>6, <1>7 DEF Form, Opening, BeforeSession, Talking
<1>10. Unstored(x) => Unstored(y)
  BY <1>7 DEF Unstored
<1>11. x = run[r]
  BY DEF x
<1>12. LineInv'
  BY <1>1, <1>2, <1>5, <1>8, <1>11, LineOne DEF TextInv
<1>13. y.unsent \in {run[r].unsent, answers.unanswered, <<>>}
  BY <1>7, <1>11
<1> QED  BY <1>1, <1>2, <1>3, <1>4, <1>5, <1>8, <1>9, <1>10, <1>11, <1>12, <1>13, RefillOn

-----------------------------------------------------------------------------
(* Steps of a run that send nothing. *)

\* The agent process of a start comes to life: nobody waits any more.
LEMMA SpawnTexts ==
  ASSUME Base, TextInv, NEW r \in 1..used, Spawn(r) PROVE TextInv'
<1> DEFINE x == run[r]
           y == [x EXCEPT !.pc = "init", !.proc = "alive", !.idle = "on"]
<1>1. x \in RunRecord /\ TypeInv /\ Form(x)
  BY Registry DEF TypeInv, Base, TextInv, FormInv
<1>2. /\ used' = used /\ last' = last /\ ends' = r /\ end' = end /\ cur' = cur /\ msg' = msg /\ writes' = writes
      /\ answers' = answers /\ stored' = stored /\ got' = got /\ unsure' = unsure /\ cancelled' = cancelled
      /\ run' = [run EXCEPT ![r] = y] /\ x.pc = "launch" /\ ~x.quiet
  BY DEF Spawn, chat, table, history, TypeInv, TypeOK
<1>3. /\ y.steering = x.steering /\ y.injected = x.injected /\ y.created = x.created
      /\ y.prev = x.prev /\ y.awaits = x.awaits /\ y.proc = "alive"
      /\ y.reaches = x.reaches /\ y.pickRelaunch = x.pickRelaunch /\ y.session = x.session
      /\ y.pc = "init" /\ y.unsent = x.unsent /\ y.turning = x.turning /\ y.quiet = x.quiet
  BY <1>1 DEF RunRecord
<1>4. x.steering = {} /\ x.injected = {} /\ ~x.created
  BY <1>1, <1>2 DEF Form, Talking, BeforeSession
<1>5. x = run[r]
  BY DEF x
<1> HIDE DEF x, y
<1>6. r = cur /\ r = used /\ used \in Nat
  <2>1. Starting(r)
    BY <1>2, <1>5 DEF Starting, Early
  <2>2. cur = r /\ r # NoRun
    BY <2>1 DEF Base, StartInv, StartIsCurrent, NoRun
  <2> QED  BY <1>1, <2>2, Registry DEF TypeInv, TextInv, LineInv
<1>7. \A s \in 1..used : s # r => ~Waits(s) /\ run'[s] = run[s] /\ Dead(run[s])
  <2> SUFFICES ASSUME NEW s \in 1..used, s # r PROVE ~Waits(s) /\ run'[s] = run[s] /\ Dead(run[s])
    OBVIOUS
  <2>1. s < r /\ ~Waits(r)
    BY <1>2, <1>5, <1>6 DEF Waits
  <2>2. ~Waits(s) /\ Dead(run[s])
    BY <2>1 DEF TextInv, LineInv
  <2>3. s \in Runs
    BY <1>1, Registry DEF TypeInv
  <2> QED  BY <1>1, <1>2, <2>2, <2>3 DEF TypeInv, TypeOK
<1>8. run'[r] = y /\ ~Waits(r)
  <2>1. r \in Runs
    BY <1>1, Registry DEF TypeInv
  <2> QED  BY <1>1, <1>2, <1>5, <2>1 DEF TypeInv, TypeOK, Waits
<1>9. LineInv'
  <2>1. /\ last' = used' /\ (cur' # NoRun => cur' = last')
        /\ end'.st = "turn" => end'.run = last'
    BY <1>2 DEF TextInv, LineInv
  <2>2. \A s \in 1..used' : run'[s].prev = s - 1 /\ ~(Waits(s)')
    BY <1>2, <1>3, <1>5, <1>7, <1>8 DEF TextInv, LineInv, Waits
  <2>3. \A s, q \in 1..used' : s < q => Dead(run'[s])
    <3> SUFFICES ASSUME NEW s \in 1..used', NEW q \in 1..used', s < q PROVE Dead(run'[s])
      OBVIOUS
    <3>1. s \in 1..used /\ s # r
      BY <1>2, <1>6
    <3> QED  BY <1>7, <3>1
  <2>4. \A s \in 1..used' : s # cur' => Off(run'[s])
    BY <1>2, <1>6, <1>7 DEF TextInv, LineInv
  <2> QED  BY <2>1, <2>2, <2>3, <2>4 DEF LineInv
<1>10. Lines(x, y) /\ Less(x, y, unsure')
  <2>1. Form(y) /\ ~Anew(y)
    BY <1>1, <1>2, <1>3, <1>4 DEF Form, Anew, Opening, BeforeSession, Talking
  <2> QED  BY <1>2, <1>3, <2>1 DEF Less, Lines
<1>11. RunsLine /\ RunsLess
  BY <1>1, <1>2, <1>5, <1>10, LessOne
<1>12. ~stored => cancelled' = cancelled /\ \A s \in 1..used : Unstored(run[s]) => Unstored(run'[s])
  <2>1. Unstored(x) => Unstored(y)
    BY <1>3 DEF Unstored
  <2> QED  BY <1>2, <1>5, <1>7, <1>8, <2>1
<1>13. Adds /\ CallsStay /\ (\A t \in Texts : Fresh(t)' => Fresh(t)) /\ unsure \subseteq unsure'
  BY <1>1, <1>2, AddsNone, MsgStays
<1> QED  BY <1>1, <1>2, <1>9, <1>11, <1>12, <1>13, MoveOn

\* The answer to a steer takes its text out of what the agent has still to get.
LEMMA SteerTexts ==
  ASSUME Base, TextInv, NEW r \in 1..used, NEW t \in Texts, SteerAnswered(r, t) PROVE TextInv'
<1> DEFINE x == run[r]
           u == IF t \in x.injected THEN Without(x.unsent, t) ELSE x.unsent
           y == [x EXCEPT !.steering = x.steering \ {t}, !.injected = x.injected \ {t}, !.unsent = u]
<1>1. x \in RunRecord /\ TypeInv /\ Form(x)
  BY Registry DEF TypeInv, Base, TextInv, FormInv
<1>2. /\ used' = used /\ last' = last /\ ends' = ends /\ end' = end /\ cur' = cur /\ msg' = msg /\ writes' = writes
      /\ answers' = answers /\ stored' = stored /\ got' = got /\ unsure' = unsure /\ cancelled' = cancelled
      /\ run' = [run EXCEPT ![r] = y] /\ t \in x.steering
  BY DEF SteerAnswered, chat, table, history, TypeInv, TypeOK
<1>3. Without(x.unsent, t) \in Seq(Texts) /\ x.unsent \in Seq(Texts)
  BY <1>1, WithoutType DEF RunRecord
<1>4. /\ y.steering = x.steering \ {t} /\ y.injected = x.injected \ {t} /\ y.created = x.created
      /\ y.prev = x.prev /\ y.awaits = x.awaits /\ y.reopened = x.reopened /\ y.proc = x.proc
      /\ y.reaches = x.reaches /\ y.pickRelaunch = x.pickRelaunch /\ y.session = x.session
      /\ y.pc = x.pc /\ y.unsent = u /\ y.turning = x.turning /\ y.quiet = x.quiet
  BY <1>1 DEF RunRecord
<1>5. ToSet(u) \subseteq ToSet(x.unsent) \/ ~NoDup(x.unsent)
  BY <1>3, WithoutOnce
<1>6. NoDup(x.unsent)
  BY DEF TextInv, OnceInv, UnsentOnce
<1>7. ToSet(u) \subseteq ToSet(x.unsent) /\ NoDup(u) /\ ToSet(u) \ (x.injected \ {t}) \subseteq ToSet(x.unsent) \ x.injected
  <2>1. CASE t \in x.injected
    <3>1. NoDup(u) /\ ToSet(u) \subseteq ToSet(x.unsent) \ {t}
      BY <1>3, <1>6, <2>1, WithoutOnce
    <3> QED  BY <3>1
  <2>2. CASE t \notin x.injected
    BY <1>6, <2>2
  <2> QED  BY <2>1, <2>2
<1>8. x = run[r]
  BY DEF x
<1> HIDE DEF x, y, u
<1>9. Lines(x, y) /\ (Dead(x) => Dead(y)) /\ (Off(x) => Off(y)) /\ (Unstored(x) => Unstored(y))
  BY <1>4 DEF Lines, Dead, Off, Unstored
<1>10. Less(x, y, unsure')
  <2>1. Form(y) /\ (Anew(y) => Anew(x))
    BY <1>1, <1>4 DEF Form, Anew, Connected
  <2>2. y.steering \ y.injected \subseteq x.steering \ x.injected
    BY <1>4
  <2> QED  BY <1>4, <1>7, <2>1, <2>2 DEF Less
<1>11. Adds /\ CallsStay /\ (\A v \in Texts : Fresh(v)' => Fresh(v)) /\ unsure \subseteq unsure'
       /\ (end'.st = "turn" => end'.run = last)
  BY <1>1, <1>2, AddsNone, MsgStays DEF TextInv, LineInv
<1> QED  BY <1>1, <1>2, <1>8, <1>9, <1>10, <1>11, MoveOne

\* A start that is over before its first prompt, and a turn that the daemon stop ends.
LEMMA StoppedTexts ==
  ASSUME Base, TextInv, NEW r \in 1..used,
         (HeldOver(r) /\ (run[r].quiet \/ stopping)) \/ (NextPrompt(r) /\ stopping)
  PROVE  TextInv'
<1> DEFINE x == run[r]
<1>1. x \in RunRecord /\ TypeInv
  BY Registry DEF TypeInv, Base
<1>2. /\ chat' = chat /\ table' = table /\ history' = history /\ ends' = ends /\ end' = end /\ cur' = cur
      /\ msg' = msg /\ writes' = writes
  BY DEF HeldOver, NextPrompt, chat, table, history
<1>3. x.pc \in {"held", "check"}
  BY DEF HeldOver, NextPrompt
<1> DEFINE z == [x EXCEPT !.pc = "over"]
<1>4. z \in RunRecord /\ Glides(x, z)
  BY <1>1, <1>3, PlaceGlides, PlaceCarries DEF PlaceLeads, Places
<1> HIDE DEF z
<1>5. \E y : run' = [run EXCEPT ![r] = y] /\ Glides(x, y)
  <2>1. CASE HeldOver(r)
    BY <1>4, <2>1 DEF HeldOver, NextPrompt, z
  <2>2. CASE NextPrompt(r)
    <3>1. run' = [run EXCEPT ![r] = [z EXCEPT !.endCheck = FALSE]]
      BY <1>1, <1>3, <2>2 DEF HeldOver, NextPrompt, z
    <3>2. Steady(z, [z EXCEPT !.endCheck = FALSE])
      BY <1>4 DEF Steady, RunRecord, Connected, Dead
    <3>3. Glides(x, [z EXCEPT !.endCheck = FALSE])
      BY <1>4, <3>2, GlidesThen
    <3> QED  BY <3>1, <3>3
  <2> QED  BY <2>1, <2>2
<1>6. Adds
  BY <1>1, <1>2, AddsNone
<1>7. Calm
  BY <1>1, <1>2, <1>5, <1>6, OneCalm
<1> QED  BY <1>1, <1>7, CalmTexts

-----------------------------------------------------------------------------
(* The step after the start, of a turn that was cancelled before its first prompt. *)

LEMMA CancelledTurnFields ==
  ASSUME NEW x \in RunRecord, x.cancelledEarly, NEW y, y = FirstTurn(x)
  PROVE  /\ y.unsent \in {x.unsent, <<>>} /\ y.steering = x.steering /\ y.injected = x.injected
         /\ y.created = x.created /\ y.prev = x.prev /\ y.awaits = x.awaits
         /\ y.pickRelaunch = x.pickRelaunch /\ y.session = x.session
         /\ y.turning = FALSE /\ y.pc \in {"idle", "over"} /\ (Dead(x) => Dead(y))
<1> DEFINE u == IF answers.answered THEN <<>> ELSE x.unsent
           z == [x EXCEPT !.reaches = TRUE, !.unsent = u, !.turnCancelled = TRUE]
<1>1. u \in Seq(Texts) /\ u \in {x.unsent, <<>>}
  <2>1. <<>> \in Seq(Texts)
    OBVIOUS
  <2> QED  BY <2>1 DEF RunRecord
<1>2. y = EndTurn(z)
  <2>1. y = EndTurn([[x EXCEPT !.reaches = TRUE] EXCEPT !.unsent = IF answers.answered THEN <<>> ELSE @,
                                                        !.turnCancelled = TRUE])
    BY DEF FirstTurn
  <2>2. [[x EXCEPT !.reaches = TRUE] EXCEPT !.unsent = IF answers.answered THEN <<>> ELSE @,
                                           !.turnCancelled = TRUE] = z
    BY DEF RunRecord
  <2> QED  BY <2>1, <2>2
<1> HIDE DEF u
<1>3. z \in RunRecord
  BY <1>1 DEF RunRecord
<1>4. /\ z.unsent = u /\ z.steering = x.steering /\ z.injected = x.injected
      /\ z.created = x.created /\ z.prev = x.prev /\ z.awaits = x.awaits
      /\ z.pickRelaunch = x.pickRelaunch /\ z.session = x.session /\ z.proc = x.proc
  BY DEF RunRecord
<1> HIDE DEF z
<1>5. Carries(z, y) /\ y.unsent = z.unsent /\ y.turning = FALSE /\ y.pc \in {"idle", "over"}
  BY <1>2, <1>3, EndTurnFields
<1> QED  BY <1>1, <1>4, <1>5 DEF Carries, Dead

=============================================================================
