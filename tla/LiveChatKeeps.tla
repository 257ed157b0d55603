---------------------------- MODULE LiveChatKeeps ----------------------------
(***************************************************************************)
(* Proofs about one chat, for any events, calls, tags and faults: what the *)
(* daemon holds of its log is the log, the log keeps what was written to   *)
(* it in order, clients are told of each change, and a page shows a part   *)
(* of the log without a gap.                                               *)
(***************************************************************************)
EXTENDS LiveChat, SequenceTheorems, WellFoundedInduction, TLAPS

-----------------------------------------------------------------------------
(* Induction over a length. *)

(* A set of numbers with some element has a least one. *)
LEMMA Least ==
  ASSUME NEW T \in SUBSET Nat, T # {}
  PROVE  \E x \in T : \A y \in T : ~(y < x)
<1> DEFINE R == {p \in Nat \X Nat : p[1] < p[2]}
<1>1. IsWellFoundedOn(R, Nat)
  BY NatLessThanWellFounded DEF OpToRel
<1>2. \A x, y \in Nat : <<y, x>> \in R <=> y < x
  OBVIOUS
<1> HIDE DEF R
<1>3. PICK x \in T : \A y \in T : ~(<<y, x>> \in R)
  BY <1>1, WFMin
<1> QED  BY <1>2, <1>3

(* A set with 0 and the number after each of its numbers holds all. *)
LEMMA Induction ==
  ASSUME NEW S, 0 \in S, \A n \in Nat : n \in S => n + 1 \in S
  PROVE  Nat \subseteq S
<1> DEFINE T == Nat \ S
<1> SUFFICES ASSUME T # {} PROVE FALSE
  OBVIOUS
<1>1. PICK x \in T : \A y \in T : ~(y < x)
  BY Least
<1>2. x # 0 /\ x \in Nat /\ x - 1 \in Nat /\ x - 1 < x
  BY <1>1
<1>3. x - 1 \in S
  BY <1>1, <1>2
<1>4. (x - 1) + 1 \in S /\ (x - 1) + 1 = x
  BY <1>2, <1>3
<1> QED  BY <1>1, <1>4

-----------------------------------------------------------------------------
(* The entries of a log. *)

(* What the scan has kept after each of the first m lines. *)
Scans(f, lines, m) ==
  /\ f \in [0..m -> Seq(Entry)] /\ f[0] = <<>>
  /\ \A n \in 1..m : f[n] = IF Counts(lines, n) THEN Append(f[n - 1], lines[n]) ELSE f[n - 1]

(* The scan of a log is there. *)
LEMMA ScanExists ==
  ASSUME NEW lines \in Seq(Entry)
  PROVE  \E f : Scans(f, lines, Len(lines))
<1> DEFINE S == {m \in Nat : m <= Len(lines) => \E f : Scans(f, lines, m)}
<1>1. 0 \in S
  <2> DEFINE f == [n \in 0..0 |-> <<>>]
  <2>1. f \in [0..0 -> Seq(Entry)] /\ f[0] = <<>>
    OBVIOUS
  <2> HIDE DEF f
  <2>2. Scans(f, lines, 0)
    BY <2>1 DEF Scans
  <2> QED  BY <2>2
<1>2. ASSUME NEW m \in Nat, m \in S  PROVE m + 1 \in S
  <2> SUFFICES ASSUME m + 1 <= Len(lines) PROVE \E f : Scans(f, lines, m + 1)
    OBVIOUS
  <2>1. PICK f : Scans(f, lines, m)
    BY <1>2
  <2> DEFINE new == IF Counts(lines, m + 1) THEN Append(f[m], lines[m + 1]) ELSE f[m]
             g == [n \in 0..(m + 1) |-> IF n = m + 1 THEN new ELSE f[n]]
  <2>2. f \in [0..m -> Seq(Entry)] /\ f[m] \in Seq(Entry) /\ lines[m + 1] \in Entry
    BY <2>1 DEF Scans
  <2>3. new \in Seq(Entry)
    BY <2>2
  <2> HIDE DEF new
  <2>4. g \in [0..(m + 1) -> Seq(Entry)] /\ g[0] = <<>>
    BY <2>1, <2>2, <2>3 DEF Scans
  <2>5. g[m + 1] = new /\ \A n \in 0..m : g[n] = f[n]
    OBVIOUS
  <2> HIDE DEF g
  <2>6. ASSUME NEW n \in 1..(m + 1)
        PROVE  g[n] = IF Counts(lines, n) THEN Append(g[n - 1], lines[n]) ELSE g[n - 1]
    <3>1. CASE n = m + 1
      BY <2>5, <3>1 DEF new
    <3>2. CASE n # m + 1
      <4>1. n \in 1..m /\ n - 1 \in 0..m /\ n \in 0..m
        BY <3>2
      <4> QED  BY <2>1, <2>5, <4>1 DEF Scans
    <3> QED  BY <3>1, <3>2
  <2> QED  BY <2>4, <2>6 DEF Scans
<1> HIDE DEF S
<1>3. Nat \subseteq S
  BY <1>1, <1>2, Induction
<1> QED  BY <1>3 DEF S

(* `Valid` is what the scan has kept at the end. *)
LEMMA ValidIs ==
  ASSUME NEW lines \in Seq(Entry)
  PROVE  \E f : Scans(f, lines, Len(lines)) /\ Valid(lines) = f[Len(lines)]
<1> DEFINE IsKept(f) == f = [n \in 0..Len(lines) |->
                 IF n = 0 THEN <<>>
                 ELSE IF Counts(lines, n) THEN Append(f[n - 1], lines[n]) ELSE f[n - 1]]
           kept == CHOOSE f : IsKept(f)
<1>1. Valid(lines) = kept[Len(lines)]
  BY DEF Valid
<1>2. PICK f : Scans(f, lines, Len(lines))
  BY ScanExists
<1>3. IsKept(f)
  <2> DEFINE g == [n \in 0..Len(lines) |->
                 IF n = 0 THEN <<>>
                 ELSE IF Counts(lines, n) THEN Append(f[n - 1], lines[n]) ELSE f[n - 1]]
  <2>1. f = [n \in 0..Len(lines) |-> f[n]]
    BY <1>2 DEF Scans
  <2>2. ASSUME NEW n \in 0..Len(lines)
        PROVE  f[n] = IF n = 0 THEN <<>>
                      ELSE IF Counts(lines, n) THEN Append(f[n - 1], lines[n]) ELSE f[n - 1]
    <3>1. n = 0 \/ n \in 1..Len(lines)
      OBVIOUS
    <3> QED  BY <1>2, <3>1 DEF Scans
  <2>3. [n \in 0..Len(lines) |-> f[n]] = g
    BY <2>2, Zenon
  <2> QED  BY <2>1, <2>3
<1>4. IsKept(kept)
  <2> HIDE DEF IsKept
  <2>1. IsKept(CHOOSE h : IsKept(h))
    BY <1>3, Zenon
  <2> QED  BY <2>1
<1>5. kept = [n \in 0..Len(lines) |->
                 IF n = 0 THEN <<>>
                 ELSE IF Counts(lines, n) THEN Append(kept[n - 1], lines[n]) ELSE kept[n - 1]]
  BY <1>4, Zenon
<1> HIDE DEF kept
<1>6. \A n \in 0..Len(lines) :
        kept[n] = IF n = 0 THEN <<>>
                  ELSE IF Counts(lines, n) THEN Append(kept[n - 1], lines[n]) ELSE kept[n - 1]
  BY <1>5, Zenon
<1> DEFINE S == {n \in Nat : n <= Len(lines) => kept[n] = f[n]}
<1>7. 0 \in S
  BY <1>2, <1>6 DEF Scans
<1>8. ASSUME NEW n \in Nat, n \in S  PROVE n + 1 \in S
  <2> SUFFICES ASSUME n + 1 <= Len(lines) PROVE kept[n + 1] = f[n + 1]
    OBVIOUS
  <2>1. kept[n] = f[n] /\ n + 1 \in 0..Len(lines) /\ n + 1 # 0 /\ n + 1 \in 1..Len(lines) /\ (n + 1) - 1 = n
    BY <1>8
  <2>2. kept[n + 1] = IF Counts(lines, n + 1) THEN Append(kept[n], lines[n + 1]) ELSE kept[n]
    BY <1>6, <2>1
  <2>3. f[n + 1] = IF Counts(lines, n + 1) THEN Append(f[n], lines[n + 1]) ELSE f[n]
    BY <1>2, <2>1 DEF Scans
  <2> QED  BY <2>1, <2>2, <2>3
<1> HIDE DEF S
<1>9. Nat \subseteq S
  BY <1>7, <1>8, Induction
<1>10. Len(lines) \in S
  BY <1>9
<1>11. kept[Len(lines)] = f[Len(lines)]
  BY <1>10 DEF S
<1> QED  BY <1>1, <1>2, <1>11

(* Two logs with the same first m lines have kept the same after them. *)
LEMMA ScansAgree ==
  ASSUME NEW lines \in Seq(Entry), NEW other \in Seq(Entry), NEW m \in Nat,
         m <= Len(lines), m <= Len(other), \A i \in 1..m : lines[i] = other[i],
         NEW f, Scans(f, lines, Len(lines)), NEW g, Scans(g, other, Len(other))
  PROVE  f[m] = g[m]
<1> DEFINE S == {n \in Nat : n <= m => f[n] = g[n]}
<1>1. 0 \in S
  BY DEF Scans
<1>2. ASSUME NEW n \in Nat, n \in S  PROVE n + 1 \in S
  <2> SUFFICES ASSUME n + 1 <= m PROVE f[n + 1] = g[n + 1]
    OBVIOUS
  <2>1. f[n] = g[n] /\ n + 1 \in 1..m /\ n + 1 \in 1..Len(lines) /\ n + 1 \in 1..Len(other) /\ (n + 1) - 1 = n
    BY <1>2
  <2>2. Counts(lines, n + 1) <=> Counts(other, n + 1)
    BY <2>1 DEF Counts, SeqAt
  <2>3. /\ f[n + 1] = IF Counts(lines, n + 1) THEN Append(f[n], lines[n + 1]) ELSE f[n]
        /\ g[n + 1] = IF Counts(other, n + 1) THEN Append(g[n], other[n + 1]) ELSE g[n]
    BY <2>1 DEF Scans
  <2> QED  BY <2>1, <2>2, <2>3
<1> HIDE DEF S
<1>3. Nat \subseteq S
  BY <1>1, <1>2, Induction
<1> QED  BY <1>3 DEF S

(* Entries with rising numbers above 0. *)
Rising(kept) ==
  /\ kept \in Seq(Entry)
  /\ \A i \in 1..Len(kept) : kept[i].seq > 0
  /\ \A i, j \in 1..Len(kept) : i < j => kept[i].seq < kept[j].seq

(* What the scan has kept of the first n lines: the last number of it is the *)
(* largest of them.                                                          *)
KeptOf(kept, lines, n) ==
  /\ Rising(kept)
  /\ \A j \in 0..n : SeqAt(lines, j) <= LastSeq(kept)
  /\ \E j \in 0..n : SeqAt(lines, j) = LastSeq(kept)

(* The numbers of lines are numbers. *)
LEMMA SeqNat ==
  ASSUME NEW lines \in Seq(Entry)
  PROVE  /\ \A i \in 1..Len(lines) : lines[i] \in Entry /\ lines[i].seq \in Nat
         /\ \A i \in 0..Len(lines) : SeqAt(lines, i) \in Nat
<1>1. \A e \in Entry : e.seq \in Nat
  BY DEF Entry
<1>2. \A i \in 1..Len(lines) : lines[i] \in Entry
  OBVIOUS
<1>3. \A i \in 0..Len(lines) : i = 0 \/ i \in 1..Len(lines)
  OBVIOUS
<1> QED  BY <1>1, <1>2, <1>3 DEF SeqAt

(* The last number of a log bounds the numbers of its entries. *)
LEMMA LastBounds ==
  ASSUME NEW kept, Rising(kept)
  PROVE  LastSeq(kept) \in Nat /\ \A i \in 1..Len(kept) : kept[i].seq <= LastSeq(kept)
<1>1. CASE kept = <<>>
  BY <1>1 DEF LastSeq
<1>2. CASE kept # <<>>
  <2>1. Len(kept) \in Nat \ {0} /\ kept[Len(kept)] \in Entry /\ LastSeq(kept) = kept[Len(kept)].seq
    BY <1>2 DEF Rising, LastSeq
  <2>2. ASSUME NEW i \in 1..Len(kept)  PROVE kept[i].seq <= LastSeq(kept)
    <3>1. i = Len(kept) \/ i < Len(kept)
      BY <2>1
    <3>2. kept[i] \in Entry /\ kept[i].seq \in Nat /\ kept[Len(kept)].seq \in Nat
      BY <2>1, SeqNat DEF Rising
    <3> QED  BY <2>1, <3>1, <3>2 DEF Rising
  <2> QED  BY <2>1, <2>2 DEF Entry
<1> QED  BY <1>1, <1>2

(* An entry above the last number keeps a log rising. *)
LEMMA RisingAppend ==
  ASSUME NEW kept, Rising(kept), NEW e \in Entry, LastSeq(kept) < e.seq
  PROVE  Rising(Append(kept, e)) /\ LastSeq(Append(kept, e)) = e.seq
<1> DEFINE new == Append(kept, e)
<1>1. kept \in Seq(Entry) /\ Len(kept) \in Nat
  BY DEF Rising
<1>2. /\ new \in Seq(Entry) /\ Len(new) = Len(kept) + 1 /\ new[Len(kept) + 1] = e
      /\ \A i \in 1..Len(kept) : new[i] = kept[i]
  BY <1>1
<1>3. LastSeq(new) = e.seq
  BY <1>1, <1>2 DEF LastSeq
<1> HIDE DEF new
<1>4. LastSeq(kept) \in Nat /\ e.seq \in Nat /\ \A i \in 1..Len(kept) : kept[i].seq <= LastSeq(kept)
  BY LastBounds DEF Entry
<1>5. ASSUME NEW i \in 1..Len(new)  PROVE new[i].seq > 0
  <2>1. i \in 1..Len(kept) \/ i = Len(kept) + 1
    BY <1>1, <1>2
  <2> QED  BY <2>1, <1>2, <1>4 DEF Rising
<1>6. ASSUME NEW i \in 1..Len(new), NEW j \in 1..Len(new), i < j  PROVE new[i].seq < new[j].seq
  <2>1. i \in 1..Len(kept) /\ (j \in 1..Len(kept) \/ j = Len(kept) + 1)
    BY <1>1, <1>2, <1>6
  <2>2. CASE j \in 1..Len(kept)
    BY <2>1, <2>2, <1>2, <1>6 DEF Rising
  <2>3. CASE j = Len(kept) + 1
    <3>1. new[j] = e /\ new[i] = kept[i] /\ kept[i].seq \in Nat
      BY <1>1, <1>2, <2>1, <2>3, SeqNat
    <3> QED  BY <3>1, <1>4, <2>1
  <2> QED  BY <2>1, <2>2, <2>3
<1>7. Rising(new)
  BY <1>2, <1>5, <1>6 DEF Rising
<1> QED  BY <1>3, <1>7 DEF new

(* One line more: it counts when its number is above the last one kept. *)
LEMMA CountsAbove ==
  ASSUME NEW lines \in Seq(Entry), NEW kept, NEW n \in Nat, n + 1 <= Len(lines), KeptOf(kept, lines, n)
  PROVE  Counts(lines, n + 1) <=> LastSeq(kept) < lines[n + 1].seq
<1>1. SeqAt(lines, n + 1) = lines[n + 1].seq /\ lines[n + 1].seq \in Nat
  BY SeqNat DEF SeqAt
<1>2. \A j \in 0..n : SeqAt(lines, j) \in Nat
  BY SeqNat
<1>3. LastSeq(kept) \in Nat
  BY LastBounds DEF KeptOf
<1>4. Counts(lines, n + 1) <=> \A j \in 0..n : SeqAt(lines, j) < lines[n + 1].seq
  BY <1>1 DEF Counts
<1>5. PICK k \in 0..n : SeqAt(lines, k) = LastSeq(kept)
  BY DEF KeptOf
<1>6. \A j \in 0..n : SeqAt(lines, j) <= LastSeq(kept)
  BY DEF KeptOf
<1>7. ASSUME LastSeq(kept) < lines[n + 1].seq, NEW j \in 0..n  PROVE SeqAt(lines, j) < lines[n + 1].seq
  BY <1>7, <1>1, <1>2, <1>3, <1>6
<1> QED  BY <1>4, <1>5, <1>7

(* The scan keeps rising numbers, up to the largest of the lines it saw. *)
LEMMA ScanRises ==
  ASSUME NEW lines \in Seq(Entry), NEW f, Scans(f, lines, Len(lines))
  PROVE  \A n \in 0..Len(lines) : KeptOf(f[n], lines, n)
<1> DEFINE S == {n \in Nat : n <= Len(lines) => KeptOf(f[n], lines, n)}
<1>1. 0 \in S
  <2>1. f[0] = <<>> /\ LastSeq(<<>>) = 0 /\ SeqAt(lines, 0) = 0 /\ Rising(<<>>)
    BY DEF Scans, LastSeq, SeqAt, Rising
  <2>2. KeptOf(<<>>, lines, 0)
    BY <2>1 DEF KeptOf
  <2> QED  BY <2>1, <2>2
<1>2. ASSUME NEW n \in Nat, n \in S  PROVE n + 1 \in S
  <2> SUFFICES ASSUME n + 1 <= Len(lines) PROVE KeptOf(f[n + 1], lines, n + 1)
    OBVIOUS
  <2>1. n + 1 \in 1..Len(lines) /\ (n + 1) - 1 = n /\ lines[n + 1] \in Entry
    BY <1>2
  <2> PICK e \in Entry : e = lines[n + 1]
    BY <2>1
  <2> PICK old : old = f[n]
    OBVIOUS
  <2>2. KeptOf(old, lines, n) /\ Rising(old) /\ LastSeq(old) \in Nat /\ e.seq \in Nat
    BY <1>2, LastBounds DEF KeptOf, Entry
  <2>3. f[n + 1] = IF LastSeq(old) < e.seq THEN Append(old, e) ELSE old
    BY <2>1, <2>2, CountsAbove DEF Scans
  <2>4. SeqAt(lines, n + 1) = e.seq
    BY DEF SeqAt
  <2>5. \A j \in 0..(n + 1) : j \in 0..n \/ j = n + 1
    OBVIOUS
  <2>6. \A j \in 0..n : SeqAt(lines, j) <= LastSeq(old) /\ SeqAt(lines, j) \in Nat
    BY <2>1, <2>2, SeqNat DEF KeptOf
  <2>7. CASE LastSeq(old) < e.seq
    <3>1. Rising(Append(old, e)) /\ LastSeq(Append(old, e)) = e.seq
      BY <2>2, <2>7, RisingAppend
    <3> PICK new : new = Append(old, e)
      OBVIOUS
    <3>2. \A j \in 0..(n + 1) : SeqAt(lines, j) <= LastSeq(new)
      BY <2>2, <2>4, <2>5, <2>6, <2>7, <3>1
    <3>3. \E j \in 0..(n + 1) : SeqAt(lines, j) = LastSeq(new)
      BY <2>4, <3>1
    <3> QED  BY <2>3, <2>7, <3>1, <3>2, <3>3 DEF KeptOf
  <2>8. CASE ~(LastSeq(old) < e.seq)
    <3>1. \A j \in 0..(n + 1) : SeqAt(lines, j) <= LastSeq(old)
      BY <2>2, <2>4, <2>5, <2>6, <2>8
    <3>2. \E j \in 0..(n + 1) : SeqAt(lines, j) = LastSeq(old)
      BY <2>2 DEF KeptOf
    <3> QED  BY <2>2, <2>3, <2>8, <3>1, <3>2 DEF KeptOf
  <2> QED  BY <2>7, <2>8
<1> HIDE DEF S
<1>3. Nat \subseteq S
  BY <1>1, <1>2, Induction
<1> QED  BY <1>3 DEF S

(* The entries of a log are entries with rising numbers. *)
LEMMA ValidRises ==
  ASSUME NEW lines \in Seq(Entry)
  PROVE  KeptOf(Valid(lines), lines, Len(lines))
BY ValidIs, ScanRises

(* A log that gets a line has one entry more, or the same ones. *)
LEMMA ValidAppend ==
  ASSUME NEW lines \in Seq(Entry), NEW e \in Entry
  PROVE  Valid(Append(lines, e)) =
           IF LastSeq(Valid(lines)) < e.seq THEN Append(Valid(lines), e) ELSE Valid(lines)
<1> DEFINE more == Append(lines, e)
           n == Len(lines)
<1>1. /\ more \in Seq(Entry) /\ n \in Nat /\ Len(more) = n + 1 /\ more[n + 1] = e
      /\ \A i \in 1..n : more[i] = lines[i]
  OBVIOUS
<1> HIDE DEF more
<1>2. PICK f : Scans(f, lines, n) /\ Valid(lines) = f[n]
  BY ValidIs
<1>3. PICK g : Scans(g, more, Len(more)) /\ Valid(more) = g[Len(more)]
  BY <1>1, ValidIs
<1>4. f[n] = g[n]
  BY <1>1, <1>2, <1>3, ScansAgree
<1>5. KeptOf(g[n], more, n)
  BY <1>1, <1>3, ScanRises
<1>6. Counts(more, n + 1) <=> LastSeq(g[n]) < e.seq
  BY <1>1, <1>5, CountsAbove
<1>7. n + 1 \in 1..Len(more) /\ (n + 1) - 1 = n
  BY <1>1
<1>8. g[n + 1] = IF Counts(more, n + 1) THEN Append(g[n], e) ELSE g[n]
  BY <1>1, <1>3, <1>7 DEF Scans
<1>9. Valid(more) = IF LastSeq(Valid(lines)) < e.seq THEN Append(Valid(lines), e) ELSE Valid(lines)
  BY <1>1, <1>2, <1>3, <1>4, <1>6, <1>8
<1> QED  BY <1>9 DEF more

-----------------------------------------------------------------------------
(* The fold of a log. *)

FoldState == [fold: Fold, stateSeq: Nat]

(* What the fold is after each of the first m entries. *)
Folds(g, entries, m) ==
  /\ g \in [0..m -> FoldState] /\ g[0] = [fold |-> ChatStart, stateSeq |-> 0]
  /\ \A n \in 1..m : g[n] = FoldEntry(g[n - 1], entries[n])

(* An event keeps the shape of a fold. *)
LEMMA FoldChatType ==
  ASSUME NEW f \in Fold, NEW e \in Event
  PROVE  FoldChat(f, e) \in Fold
<1>1. ChatStart \in Fold /\ f.stopped \in Stops
  BY DEF Fold, ChatStart, Stops
<1>2. \A s \in Stops : NothingRuns(f, s) \in Fold
  BY DEF NothingRuns, ChatStart, Fold, Stops
<1>3. e.reqs \subseteq Requests /\ e.job \in BOOLEAN /\ e.own \in BOOLEAN /\ e.kind \in EventKinds
  BY DEF Event
<1>4. "none" \in Stops /\ "failed" \in Stops /\ "continued-outside" \in Stops
  BY DEF Stops
<1>5. CASE e.kind = "user"
  BY <1>5, <1>4 DEF FoldChat, Fold
<1>6. CASE e.kind = "ask"
  BY <1>6, <1>3 DEF FoldChat, Fold
<1>7. CASE e.kind = "resolved"
  BY <1>7, <1>3 DEF FoldChat, Fold
<1>8. CASE e.kind = "background"
  BY <1>8, <1>3 DEF FoldChat, Fold
<1>9. CASE e.kind \in {"turn-end", "turn-cancelled"}
  BY <1>9 DEF FoldChat, Fold
<1>10. CASE e.kind \in {"interrupted", "failed", "continued-outside"}
  BY <1>10, <1>1, <1>2, <1>4 DEF FoldChat
<1>11. CASE e.kind = "resumed"
  BY <1>11, <1>4 DEF FoldChat, Fold
<1>12. CASE e.kind \notin {"user", "ask", "resolved", "background", "turn-end", "turn-cancelled", "interrupted",
                            "failed", "continued-outside", "resumed"}
  BY <1>12 DEF FoldChat
<1> QED  BY <1>5, <1>6, <1>7, <1>8, <1>9, <1>10, <1>11, <1>12

(* One entry more, in its fields. *)
LEMMA FoldEntryIs ==
  ASSUME NEW h \in FoldState, NEW e \in Entry
  PROVE  /\ FoldEntry(h, e) \in FoldState
         /\ FoldEntry(h, e).fold = FoldChat(h.fold, e.ev)
         /\ FoldEntry(h, e).stateSeq =
              IF MovesStateSeq(h.fold, FoldChat(h.fold, e.ev), e.ev) THEN e.seq ELSE h.stateSeq
<1>1. h.fold \in Fold /\ h.stateSeq \in Nat /\ e.ev \in Event /\ e.seq \in Nat
  BY DEF FoldState, Entry
<1> PICK next : next = FoldChat(h.fold, e.ev)
  OBVIOUS
<1>2. next \in Fold
  BY <1>1, FoldChatType
<1> PICK moves : moves = MovesStateSeq(h.fold, next, e.ev)
  OBVIOUS
<1>3. FoldEntry(h, e) = [h EXCEPT !.fold = next, !.stateSeq = IF moves THEN e.seq ELSE @]
  BY Zenon DEF FoldEntry
<1>4. h = [fold |-> h.fold, stateSeq |-> h.stateSeq]
  BY DEF FoldState
<1>5. FoldEntry(h, e) = [fold |-> next, stateSeq |-> IF moves THEN e.seq ELSE h.stateSeq]
  BY <1>3, <1>4
<1> QED  BY <1>1, <1>2, <1>5 DEF FoldState

(* The fold of a log is there. *)
LEMMA FoldsExist ==
  ASSUME NEW entries \in Seq(Entry)
  PROVE  \E g : Folds(g, entries, Len(entries))
<1> DEFINE S == {m \in Nat : m <= Len(entries) => \E g : Folds(g, entries, m)}
<1>1. 0 \in S
  <2> DEFINE g == [n \in 0..0 |-> [fold |-> ChatStart, stateSeq |-> 0]]
  <2>1. [fold |-> ChatStart, stateSeq |-> 0] \in FoldState
    BY DEF FoldState, Fold, ChatStart, Stops
  <2>2. g \in [0..0 -> FoldState] /\ g[0] = [fold |-> ChatStart, stateSeq |-> 0]
    BY <2>1
  <2> HIDE DEF g
  <2>3. Folds(g, entries, 0)
    BY <2>2 DEF Folds
  <2> QED  BY <2>3
<1>2. ASSUME NEW m \in Nat, m \in S  PROVE m + 1 \in S
  <2> SUFFICES ASSUME m + 1 <= Len(entries) PROVE \E g : Folds(g, entries, m + 1)
    OBVIOUS
  <2>1. PICK f : Folds(f, entries, m)
    BY <1>2
  <2> DEFINE new == FoldEntry(f[m], entries[m + 1])
             g == [n \in 0..(m + 1) |-> IF n = m + 1 THEN new ELSE f[n]]
  <2>2. f \in [0..m -> FoldState] /\ f[m] \in FoldState /\ entries[m + 1] \in Entry
    BY <2>1 DEF Folds
  <2>3. new \in FoldState
    BY <2>2, FoldEntryIs
  <2> HIDE DEF new
  <2>4. g \in [0..(m + 1) -> FoldState] /\ g[0] = [fold |-> ChatStart, stateSeq |-> 0]
    BY <2>1, <2>2, <2>3 DEF Folds
  <2>5. g[m + 1] = new /\ \A n \in 0..m : g[n] = f[n]
    OBVIOUS
  <2> HIDE DEF g
  <2>6. ASSUME NEW n \in 1..(m + 1)
        PROVE  g[n] = FoldEntry(g[n - 1], entries[n])
    <3>1. CASE n = m + 1
      <4>1. n - 1 = m /\ m \in 0..m
        BY <3>1
      <4> QED  BY <2>5, <3>1, <4>1 DEF new
    <3>2. CASE n # m + 1
      <4>1. n \in 1..m /\ n - 1 \in 0..m /\ n \in 0..m
        BY <3>2
      <4> QED  BY <2>1, <2>5, <4>1 DEF Folds
    <3> QED  BY <3>1, <3>2
  <2> QED  BY <2>4, <2>6 DEF Folds
<1> HIDE DEF S
<1>3. Nat \subseteq S
  BY <1>1, <1>2, Induction
<1> QED  BY <1>3 DEF S

(* `Folded` is what the fold is at the end. *)
LEMMA FoldedIs ==
  ASSUME NEW entries \in Seq(Entry)
  PROVE  \E g : Folds(g, entries, Len(entries)) /\ Folded(entries) = g[Len(entries)]
<1> DEFINE IsAfter(f) == f = [n \in 0..Len(entries) |->
                 IF n = 0 THEN [fold |-> ChatStart, stateSeq |-> 0] ELSE FoldEntry(f[n - 1], entries[n])]
           after == CHOOSE f : IsAfter(f)
<1>1. Folded(entries) = after[Len(entries)]
  BY DEF Folded
<1>2. PICK f : Folds(f, entries, Len(entries))
  BY FoldsExist
<1>3. IsAfter(f)
  <2> DEFINE g == [n \in 0..Len(entries) |->
                 IF n = 0 THEN [fold |-> ChatStart, stateSeq |-> 0] ELSE FoldEntry(f[n - 1], entries[n])]
  <2>1. f = [n \in 0..Len(entries) |-> f[n]]
    BY <1>2 DEF Folds
  <2>2. ASSUME NEW n \in 0..Len(entries)
        PROVE  f[n] = IF n = 0 THEN [fold |-> ChatStart, stateSeq |-> 0] ELSE FoldEntry(f[n - 1], entries[n])
    <3>1. n = 0 \/ n \in 1..Len(entries)
      OBVIOUS
    <3> QED  BY <1>2, <3>1 DEF Folds
  <2>3. [n \in 0..Len(entries) |-> f[n]] = g
    BY <2>2, Zenon
  <2> QED  BY <2>1, <2>3
<1>4. IsAfter(after)
  <2> HIDE DEF IsAfter
  <2>1. IsAfter(CHOOSE h : IsAfter(h))
    BY <1>3, Zenon
  <2> QED  BY <2>1
<1>5. after = [n \in 0..Len(entries) |->
                 IF n = 0 THEN [fold |-> ChatStart, stateSeq |-> 0] ELSE FoldEntry(after[n - 1], entries[n])]
  BY <1>4, Zenon
<1> HIDE DEF after
<1>6. \A n \in 0..Len(entries) :
        after[n] = IF n = 0 THEN [fold |-> ChatStart, stateSeq |-> 0] ELSE FoldEntry(after[n - 1], entries[n])
  BY <1>5, Zenon
<1> DEFINE S == {n \in Nat : n <= Len(entries) => after[n] = f[n]}
<1>7. 0 \in S
  BY <1>2, <1>6 DEF Folds
<1>8. ASSUME NEW n \in Nat, n \in S  PROVE n + 1 \in S
  <2> SUFFICES ASSUME n + 1 <= Len(entries) PROVE after[n + 1] = f[n + 1]
    OBVIOUS
  <2>1. after[n] = f[n] /\ n + 1 \in 0..Len(entries) /\ n + 1 # 0 /\ n + 1 \in 1..Len(entries) /\ (n + 1) - 1 = n
    BY <1>8
  <2>2. after[n + 1] = FoldEntry(after[n], entries[n + 1])
    BY <1>6, <2>1
  <2>3. f[n + 1] = FoldEntry(f[n], entries[n + 1])
    BY <1>2, <2>1 DEF Folds
  <2> QED  BY <2>1, <2>2, <2>3
<1> HIDE DEF S
<1>9. Nat \subseteq S
  BY <1>7, <1>8, Induction
<1>10. Len(entries) \in S
  BY <1>9
<1>11. after[Len(entries)] = f[Len(entries)]
  BY <1>10 DEF S
<1> QED  BY <1>1, <1>2, <1>11

(* Two logs with the same first m entries have the same fold after them. *)
LEMMA FoldsAgree ==
  ASSUME NEW entries \in Seq(Entry), NEW other \in Seq(Entry), NEW m \in Nat,
         m <= Len(entries), m <= Len(other), \A i \in 1..m : entries[i] = other[i],
         NEW f, Folds(f, entries, Len(entries)), NEW g, Folds(g, other, Len(other))
  PROVE  f[m] = g[m]
<1> DEFINE S == {n \in Nat : n <= m => f[n] = g[n]}
<1>1. 0 \in S
  BY DEF Folds
<1>2. ASSUME NEW n \in Nat, n \in S  PROVE n + 1 \in S
  <2> SUFFICES ASSUME n + 1 <= m PROVE f[n + 1] = g[n + 1]
    OBVIOUS
  <2>1. f[n] = g[n] /\ n + 1 \in 1..m /\ n + 1 \in 1..Len(entries) /\ n + 1 \in 1..Len(other) /\ (n + 1) - 1 = n
    BY <1>2
  <2>2. f[n + 1] = FoldEntry(f[n], entries[n + 1]) /\ g[n + 1] = FoldEntry(g[n], other[n + 1])
    BY <2>1 DEF Folds
  <2> QED  BY <2>1, <2>2
<1> HIDE DEF S
<1>3. Nat \subseteq S
  BY <1>1, <1>2, Induction
<1> QED  BY <1>3 DEF S

(* The fold of a log is a fold, and nothing is folded at the start. *)
LEMMA FoldedType ==
  ASSUME NEW entries \in Seq(Entry)
  PROVE  Folded(entries) \in FoldState
BY FoldedIs DEF Folds

(* The fold of a new log. *)
LEMMA FoldedEmpty == Folded(<<>>) = [fold |-> ChatStart, stateSeq |-> 0]
<1>1. <<>> \in Seq(Entry) /\ Len(<<>>) = 0
  OBVIOUS
<1> QED  BY <1>1, FoldedIs DEF Folds

(* One entry more is one step of the fold. *)
LEMMA FoldedAppend ==
  ASSUME NEW entries \in Seq(Entry), NEW e \in Entry
  PROVE  Folded(Append(entries, e)) = FoldEntry(Folded(entries), e)
<1> DEFINE more == Append(entries, e)
           n == Len(entries)
<1>1. /\ more \in Seq(Entry) /\ n \in Nat /\ Len(more) = n + 1 /\ more[n + 1] = e
      /\ \A i \in 1..n : more[i] = entries[i]
  OBVIOUS
<1> HIDE DEF more
<1>2. PICK f : Folds(f, entries, n) /\ Folded(entries) = f[n]
  BY FoldedIs
<1>3. PICK g : Folds(g, more, Len(more)) /\ Folded(more) = g[Len(more)]
  BY <1>1, FoldedIs
<1>4. f[n] = g[n]
  BY <1>1, <1>2, <1>3, FoldsAgree
<1>5. n + 1 \in 1..Len(more) /\ (n + 1) - 1 = n
  BY <1>1
<1>6. g[n + 1] = FoldEntry(g[n], e)
  BY <1>1, <1>3, <1>5 DEF Folds
<1>7. Folded(more) = FoldEntry(Folded(entries), e)
  BY <1>1, <1>2, <1>3, <1>4, <1>6
<1> QED  BY <1>7 DEF more

(* The first entries of a log. *)
IsStart(short, long) ==
  /\ short \in Seq(Entry) /\ Len(short) <= Len(long)
  /\ \A i \in 1..Len(short) : short[i] = long[i]

(* The number of the last move of the state is never above the last entry. *)
LEMMA FoldBounded ==
  ASSUME NEW entries, Rising(entries), NEW g, Folds(g, entries, Len(entries)), NEW m \in 0..Len(entries)
  PROVE  g[m].stateSeq <= IF m = 0 THEN 0 ELSE entries[m].seq
<1> DEFINE Bound(n) == IF n = 0 THEN 0 ELSE entries[n].seq
           S == {n \in Nat : n <= Len(entries) => g[n].stateSeq <= Bound(n)}
<1>0. entries \in Seq(Entry)
  BY DEF Rising
<1>1. 0 \in S
  BY DEF Folds
<1>2. ASSUME NEW n \in Nat, n \in S  PROVE n + 1 \in S
  <2> SUFFICES ASSUME n + 1 <= Len(entries) PROVE g[n + 1].stateSeq <= entries[n + 1].seq
    OBVIOUS
  <2>1. n + 1 \in 1..Len(entries) /\ (n + 1) - 1 = n /\ n \in 0..Len(entries) /\ (n # 0 => n \in 1..Len(entries))
    BY <1>0
  <2>2. g[n].stateSeq <= Bound(n) /\ g[n] \in FoldState /\ entries[n + 1] \in Entry
    BY <1>0, <1>2, <2>1 DEF Folds
  <2>3. Bound(n) \in Nat /\ Bound(n) <= entries[n + 1].seq /\ entries[n + 1].seq \in Nat
    <3>1. CASE n = 0
      BY <3>1, <2>1, <1>0, SeqNat
    <3>2. CASE n # 0
      <4>1. n < n + 1 /\ entries[n].seq < entries[n + 1].seq
        BY <2>1, <3>2 DEF Rising
      <4> QED  BY <4>1, <3>2, <2>1, <1>0, SeqNat
    <3> QED  BY <3>1, <3>2
  <2> HIDE DEF Bound
  <2>4. g[n + 1] = FoldEntry(g[n], entries[n + 1])
    BY <2>1 DEF Folds
  <2>5. g[n + 1].stateSeq = entries[n + 1].seq \/ g[n + 1].stateSeq = g[n].stateSeq
    BY <2>2, <2>4, FoldEntryIs
  <2>6. g[n].stateSeq \in Nat
    BY <2>2 DEF FoldState
  <2> QED  BY <2>2, <2>3, <2>5, <2>6
<1> HIDE DEF S
<1>3. Nat \subseteq S
  BY <1>1, <1>2, Induction
<1> QED  BY <1>0, <1>3 DEF S

(* A log that grew moved its state, or has the status it had. *)
LEMMA FoldGrows ==
  ASSUME NEW long, Rising(long), NEW short, IsStart(short, long),
         Folded(short).stateSeq = Folded(long).stateSeq
  PROVE  Status(Folded(short).fold) = Status(Folded(long).fold)
<1>0. long \in Seq(Entry) /\ short \in Seq(Entry)
  BY DEF Rising, IsStart
<1>1. PICK g : Folds(g, long, Len(long)) /\ Folded(long) = g[Len(long)]
  BY <1>0, FoldedIs
<1>2. PICK f : Folds(f, short, Len(short)) /\ Folded(short) = f[Len(short)]
  BY <1>0, FoldedIs
<1> PICK s : s = Len(short)
  OBVIOUS
<1>3. s \in Nat /\ s <= Len(long)
  BY <1>0 DEF IsStart
<1>4. f[s] = g[s]
  BY <1>0, <1>1, <1>2, <1>3, FoldsAgree DEF IsStart
<1> DEFINE Same(n) == g[n].stateSeq = g[s].stateSeq /\ Status(g[n].fold) = Status(g[s].fold)
           S == {k \in Nat : s + k <= Len(long) => Same(s + k) \/ g[s + k].stateSeq > g[s].stateSeq}
<1>5. 0 \in S
  BY <1>3
<1>6. ASSUME NEW k \in Nat, k \in S  PROVE k + 1 \in S
  <2> PICK n : n = s + k
    OBVIOUS
  <2> SUFFICES ASSUME n + 1 <= Len(long) PROVE Same(n + 1) \/ g[n + 1].stateSeq > g[s].stateSeq
    <3>1. s + (k + 1) = n + 1
      BY <1>3
    <3> QED  BY <3>1
  <2>1. n \in Nat /\ s <= n /\ n + 1 \in 1..Len(long) /\ (n + 1) - 1 = n /\ n \in 0..Len(long) /\ s \in 0..Len(long)
    BY <1>0, <1>3
  <2>2. Same(n) \/ g[n].stateSeq > g[s].stateSeq
    BY <1>6, <2>1
  <2>3. g[n] \in FoldState /\ g[s] \in FoldState /\ long[n + 1] \in Entry /\ long[n + 1].seq \in Nat
    BY <1>0, <1>1, <2>1, SeqNat DEF Folds
  <2>4. g[s].stateSeq < long[n + 1].seq
    <3>1. g[s].stateSeq <= IF s = 0 THEN 0 ELSE long[s].seq
      BY <1>1, <2>1, FoldBounded
    <3>2. long[n + 1].seq > 0
      BY <2>1 DEF Rising
    <3>3. s # 0 => long[s].seq < long[n + 1].seq /\ long[s].seq \in Nat
      <4>1. s # 0 => s \in 1..Len(long) /\ s < n + 1
        BY <2>1
      <4> QED  BY <2>1, <4>1, <1>0, SeqNat DEF Rising
    <3>4. g[s].stateSeq \in Nat
      BY <2>3 DEF FoldState
    <3> QED  BY <2>3, <3>1, <3>2, <3>3, <3>4
  <2>5. g[n + 1] = FoldEntry(g[n], long[n + 1])
    BY <1>1, <2>1 DEF Folds
  <2> DEFINE e == long[n + 1]
             moves == MovesStateSeq(g[n].fold, FoldChat(g[n].fold, e.ev), e.ev)
  <2>6. g[n + 1].fold = FoldChat(g[n].fold, e.ev) /\ g[n + 1].stateSeq = IF moves THEN e.seq ELSE g[n].stateSeq
    BY <2>3, <2>5, FoldEntryIs
  <2>7. CASE moves
    BY <2>4, <2>6, <2>7
  <2>8. CASE ~moves
    <3>1. Status(g[n + 1].fold) = Status(g[n].fold) /\ g[n + 1].stateSeq = g[n].stateSeq
      BY <2>6, <2>8 DEF MovesStateSeq
    <3> QED  BY <2>2, <3>1
  <2> QED  BY <2>7, <2>8
<1> HIDE DEF S
<1>7. Nat \subseteq S
  BY <1>5, <1>6, Induction
<1>8. Len(long) - s \in Nat /\ s + (Len(long) - s) = Len(long)
  BY <1>0, <1>3
<1>9. Same(Len(long)) \/ g[Len(long)].stateSeq > g[s].stateSeq
  <2> PICK k : k = Len(long) - s
    OBVIOUS
  <2>1. k \in S /\ s + k = Len(long) /\ s + k <= Len(long)
    BY <1>0, <1>7, <1>8
  <2>2. Same(s + k) \/ g[s + k].stateSeq > g[s].stateSeq
    BY <2>1 DEF S
  <2> QED  BY <2>1, <2>2
<1>10. g[s].stateSeq = g[Len(long)].stateSeq /\ g[s].stateSeq \in Nat
  BY <1>0, <1>1, <1>2, <1>3, <1>4 DEF Folds, FoldState
<1> QED  BY <1>1, <1>2, <1>4, <1>9, <1>10

-----------------------------------------------------------------------------
(* The types of the state. *)

JobRecord == [kind: Kinds, ev: Event, to: Nat, call: Nat, pc: {"queued", "waits", "inside", "writes", "checks"},
              todo: SUBSET Requests, tag: Tags]

HandleRecord ==
  [st: {"opening", "live"}, tag: Tags, astray: BOOLEAN, kept: Seq(Entry), stale: BOOLEAN, fold: Fold, stateSeq: Nat]

ReaderRecord == [pc: {"idle", "holds", "again", "got"}, tag: Tags, cursor: Nat, view: Seq(Entry),
                 reply: Seq(Entry), reset: BOOLEAN]

Statuses == {"working", NeedsYou, "failed", "continued-outside"}

(* The type of the state with the names above. *)
LEMMA TypeNames ==
  TypeOK <=>
    /\ disk \in Disk
    /\ place \in Tags \union {"gone"}
    /\ seen \in Nat
    /\ mem = NoHandle \/ mem \in HandleRecord
    /\ jobs \in Seq(JobRecord)
    /\ held \in [Tags -> {"none", "chat", "from", "to"}]
    /\ told \in Statuses
    /\ wake \in BOOLEAN
    /\ reader \in ReaderRecord
    /\ acked \in SUBSET Entry
    /\ calls \in Nat
    /\ left \in [Bounded -> Nat]
BY DEF TypeOK, HandleTypeOK, JobRecord, HandleRecord, ReaderRecord, Statuses

(* A handle that is there is one of the two kinds. *)
LEMMA HandleThere ==
  ASSUME mem = NoHandle \/ mem \in HandleRecord, mem.st # "none"
  PROVE  mem \in HandleRecord
BY DEF NoHandle

(* The queue with another record of its first call. *)
IsReplaced(r, q, j) ==
  /\ r \in Seq(JobRecord) /\ Len(r) = Len(q) /\ r # <<>> /\ Head(r) = j /\ r[1] = j
  /\ \A i \in 2..Len(q) : r[i] = q[i]

(* The queue without its first call. *)
IsShifted(r, q) ==
  /\ r \in Seq(JobRecord) /\ Len(r) = Len(q) - 1
  /\ \A i \in 1..Len(r) : r[i] = q[i + 1]

(* The first call changes. *)
LEMMA Replaces ==
  ASSUME NEW q \in Seq(JobRecord), q # <<>>, NEW j \in JobRecord
  PROVE  IsReplaced(<<j>> \o Tail(q), q, j)
BY DEF IsReplaced

(* The first call ends. *)
LEMMA Shifts ==
  ASSUME NEW q \in Seq(JobRecord), q # <<>>
  PROVE  IsShifted(Tail(q), q)
BY DEF IsShifted

(* The first call is a call. *)
LEMMA HeadIs ==
  ASSUME NEW q \in Seq(JobRecord), q # <<>>
  PROVE  Head(q) \in JobRecord /\ Head(q) = q[1] /\ Len(q) \in Nat /\ Len(q) >= 1
OBVIOUS

(* The status of a fold is one of the statuses. *)
LEMMA StatusType ==
  ASSUME NEW f \in Fold
  PROVE  Status(f) \in Statuses
BY DEF Fold, Status, Statuses, Stops

(* The events that a call writes are events. *)
LEMMA NextEventsType ==
  ASSUME jobs \in Seq(JobRecord), jobs # <<>>
  PROVE  NextEvents \subseteq Event
<1>1. Job \in JobRecord
  BY HeadIs DEF Job
<1>2. Job.ev \in Event /\ Job.todo \subseteq Requests
  BY <1>1 DEF JobRecord
<1>3. Plain("interrupted") \in Event
  BY DEF Plain, Event, EventKinds
<1>4. \A q \in Requests : ResolvedEvent({q}) \in Event
  <2>1. Plain("resolved") \in Event
    BY DEF Plain, Event, EventKinds
  <2>2. \A q \in Requests : {q} \in SUBSET Requests
    OBVIOUS
  <2>3. \A p \in Event, qs \in SUBSET Requests : [p EXCEPT !.reqs = qs] \in Event
    BY DEF Event
  <2> QED  BY <2>1, <2>2, <2>3 DEF ResolvedEvent
<1>5. NextEvents \subseteq {Job.ev} \union {ResolvedEvent({q}) : q \in Job.todo} \union {Plain("interrupted")}
  BY DEF NextEvents
<1>6. {ResolvedEvent({q}) : q \in Job.todo} \subseteq Event
  BY <1>2, <1>4
<1> QED  BY <1>2, <1>3, <1>5, <1>6

(* A failed append leaves a log, with a torn line or the line more, or none. *)
LEMMA LeftByIs ==
  ASSUME NEW d \in Disk, NEW e \in Entry, NEW x \in LeftBy(d, e)
  PROVE  /\ x \in Disk /\ x.synced = d.synced
         /\ x.lines = d.lines \/ x.lines = Append(d.lines, Torn) \/ x.lines = Append(d.lines, e)
<1>1. Torn \in Entry
  BY DEF Torn, Entry, Plain, Event, EventKinds
<1>2. /\ d.lines \in Seq(Entry) /\ d = [lines |-> d.lines, closed |-> d.closed, synced |-> d.synced]
      /\ d.closed \in BOOLEAN /\ d.synced \in Nat
  BY DEF Disk
<1>3. CASE x \in {d, [d EXCEPT !.closed = TRUE]}
  BY <1>2, <1>3 DEF Disk
<1>4. CASE x \in {[d EXCEPT !.lines = Append(d.lines, y), !.closed = FALSE] : y \in {Torn, e}}
  <2>1. PICK y \in {Torn, e} : x = [d EXCEPT !.lines = Append(d.lines, y), !.closed = FALSE]
    BY <1>4
  <2>2. y \in Entry /\ Append(d.lines, y) \in Seq(Entry)
    BY <1>1, <1>2
  <2> QED  BY <1>2, <2>1, <2>2 DEF Disk
<1>5. CASE x = [d EXCEPT !.lines = Append(d.lines, e), !.closed = TRUE]
  <2>1. Append(d.lines, e) \in Seq(Entry)
    BY <1>2
  <2> QED  BY <1>2, <1>5, <2>1 DEF Disk
<1> QED  BY <1>3, <1>4, <1>5 DEF LeftBy

(* An append leaves a log with the line more, all of it flushed. *)
LEMMA WrittenIs ==
  ASSUME NEW d \in Disk, NEW e \in Entry
  PROVE  /\ Written(d, e) \in Disk /\ Written(d, e).lines = Append(d.lines, e)
         /\ Written(d, e).synced = Len(d.lines) + 1
BY DEF Written, Disk

(* The first lines of a log, up to one that is flushed at least, are left by *)
(* the loss of power, and at most a torn line behind them.                   *)
IsCut(x, d) ==
  /\ x \in Disk /\ d.synced <= x.synced /\ x.synced <= Len(x.lines)
  /\ \E n \in d.synced..Len(d.lines) :
       x.lines = SubSeq(d.lines, 1, n) \/ x.lines = Append(SubSeq(d.lines, 1, n), Torn)

(* What is left by the loss of power. *)
LEMMA CutOfIs ==
  ASSUME NEW d \in Disk, d.synced <= Len(d.lines), NEW x \in CutOf(d)
  PROVE  IsCut(x, d)
<1>1. Torn \in Entry
  BY DEF Torn, Entry, Plain, Event, EventKinds
<1>2. d.lines \in Seq(Entry) /\ d.synced \in Nat /\ Len(d.lines) \in Nat
  BY DEF Disk
<1>3. CASE x = d
  <2>1. x.lines = SubSeq(d.lines, 1, Len(d.lines))
    BY <1>2, <1>3
  <2>2. Len(d.lines) \in d.synced..Len(d.lines)
    BY <1>2
  <2> QED  BY <1>2, <1>3, <2>1, <2>2 DEF IsCut
<1>4. CASE x \in {[lines |-> SubSeq(d.lines, 1, n), closed |-> TRUE, synced |-> n] : n \in d.synced..Len(d.lines)}
  <2>1. PICK n \in d.synced..Len(d.lines) : x = [lines |-> SubSeq(d.lines, 1, n), closed |-> TRUE, synced |-> n]
    BY <1>4
  <2>2. SubSeq(d.lines, 1, n) \in Seq(Entry) /\ Len(SubSeq(d.lines, 1, n)) = n /\ n \in Nat
    BY <1>2
  <2>3. x \in Disk /\ x.synced = n /\ x.lines = SubSeq(d.lines, 1, n)
    BY <2>1, <2>2 DEF Disk
  <2> QED  BY <1>2, <2>1, <2>2, <2>3 DEF IsCut
<1>5. CASE x \in {[lines |-> Append(SubSeq(d.lines, 1, n), Torn), closed |-> FALSE, synced |-> n + 1] :
                n \in d.synced..(Len(d.lines) - 1)}
  <2>1. PICK n \in d.synced..(Len(d.lines) - 1) :
          x = [lines |-> Append(SubSeq(d.lines, 1, n), Torn), closed |-> FALSE, synced |-> n + 1]
    BY <1>5
  <2>2. SubSeq(d.lines, 1, n) \in Seq(Entry) /\ Len(SubSeq(d.lines, 1, n)) = n /\ n \in Nat
    BY <1>2
  <2>3. Append(SubSeq(d.lines, 1, n), Torn) \in Seq(Entry) /\ Len(Append(SubSeq(d.lines, 1, n), Torn)) = n + 1
    BY <1>1, <2>2
  <2>4. x \in Disk /\ x.synced = n + 1 /\ x.lines = Append(SubSeq(d.lines, 1, n), Torn)
    BY <2>1, <2>2, <2>3 DEF Disk
  <2>5. n \in d.synced..Len(d.lines)
    BY <1>2
  <2> QED  BY <1>2, <2>2, <2>3, <2>4, <2>5 DEF IsCut
<1> QED  BY <1>3, <1>4, <1>5 DEF CutOf

(* What the first entries of a log are, in terms of sequences. *)
LEMMA StartIs ==
  ASSUME NEW long \in Seq(Entry), NEW short, IsStart(short, long)
  PROVE  short = SubSeq(long, 1, Len(short))
<1>1. short \in Seq(Entry) /\ Len(short) \in Nat /\ Len(long) \in Nat /\ Len(short) <= Len(long)
  BY DEF IsStart
<1> PICK cut : cut = SubSeq(long, 1, Len(short))
  OBVIOUS
<1>2. cut \in Seq(Entry) /\ Len(cut) = Len(short) /\ \A i \in 1..Len(short) : cut[i] = long[i]
  BY <1>1
<1>3. \A i \in 1..Len(short) : short[i] = cut[i]
  BY <1>2 DEF IsStart
<1> QED  BY <1>1, <1>2, <1>3, SeqEqual

(* What starts a log starts a log with one entry more. *)
LEMMA StartAppend ==
  ASSUME NEW long \in Seq(Entry), NEW short, IsStart(short, long), NEW e \in Entry
  PROVE  IsStart(short, Append(long, e))
BY DEF IsStart

(* The first entries of a log rise like its entries. *)
LEMMA StartRises ==
  ASSUME NEW long, Rising(long), NEW short, IsStart(short, long)
  PROVE  Rising(short)
<1>1. short \in Seq(Entry) /\ Len(short) \in Nat /\ long \in Seq(Entry) /\ Len(long) \in Nat /\ Len(short) <= Len(long)
  BY DEF IsStart, Rising
<1>2. \A i \in 1..Len(short) : i \in 1..Len(long) /\ short[i] = long[i]
  BY <1>1 DEF IsStart
<1> QED  BY <1>1, <1>2 DEF Rising

-----------------------------------------------------------------------------
(* The handle. *)

(* The same handle, but for whether it is still opened. *)
SameHandle(n, h) ==
  /\ n \in HandleRecord /\ n.tag = h.tag /\ n.astray = h.astray /\ n.kept = h.kept /\ n.stale = h.stale
  /\ n.fold = h.fold /\ n.stateSeq = h.stateSeq

(* A handle that is kept. *)
LEMMA KeptIs ==
  ASSUME NEW h \in HandleRecord
  PROVE  SameHandle(Kept(h), h) /\ Kept(h).st = "live"
BY DEF HandleRecord, Kept, SameHandle

(* A handle that a failed append leaves. *)
IsMarked(n, h) ==
  /\ n \in HandleRecord /\ n.st = h.st /\ n.tag = h.tag /\ n.astray = h.astray /\ n.kept = h.kept /\ n.stale
  /\ n.fold = h.fold /\ n.stateSeq = h.stateSeq

(* A failed append leaves the handle as it was, but stale. *)
LEMMA MarkStaleIs ==
  ASSUME NEW h \in HandleRecord
  PROVE  IsMarked(MarkStale(h), h)
BY DEF HandleRecord, MarkStale, IsMarked

(* The last number of a log is a number. *)
LEMMA LastSeqNat ==
  ASSUME NEW kept \in Seq(Entry)
  PROVE  LastSeq(kept) \in Nat
<1>1. kept # <<>> => Len(kept) \in 1..Len(kept)
  OBVIOUS
<1> QED  BY <1>1, SeqNat DEF LastSeq

(* A handle just opened on the log. *)
IsOpened(h, st, tag) ==
  /\ h \in HandleRecord /\ h.st = st /\ h.tag = tag /\ ~h.astray /\ h.kept = Valid(disk.lines) /\ ~h.stale
  /\ h.fold = Folded(h.kept).fold /\ h.stateSeq = Folded(h.kept).stateSeq

(* What `Opened` gives. *)
LEMMA OpenedIs ==
  ASSUME disk \in Disk, NEW st \in {"opening", "live"}, NEW tag \in Tags
  PROVE  IsOpened(Opened(st, tag), st, tag)
<1>1. disk.lines \in Seq(Entry)
  BY DEF Disk
<1>2. Valid(disk.lines) \in Seq(Entry)
  BY <1>1, ValidRises DEF KeptOf, Rising
<1> PICK kept : kept = Valid(disk.lines)
  OBVIOUS
<1>3. Folded(kept) \in FoldState
  BY <1>2, FoldedType
<1>4. Opened(st, tag) = [st |-> st, tag |-> tag, astray |-> FALSE, kept |-> kept, stale |-> FALSE,
                         fold |-> Folded(kept).fold, stateSeq |-> Folded(kept).stateSeq]
  BY DEF Opened
<1> QED  BY <1>2, <1>3, <1>4 DEF IsOpened, HandleRecord, FoldState

(* A handle after an entry. *)
IsTaken(n, h, e) ==
  /\ n \in HandleRecord /\ n.st = h.st /\ n.tag = h.tag /\ n.astray = h.astray /\ n.stale = h.stale
  /\ n.kept = Append(h.kept, e)
  /\ n.fold = FoldEntry([fold |-> h.fold, stateSeq |-> h.stateSeq], e).fold
  /\ n.stateSeq = FoldEntry([fold |-> h.fold, stateSeq |-> h.stateSeq], e).stateSeq

(* The fold of a handle takes an entry like the fold of its log. *)
LEMMA TakenIs ==
  ASSUME NEW h \in HandleRecord, NEW e \in Entry
  PROVE  IsTaken(FoldEntry([h EXCEPT !.kept = Append(@, e)], e), h, e)
<1> DEFINE n == FoldEntry([h EXCEPT !.kept = Append(@, e)], e)
           s == [fold |-> h.fold, stateSeq |-> h.stateSeq]
<1>1. h.kept \in Seq(Entry) /\ Append(h.kept, e) \in Seq(Entry)
  BY DEF HandleRecord
<1>2. s \in FoldState /\ s.fold = h.fold /\ s.stateSeq = h.stateSeq
  BY DEF HandleRecord, FoldState
<1>3. /\ FoldEntry(s, e) \in FoldState
      /\ FoldEntry(s, e).fold = FoldChat(h.fold, e.ev)
      /\ FoldEntry(s, e).stateSeq =
              IF MovesStateSeq(h.fold, FoldChat(h.fold, e.ev), e.ev) THEN e.seq ELSE h.stateSeq
  BY <1>2, FoldEntryIs
<1> PICK next : next = FoldChat(h.fold, e.ev)
  OBVIOUS
<1> PICK moves : moves = MovesStateSeq(h.fold, next, e.ev)
  OBVIOUS
<1> PICK m : m = [h EXCEPT !.kept = Append(@, e)]
  OBVIOUS
<1>4. m \in HandleRecord /\ m.fold = h.fold /\ m.stateSeq = h.stateSeq /\ m.st = h.st /\ m.tag = h.tag
      /\ m.astray = h.astray /\ m.stale = h.stale /\ m.kept = Append(h.kept, e)
  BY <1>1 DEF HandleRecord
<1>5. FoldEntry(m, e) = [m EXCEPT !.fold = FoldChat(m.fold, e.ev),
                           !.stateSeq = IF MovesStateSeq(m.fold, FoldChat(m.fold, e.ev), e.ev) THEN e.seq ELSE @]
  BY Zenon DEF FoldEntry
<1>6. n = [m EXCEPT !.fold = next, !.stateSeq = IF moves THEN e.seq ELSE @]
  BY <1>4, <1>5
<1>7. FoldEntry(s, e).fold = next /\ FoldEntry(s, e).stateSeq = (IF moves THEN e.seq ELSE h.stateSeq)
      /\ next \in Fold /\ (IF moves THEN e.seq ELSE h.stateSeq) \in Nat
  BY <1>3 DEF FoldState
<1> HIDE DEF n, s
<1>8. n \in HandleRecord /\ n.st = m.st /\ n.tag = m.tag /\ n.astray = m.astray /\ n.stale = m.stale /\ n.kept = m.kept
      /\ n.fold = next /\ n.stateSeq = IF moves THEN e.seq ELSE h.stateSeq
  BY <1>4, <1>6, <1>7 DEF HandleRecord
<1> QED  BY <1>4, <1>7, <1>8 DEF IsTaken, n, s

-----------------------------------------------------------------------------
(* The rest of the log behind what a page shows. *)

(* Where the entries after the last one of a page start. *)
LEMMA FirstAfterIs ==
  ASSUME NEW log, Rising(log), NEW view, IsStart(view, log), IsStart(mem.kept, log),
         LastSeq(view) < LastSeq(mem.kept)
  PROVE  Len(view) < Len(mem.kept) /\ FirstAfter(LastSeq(view)) = Len(view) + 1
<1> PICK kept : kept = mem.kept
  OBVIOUS
<1> PICK v : v = Len(view)
  OBVIOUS
<1> PICK n : n = LastSeq(view)
  OBVIOUS
<1>1. Rising(kept) /\ Rising(view)
  BY StartRises
<1>2. /\ kept \in Seq(Entry) /\ view \in Seq(Entry) /\ log \in Seq(Entry) /\ v \in Nat /\ Len(kept) \in Nat
      /\ v <= Len(log) /\ Len(kept) <= Len(log) /\ Len(log) \in Nat
  BY <1>1 DEF Rising, IsStart
<1>3. \A i \in 1..Len(log) : log[i].seq \in Nat
  BY <1>2, SeqNat
<1>4. \A i \in 1..v : i \in 1..Len(log) /\ view[i] = log[i]
  BY <1>2 DEF IsStart
<1>5. \A i \in 1..Len(kept) : i \in 1..Len(log) /\ kept[i] = log[i]
  BY <1>2 DEF IsStart
<1>6. n \in Nat /\ \A i \in 1..v : view[i].seq <= n
  BY <1>1, LastBounds
<1>7. \A i \in 1..Len(log) : i > v => log[i].seq > n
  <2>1. CASE v = 0
    <3>1. view = <<>> /\ n = 0
      <4>1. view = <<>>
        BY <1>2, <2>1, EmptySeq
      <4> QED  BY <4>1 DEF LastSeq
    <3>2. \A i \in 1..Len(log) : log[i].seq > 0
      BY DEF Rising
    <3> QED  BY <3>1, <3>2
  <2>2. CASE v # 0
    <3>1. v \in 1..v /\ n = view[v].seq /\ n = log[v].seq /\ v \in 1..Len(log)
      BY <1>2, <1>4, <2>2 DEF LastSeq
    <3> QED  BY <1>2, <1>3, <3>1 DEF Rising
  <2> QED  BY <2>1, <2>2
<1>8. v < Len(kept)
  <2> SUFFICES ASSUME Len(kept) <= v PROVE FALSE
    BY <1>2
  <2>1. kept # <<>>
    BY <1>6 DEF LastSeq
  <2>2. Len(kept) \in 1..v /\ Len(kept) \in 1..Len(kept) /\ LastSeq(kept) = kept[Len(kept)].seq
    BY <1>2, <2>1 DEF LastSeq
  <2>3. kept[Len(kept)] = view[Len(kept)]
    BY <1>4, <1>5, <2>2
  <2>4. view[Len(kept)].seq <= n /\ view[Len(kept)].seq \in Nat
    BY <1>3, <1>4, <1>6, <2>2
  <2> QED  BY <1>6, <2>2, <2>3, <2>4
<1> DEFINE P(i) == /\ \A j \in 1..(i - 1) : kept[j].seq <= n
                   /\ i <= Len(kept) => kept[i].seq > n
<1>9. v + 1 \in 1..(Len(kept) + 1) /\ P(v + 1)
  <2>1. \A j \in 1..((v + 1) - 1) : j \in 1..v /\ j \in 1..Len(kept)
    BY <1>2, <1>8
  <2>2. \A j \in 1..v : kept[j].seq <= n
    BY <1>4, <1>5, <1>6, <2>1, <1>2
  <2>3. v + 1 \in 1..Len(kept) /\ v + 1 > v
    BY <1>2, <1>8
  <2>4. kept[v + 1].seq > n
    BY <1>5, <1>7, <2>3
  <2> QED  BY <2>1, <2>2, <2>3, <2>4, <1>2
<1>10. ASSUME NEW i \in 1..(Len(kept) + 1), P(i)  PROVE i = v + 1
  <2>1. CASE i < v + 1
    <3>1. i \in 1..v /\ i \in 1..Len(kept)
      BY <1>2, <1>8, <2>1
    <3>2. kept[i].seq <= n /\ kept[i].seq \in Nat /\ kept[i].seq > n
      BY <1>3, <1>4, <1>5, <1>6, <1>10, <3>1
    <3> QED  BY <1>6, <3>2
  <2>2. CASE i > v + 1
    <3>1. v + 1 \in 1..(i - 1) /\ v + 1 \in 1..Len(kept)
      BY <1>2, <1>8, <2>2
    <3>2. kept[v + 1].seq <= n /\ kept[v + 1].seq \in Nat /\ kept[v + 1].seq > n
      BY <1>3, <1>5, <1>7, <1>10, <3>1, <1>2
    <3> QED  BY <1>6, <3>2
  <2> QED  BY <1>2, <2>1, <2>2
<1>11. FirstAfter(n) = CHOOSE i \in 1..(Len(kept) + 1) : P(i)
  BY DEF FirstAfter
<1> HIDE DEF P
<1>12. FirstAfter(n) = v + 1
  BY <1>9, <1>10, <1>11
<1> QED  BY <1>8, <1>12

(* What a read gives continues what the page shows. *)
LEMMA AfterContinues ==
  ASSUME NEW log, Rising(log), NEW view, IsStart(view, log), IsStart(mem.kept, log),
         LastSeq(view) < LastSeq(mem.kept), NEW n \in 1..Len(After(LastSeq(view))),
         NEW reply, reply = SubSeq(After(LastSeq(view)), 1, n)
  PROVE  reply \in Seq(Entry) /\ reply # <<>> /\ IsStart(view \o reply, log)
<1> PICK kept : kept = mem.kept
  OBVIOUS
<1> PICK v : v = Len(view)
  OBVIOUS
<1> PICK rest : rest = After(LastSeq(view))
  OBVIOUS
<1>1. v < Len(kept) /\ rest = SubSeq(kept, v + 1, Len(kept))
  BY FirstAfterIs DEF After
<1>2. kept \in Seq(Entry) /\ view \in Seq(Entry) /\ v \in Nat /\ Len(kept) \in Nat /\ log \in Seq(Entry)
      /\ Len(kept) <= Len(log) /\ Len(log) \in Nat
  BY DEF IsStart, Rising
<1>3. /\ rest \in Seq(Entry) /\ Len(rest) = Len(kept) - v
      /\ \A i \in 1..Len(rest) : rest[i] = kept[v + i]
  <2>1. v + 1 \in 1..(Len(kept) + 1) /\ Len(kept) \in Nat
    BY <1>1, <1>2
  <2>2. \A i \in 1..(Len(kept) - v) : (v + 1) + i - 1 = v + i
    BY <1>2
  <2> QED  BY <1>1, <1>2, <2>1, <2>2
<1>4. n \in Nat /\ n >= 1 /\ n <= Len(rest)
  BY <1>3
<1>5. reply \in Seq(Entry) /\ Len(reply) = n /\ \A i \in 1..n : reply[i] = rest[i]
  BY <1>3, <1>4
<1>6. \A i \in 1..n : reply[i] = log[v + i]
  <2>1. \A i \in 1..n : i \in 1..Len(rest) /\ v + i \in 1..Len(kept)
    BY <1>2, <1>3, <1>4
  <2> QED  BY <1>3, <1>5, <2>1 DEF IsStart
<1> PICK all : all = view \o reply
  OBVIOUS
<1>7. all \in Seq(Entry) /\ Len(all) = v + n /\ v + n <= Len(log)
  BY <1>1, <1>2, <1>3, <1>4, <1>5
<1>8. ASSUME NEW i \in 1..Len(all)  PROVE all[i] = log[i]
  <2>1. CASE i <= v
    BY <1>2, <1>5, <1>7, <2>1 DEF IsStart
  <2>2. CASE i > v
    <3>1. i - v \in 1..n /\ v + (i - v) = i /\ all[i] = reply[i - v]
      BY <1>2, <1>5, <1>7, <2>2
    <3> QED  BY <1>6, <3>1
  <2> QED  BY <1>2, <1>7, <2>1, <2>2
<1>9. IsStart(all, log)
  BY <1>7, <1>8 DEF IsStart
<1> QED  BY <1>4, <1>5, <1>9

-----------------------------------------------------------------------------
(* The invariant. *)

AllCount(lines) == \A i \in 1..Len(lines) : lines[i] # Torn => Counts(lines, i)

(* Every whole line counts, and what was acknowledged is flushed. *)
LinesKept ==
  /\ AllCount(disk.lines)
  /\ disk.synced <= Len(disk.lines)
  /\ \A e \in acked : \E i \in 1..disk.synced : disk.lines[i] = e

(* A line of a later call, or of the same one, which resolved requests. *)
Precedes(one, two) == one.call < two.call \/ (one.call = two.call /\ one.ev.kind = "resolved")

InOrder(lines) ==
  \A i, j \in 1..Len(lines) : i < j /\ lines[i] # Torn /\ lines[j] # Torn => Precedes(lines[i], lines[j])

LinesInOrder == InOrder(disk.lines)

(* A call can go on from a line of an earlier call, or from one of its own. *)
GoesOnFrom(line, j) ==
  \/ line.call < j.call
  \/ line.call = j.call /\ (j.pc = "checks" \/ (j.pc = "writes" /\ line.ev.kind = "resolved"))

(* A line is of a call that was made: of one before the one that runs, or of *)
(* that one, which still writes or has to look at what it wrote.             *)
LinesOfCalls ==
  \A i \in 1..Len(disk.lines) : disk.lines[i] # Torn =>
    /\ disk.lines[i].call <= calls
    /\ jobs # <<>> => GoesOnFrom(disk.lines[i], Job)

(* The fold of a handle is the one of the lines it read or wrote, which are  *)
(* the first lines of the log; a stale handle misses the rest.               *)
HandleKept ==
  mem.st # "none" =>
    /\ mem.fold = Folded(mem.kept).fold /\ mem.stateSeq = Folded(mem.kept).stateSeq
    /\ IsStart(mem.kept, Valid(disk.lines))
    /\ ~mem.stale => mem.kept = Valid(disk.lines)
    /\ told = Status(mem.fold)

InTurn == {"inside", "writes", "checks"}

Asked == {"append", "interrupt", "seen"}

(* The numbers of the calls rise, none above the last that was given, and    *)
(* all but the first wait, as someone asked for them.                        *)
CallsRise(q, c) ==
  /\ \A i, j \in 1..Len(q) : i < j => q[i].call < q[j].call
  /\ \A i \in 1..Len(q) : q[i].call <= c /\ (i # 1 => q[i].pc = "queued" /\ q[i].kind \in Asked)

(* Only the first call runs, in the turn of the handle; one that writes has  *)
(* the whole log; a chat that is opened has the one call that opens it.      *)
JobsKept ==
  /\ CallsRise(jobs, calls)
  /\ jobs # <<>> => mem.st # "none"
  /\ mem.st = "opening" => Len(jobs) = 1 /\ Job.pc \in InTurn /\ Job.kind \in {"first", "recover"}
  /\ jobs # <<>> /\ mem.st = "live" => Job.kind \in Asked
  /\ jobs # <<>> /\ Job.pc \in InTurn => Job.tag = mem.tag /\ held[Job.tag] = "chat"
  /\ Runs("writes") => ~mem.stale
  /\ Runs("checks") => Job.kind = "first" /\ mem.st = "opening"

(* The handle stands for the place of the folder, or a rename moves it just  *)
(* now, or one threw and left it behind.                                     *)
PlaceKept ==
  /\ mem.st # "none" /\ place \notin {"gone", mem.tag} => mem.astray \/ Renaming(mem.tag, place)
  /\ mem.st = "opening" => ~mem.astray

(* One rename runs at a time, and the folder stands where it brings it.      *)
TurnsKept ==
  /\ \A s, t \in Tags : held[s] = "from" /\ held[t] = "from" => s = t
  /\ \A t \in Tags : held[t] = "from" => place = "gone" \/ held[place] = "to"
  /\ \A t \in Tags : held[t] = "to" => place \in {"gone", t}

(* A page has the first entries of the log, and a reply goes on from them.   *)
ReaderKept ==
  /\ reader.cursor = LastSeq(reader.view)
  /\ reader.pc # "got" \/ reader.reset => reader.reply = <<>>
  /\ reader.pc # "got" => ~reader.reset
  /\ reader.pc = "got" /\ ~reader.reset => reader.reply # <<>>
  /\ IsStart(reader.view \o reader.reply, Valid(disk.lines))

ChatInv ==
  /\ TypeOK /\ LinesKept /\ LinesInOrder /\ LinesOfCalls
  /\ HandleKept /\ JobsKept /\ PlaceKept /\ TurnsKept /\ ReaderKept

(* What the invariant says of the state while a call runs. *)
LEMMA JobRuns ==
  ASSUME ChatInv, jobs # <<>>
  PROVE  mem \in HandleRecord /\ Job \in JobRecord /\ Job = jobs[1] /\ Len(jobs) \in Nat /\ Len(jobs) >= 1
         /\ disk \in Disk /\ disk.lines \in Seq(Entry) /\ mem.kept \in Seq(Entry) /\ LastSeq(mem.kept) \in Nat
<1>1. jobs \in Seq(JobRecord) /\ disk \in Disk /\ (mem = NoHandle \/ mem \in HandleRecord)
  BY TypeNames DEF ChatInv
<1>2. mem \in HandleRecord
  BY <1>1, HandleThere DEF ChatInv, JobsKept
<1>3. mem.kept \in Seq(Entry) /\ disk.lines \in Seq(Entry)
  BY <1>1, <1>2 DEF HandleRecord, Disk
<1> QED  BY <1>1, <1>2, <1>3, HeadIs, LastSeqNat DEF Job

(* The line of an event is an entry with the number after the last. *)
LEMMA LineIs ==
  ASSUME ChatInv, jobs # <<>>, NEW e \in NextEvents
  PROVE  /\ e \in Event /\ Line(e) \in Entry /\ Line(e).seq = LastSeq(mem.kept) + 1
         /\ Line(e).call = Job.call /\ Line(e).ev = e /\ Line(e) # Torn
<1>1. e \in Event
  BY NextEventsType, TypeNames DEF ChatInv
<1>2. Job.call \in Nat /\ LastSeq(mem.kept) \in Nat
  BY JobRuns DEF JobRecord
<1>3. Line(e) = [seq |-> LastSeq(mem.kept) + 1, ev |-> e, call |-> Job.call]
  BY DEF Line, Last
<1>4. Torn.seq = 0 /\ LastSeq(mem.kept) + 1 # 0
  BY <1>2 DEF Torn
<1> QED  BY <1>1, <1>2, <1>3, <1>4 DEF Entry

(* While a call writes, its handle has the whole log. *)
LEMMA AppendingIs ==
  ASSUME ChatInv, Appending
  PROVE  /\ jobs # <<>> /\ ~mem.stale /\ mem.kept = Valid(disk.lines)
         /\ Job.pc \in {"writes", "inside"} /\ Job.tag = mem.tag /\ held[Job.tag] = "chat"
<1>1. jobs # <<>> /\ Job.pc \in {"writes", "inside"} /\ ~mem.stale
  BY DEF Appending, Runs, ChatInv, JobsKept
<1>2. mem.st # "none"
  BY <1>1 DEF ChatInv, JobsKept
<1> QED  BY <1>1, <1>2 DEF ChatInv, HandleKept, JobsKept, InTurn

-----------------------------------------------------------------------------
(* Every step keeps the types. *)

Typed(d, p, s, m, q, h, t, w, r, a, c, l) ==
  /\ d \in Disk /\ p \in Tags \union {"gone"} /\ s \in Nat
  /\ m = NoHandle \/ m \in HandleRecord
  /\ q \in Seq(JobRecord)
  /\ h \in [Tags -> {"none", "chat", "from", "to"}]
  /\ t \in Statuses /\ w \in BOOLEAN /\ r \in ReaderRecord
  /\ a \in SUBSET Entry /\ c \in Nat /\ l \in [Bounded -> Nat]

(* The types before and after a step, with the names of the records. *)
LEMMA TypeParts ==
  /\ TypeOK <=> Typed(disk, place, seen, mem, jobs, held, told, wake, reader, acked, calls, left)
  /\ TypeOK' <=> Typed(disk', place', seen', mem', jobs', held', told', wake', reader', acked', calls', left')
BY DEF TypeOK, HandleTypeOK, JobRecord, HandleRecord, ReaderRecord, Statuses, Typed

(* What a rename that ends leaves of a handle. *)
Relocated(n, h) ==
  /\ h \in HandleRecord /\ n \in HandleRecord /\ h.st = "live" /\ n.st = "live"
  /\ n.kept = h.kept /\ n.stale = h.stale /\ n.fold = h.fold /\ n.stateSeq = h.stateSeq

(* The end of a rename, with its hook or without. *)
LEMMA RenameIs ==
  ASSUME ChatInv, RenameEnds \/ RenameThrows
  PROVE  /\ disk' = disk /\ place' = place /\ seen' = seen /\ jobs' = jobs /\ told' = told /\ reader' = reader
         /\ acked' = acked /\ calls' = calls /\ left' \in [Bounded -> Nat] /\ wake' \in BOOLEAN
         /\ \E from, to \in Tags : Renaming(from, to) /\ RenameOver(from, to)
         /\ mem' = mem \/ Relocated(mem', mem)
<1>1. mem = NoHandle \/ mem \in HandleRecord
  BY TypeNames DEF ChatInv
<1>2. Live => mem \in HandleRecord /\ mem.st = "live"
  BY <1>1, HandleThere DEF Live
<1>3. left \in [Bounded -> Nat] /\ wake \in BOOLEAN
  BY TypeNames DEF ChatInv
<1>4. CASE RenameEnds
  <2>1. PICK from \in Tags, to \in Tags :
          /\ Renaming(from, to) /\ RenameOver(from, to)
          /\ (Live /\ mem' = [mem EXCEPT !.tag = to, !.astray = FALSE] /\ wake' = TRUE) \/ (mem' = mem /\ wake' = wake)
    BY <1>4 DEF RenameEnds
  <2>2. mem' = mem \/ Relocated(mem', mem)
    BY <1>2, <2>1 DEF Relocated, HandleRecord
  <2>3. wake' \in BOOLEAN
    BY <1>3, <2>1
  <2> QED  BY <1>3, <1>4, <2>1, <2>2, <2>3 DEF RenameEnds
<1>5. CASE RenameThrows
  <2>1. PICK from \in Tags, to \in Tags :
          /\ Renaming(from, to) /\ RenameOver(from, to)
          /\ mem' = IF Live /\ mem.tag = from THEN [mem EXCEPT !.astray = TRUE] ELSE mem
    BY <1>5 DEF RenameThrows
  <2>2. mem' = mem \/ Relocated(mem', mem)
    BY <1>2, <2>1 DEF Relocated, HandleRecord
  <2>3. left' \in [Bounded -> Nat]
    BY <1>3, <1>5 DEF RenameThrows
  <2> QED  BY <1>3, <1>5, <2>1, <2>2, <2>3 DEF RenameThrows
<1> QED  BY <1>4, <1>5

(* A page that is started has nothing yet. *)
LEMMA StartType ==
  ASSUME NEW t \in Tags
  PROVE  Start(t) \in ReaderRecord
BY DEF Start, ReaderRecord

(* The calls that are made and the first call while it goes on. *)
LEMMA JobTypes ==
  ASSUME NEW j \in JobRecord
  PROVE  /\ \A pc \in {"queued", "waits", "inside", "writes", "checks"} : [j EXCEPT !.pc = pc] \in JobRecord
         /\ \A t \in Tags : [j EXCEPT !.pc = "waits", !.tag = t] \in JobRecord
         /\ \A qs \in SUBSET Requests : [j EXCEPT !.pc = "writes", !.todo = qs] \in JobRecord
         /\ \A qs \in SUBSET Requests : [j EXCEPT !.todo = @ \ qs] \in JobRecord
BY DEF JobRecord

(* The start of one chat. *)
LEMMA InitTyped ==
  ASSUME Init
  PROVE  TypeOK
<1>1. Home \in Tags
  BY LiveAssumption
<1>2. disk \in Disk /\ place \in Tags \union {"gone"} /\ seen \in Nat
  BY <1>1 DEF Init, Disk
<1>3. mem \in HandleRecord
  BY <1>1 DEF Init, HandleRecord, ChatStart, Fold, Stops
<1>4. jobs \in Seq(JobRecord)
  <2>1. PICK t \in Texts :
          jobs = <<[kind |-> "first", ev |-> UserEvent(t), to |-> 0, call |-> 1, pc |-> "inside", todo |-> {},
                    tag |-> place]>>
    BY DEF Init
  <2>2. UserEvent(t) \in Event
    <3>1. <<t>> \in Seq(Texts)
      OBVIOUS
    <3>2. Plain("user") \in Event /\ UserEvent(t) = [Plain("user") EXCEPT !.text = <<t>>]
      BY DEF Plain, Event, EventKinds, UserEvent
    <3> QED  BY <3>1, <3>2 DEF Event
  <2>3. [kind |-> "first", ev |-> UserEvent(t), to |-> 0, call |-> 1, pc |-> "inside", todo |-> {}, tag |-> place]
          \in JobRecord
    BY <1>1, <2>2 DEF Init, JobRecord, Kinds
  <2> QED  BY <2>1, <2>3
<1>5. held \in [Tags -> {"none", "chat", "from", "to"}] /\ told \in Statuses /\ wake \in BOOLEAN
  BY <1>1 DEF Init, Statuses
<1>6. reader \in ReaderRecord
  BY <1>1, StartType DEF Init
<1>7. acked \in SUBSET Entry /\ calls \in Nat /\ left \in [Bounded -> Nat]
  BY LiveAssumption DEF Init
<1> QED  BY <1>2, <1>3, <1>4, <1>5, <1>6, <1>7, TypeNames

(* A reader that waits asks again, or it was not waiting. *)
LEMMA WaitEnds ==
  ASSUME NEW r \in ReaderRecord, NEW s, s = IF r.pc = "holds" THEN [r EXCEPT !.pc = "again"] ELSE r
  PROVE  s \in ReaderRecord /\ s.tag = r.tag /\ s.cursor = r.cursor /\ s.view = r.view /\ s.reply = r.reply
         /\ s.reset = r.reset /\ (s.pc = r.pc \/ (r.pc = "holds" /\ s.pc = "again"))
BY DEF ReaderRecord

(* Every step keeps the types: the calls and their bodies. *)
LEMMA TypeOfJobStep ==
  ASSUME ChatInv, CallAppend \/ CallInterrupt \/ CallSeen \/ JobStep \/ AppendFails \/ StepFails
  PROVE  TypeOK'
<1>0. Typed(disk, place, seen, mem, jobs, held, told, wake, reader, acked, calls, left)
  BY TypeParts DEF ChatInv
<1> DEFINE Goal == Typed(disk', place', seen', mem', jobs', held', told', wake', reader', acked', calls', left')
<1> SUFFICES Goal
  BY TypeParts
<1>1. ASSUME NEW kind \in Kinds, NEW ev \in Event, NEW to \in Nat, NEW bound \in Bounded, Calls(kind, ev, to, bound)
      PROVE  Goal
  <2>1. mem \in HandleRecord
    BY <1>0, <1>1, HandleThere DEF Calls, Live, Typed
  <2>2. Call(kind, ev, to) \in JobRecord
    BY <1>0, <2>1 DEF Call, JobRecord, Typed, HandleRecord
  <2>3. jobs' \in Seq(JobRecord) /\ calls' \in Nat
    BY <1>0, <1>1, <2>2 DEF Calls, Typed
  <2>4. left' \in [Bounded -> Nat]
    BY <1>0, <1>1 DEF Calls, Typed
  <2> QED  BY <1>0, <1>1, <2>3, <2>4 DEF Calls, Typed
<1>2. CASE CallAppend \/ CallInterrupt \/ CallSeen
  <2>1. "append" \in Kinds /\ "interrupt" \in Kinds /\ "seen" \in Kinds /\ "call" \in Bounded /\ "mark" \in Bounded
    BY DEF Kinds, Bounded
  <2>2. Plain("interrupted") \in Event /\ Plain("other") \in Event /\ Events \subseteq Event
    BY LiveAssumption DEF Plain, Event, EventKinds
  <2>3. reader.cursor \in Nat
    BY <1>0 DEF Typed, ReaderRecord
  <2> QED  BY <1>1, <1>2, <2>1, <2>2, <2>3 DEF CallAppend, CallInterrupt, CallSeen
<1> DEFINE Done == jobs' \in Seq(JobRecord) /\ held' \in [Tags -> {"none", "chat", "from", "to"}]
<1>3. ASSUME JobEnds, jobs # <<>>  PROVE Done
  <2>1. jobs' \in Seq(JobRecord)
    BY <1>0, <1>3 DEF JobEnds, Typed
  <2> QED  BY <1>0, <1>3, <2>1 DEF JobEnds, Typed
<1>4. ASSUME NEW j \in JobRecord, jobs # <<>>, jobs' = <<j>> \o Tail(jobs)  PROVE jobs' \in Seq(JobRecord)
  BY <1>0, <1>4 DEF Typed
<1> HIDE DEF Done
<1>5. ASSUME AsksTurn  PROVE Goal
  <2>1. jobs # <<>> /\ mem \in HandleRecord /\ Job \in JobRecord
    BY <1>5, JobRuns DEF AsksTurn, Runs
  <2>2. [Job EXCEPT !.pc = "waits", !.tag = mem.tag] \in JobRecord
    BY <2>1, JobTypes DEF HandleRecord
  <2>3. jobs' \in Seq(JobRecord)
    BY <1>4, <1>5, <2>1, <2>2 DEF AsksTurn
  <2> QED  BY <1>0, <1>5, <2>3 DEF AsksTurn, Typed
<1>6. ASSUME TakesTurn  PROVE Goal
  <2>1. jobs # <<>> /\ Job \in JobRecord
    BY <1>6, JobRuns DEF TakesTurn, Runs
  <2>2. [Job EXCEPT !.pc = "inside"] \in JobRecord /\ [Job EXCEPT !.pc = "queued"] \in JobRecord
    BY <2>1, JobTypes
  <2>3. jobs' \in Seq(JobRecord)
    BY <1>4, <1>6, <2>1, <2>2 DEF TakesTurn, JobGoes
  <2>4. held' \in [Tags -> {"none", "chat", "from", "to"}]
    BY <1>0, <1>6 DEF TakesTurn, Typed
  <2> QED  BY <1>0, <1>6, <2>3, <2>4 DEF TakesTurn, Typed
<1>7. ASSUME Reopens  PROVE Goal
  <2>1. jobs # <<>> /\ mem \in HandleRecord /\ disk \in Disk
    BY <1>7, JobRuns DEF Reopens, Reopening, Runs
  <2> PICK h : h = Opened(mem.st, mem.tag)
    OBVIOUS
  <2>2. h \in HandleRecord
    BY <2>1, OpenedIs DEF HandleRecord, IsOpened
  <2>3. Status(h.fold) \in Statuses
    BY <2>2, StatusType DEF HandleRecord
  <2>4. mem' = h /\ told' \in Statuses /\ wake' \in BOOLEAN
    BY <1>0, <1>7, <2>3 DEF Reopens, Announced, Typed, MovesLast
  <2> QED  BY <1>0, <1>7, <2>2, <2>4 DEF Reopens, Typed
<1>8. ASSUME FindsBusy  PROVE Goal
  <2>1. jobs # <<>> /\ mem \in HandleRecord /\ Job \in JobRecord
    BY <1>8, JobRuns DEF FindsBusy, Interrupting, Runs
  <2>2. mem.fold.open \in SUBSET Requests
    BY <2>1 DEF HandleRecord, Fold
  <2>3. [Job EXCEPT !.pc = "writes", !.todo = mem.fold.open] \in JobRecord
    BY <2>1, <2>2, JobTypes
  <2>4. jobs' \in Seq(JobRecord)
    BY <1>4, <1>8, <2>1, <2>3 DEF FindsBusy
  <2> QED  BY <1>0, <1>8, <2>4 DEF FindsBusy, Typed
<1>9. ASSUME FindsAtRest \/ RecoversGone
      PROVE  Goal
  <2>1. jobs # <<>>
    BY <1>9 DEF FindsAtRest, RecoversGone, Interrupting, Appending, Runs
  <2>2. mem \in HandleRecord
    BY <2>1, JobRuns
  <2>3. mem' \in HandleRecord
    BY <1>9, <2>2, KeptIs DEF FindsAtRest, RecoversGone, SameHandle
  <2>4. jobs' \in Seq(JobRecord) /\ held' \in [Tags -> {"none", "chat", "from", "to"}]
    BY <1>3, <1>9, <2>1 DEF FindsAtRest, RecoversGone, Done
  <2> QED  BY <1>0, <1>9, <2>3, <2>4 DEF FindsAtRest, RecoversGone, Typed
<1>10. ASSUME ClampsSeen
       PROVE  Goal
  <2>1. seen' \in Nat
    BY <1>10, AppendingIs, JobRuns DEF ClampsSeen, Last
  <2> QED  BY <1>0, <1>10, <2>1 DEF ClampsSeen, Typed
<1>11. ASSUME Appends
       PROVE  Goal
  <2>1. jobs # <<>> /\ mem \in HandleRecord /\ Job \in JobRecord /\ disk \in Disk
    BY <1>11, AppendingIs, JobRuns DEF Appends
  <2>2. PICK e \in NextEvents :
         LET h == FoldEntry([mem EXCEPT !.kept = Append(@, Line(e))], Line(e))
         IN  /\ disk' = Written(disk, Line(e))
             /\ told' = Announced(h)
             /\ wake' = (wake \/ MovesLast(h))
             /\ acked' = acked \union {Line(e)}
             /\ \/ /\ e.kind = "resolved" /\ Job.pc = "writes"
                   /\ mem' = h
                   /\ jobs' = <<[Job EXCEPT !.todo = @ \ e.reqs]>> \o Tail(jobs)
                   /\ UNCHANGED held
                \/ /\ e.kind # "resolved" \/ Job.pc # "writes"
                   /\ mem' = Kept(h)
                   /\ JobEnds
    BY <1>11 DEF Appends
  <2>3. e \in Event /\ Line(e) \in Entry
    BY <2>1, LineIs
  <2> PICK h : h = FoldEntry([mem EXCEPT !.kept = Append(@, Line(e))], Line(e))
    OBVIOUS
  <2>4. h \in HandleRecord
    BY <2>1, <2>3, TakenIs DEF IsTaken
  <2>5. mem' \in HandleRecord
    BY <2>2, <2>4, KeptIs DEF SameHandle
  <2>6. disk' \in Disk /\ acked' \in SUBSET Entry
    BY <1>0, <2>1, <2>2, <2>3, WrittenIs DEF Typed
  <2>7. told' \in Statuses /\ wake' \in BOOLEAN
    <3>1. Status(h.fold) \in Statuses
      BY <2>4, StatusType DEF HandleRecord
    <3>2. told' = Announced(h) /\ wake' = (wake \/ MovesLast(h))
      BY <2>2
    <3> QED  BY <1>0, <3>1, <3>2 DEF Announced, MovesLast, Typed
  <2>8. jobs' \in Seq(JobRecord) /\ held' \in [Tags -> {"none", "chat", "from", "to"}]
    <3>1. e.reqs \in SUBSET Requests
      BY <2>3 DEF Event
    <3>2. [Job EXCEPT !.todo = @ \ e.reqs] \in JobRecord
      BY <2>1, <3>1, JobTypes
    <3>3. CASE e.kind = "resolved" /\ Job.pc = "writes"
      <4>1. jobs' = <<[Job EXCEPT !.todo = @ \ e.reqs]>> \o Tail(jobs) /\ held' = held
        BY <2>2, <3>3
      <4> QED  BY <1>0, <1>4, <2>1, <3>2, <4>1 DEF Typed
    <3>4. CASE ~(e.kind = "resolved" /\ Job.pc = "writes")
      BY <1>3, <2>1, <2>2, <3>4 DEF Done
    <3> QED  BY <3>3, <3>4
  <2> QED  BY <1>0, <1>11, <2>5, <2>6, <2>7, <2>8 DEF Appends, Typed
<1>12. ASSUME AppendFails
       PROVE  Goal
  <2>1. jobs # <<>> /\ mem \in HandleRecord /\ Job \in JobRecord /\ disk \in Disk
    BY <1>12, AppendingIs, JobRuns DEF AppendFails
  <2>2. disk' \in Disk
    <3>1. PICK e \in NextEvents : disk' \in LeftBy(disk, Line(e))
      BY <1>12 DEF AppendFails
    <3> QED  BY <2>1, <3>1, LineIs, LeftByIs
  <2>3. mem' \in HandleRecord
    <3>1. MarkStale(mem) \in HandleRecord
      BY <2>1, MarkStaleIs DEF IsMarked
    <3> QED  BY <1>12, <3>1, KeptIs DEF AppendFails, SameHandle
  <2>4. jobs' \in Seq(JobRecord) /\ held' \in [Tags -> {"none", "chat", "from", "to"}]
    <3>1. [Job EXCEPT !.pc = "checks"] \in JobRecord
      BY <2>1, JobTypes
    <3>2. CASE Job.kind = "first"
      <4>1. jobs' = <<[Job EXCEPT !.pc = "checks"]>> \o Tail(jobs) /\ held' = held
        BY <1>12, <3>2 DEF AppendFails, JobGoes
      <4> QED  BY <1>0, <1>4, <2>1, <3>1, <4>1 DEF Typed
    <3>3. CASE Job.kind # "first"
      BY <1>3, <1>12, <2>1, <3>3 DEF Done, AppendFails
    <3> QED  BY <3>2, <3>3
  <2>5. left' \in [Bounded -> Nat]
    BY <1>0, <1>12 DEF AppendFails, Faults, Typed
  <2> QED  BY <1>0, <1>12, <2>2, <2>3, <2>4, <2>5 DEF AppendFails, Typed
<1>13. ASSUME ChecksFirst
       PROVE  Goal
  <2>1. jobs # <<>> /\ mem \in HandleRecord /\ disk \in Disk
    BY <1>13, JobRuns DEF ChecksFirst, Runs
  <2> PICK h : h = Opened("live", mem.tag)
    OBVIOUS
  <2>2. h \in HandleRecord
    BY <2>1, OpenedIs DEF HandleRecord, IsOpened
  <2>3. Status(h.fold) \in Statuses
    BY <2>2, StatusType DEF HandleRecord
  <2>4. (mem' = h \/ mem' = NoHandle) /\ told' \in Statuses
    BY <1>0, <1>13, <2>3 DEF ChecksFirst, Announced, Typed
  <2>5. jobs' \in Seq(JobRecord) /\ held' \in [Tags -> {"none", "chat", "from", "to"}]
    BY <1>3, <1>13, <2>1 DEF ChecksFirst, Done
  <2> QED  BY <1>0, <1>13, <2>2, <2>4, <2>5 DEF ChecksFirst, Typed
<1>14. ASSUME MarksSeen \/ MarksNothing
       PROVE  Goal
  <2>1. jobs # <<>>
    BY <1>14 DEF MarksSeen, MarksNothing, Marking, Runs
  <2>2. mem \in HandleRecord /\ Job \in JobRecord /\ LastSeq(mem.kept) \in Nat
    BY <2>1, JobRuns
  <2>3. SeenOf(Job.to) \in Nat
    BY <2>2 DEF SeenOf, Last, JobRecord
  <2>4. Status(mem.fold) \in Statuses
    BY <2>2, StatusType DEF HandleRecord
  <2>5. jobs' \in Seq(JobRecord) /\ held' \in [Tags -> {"none", "chat", "from", "to"}]
    BY <1>3, <1>14, <2>1 DEF MarksSeen, MarksNothing, Done
  <2> QED  BY <1>0, <1>14, <2>3, <2>4, <2>5 DEF MarksSeen, MarksNothing, Typed
<1>15. ASSUME StepFails
       PROVE  Goal
  <2>1. jobs # <<>>
    BY <1>15 DEF StepFails, Reopening, Appending, Marking, Runs
  <2>2. mem \in HandleRecord
    BY <2>1, JobRuns
  <2>3. mem' \in HandleRecord \/ mem' = NoHandle
    BY <1>15, <2>2, KeptIs DEF StepFails, SameHandle
  <2>4. jobs' \in Seq(JobRecord) /\ held' \in [Tags -> {"none", "chat", "from", "to"}]
    BY <1>3, <1>15, <2>1 DEF StepFails, Done
  <2>5. left' \in [Bounded -> Nat]
    BY <1>0, <1>15 DEF StepFails, Faults, Typed
  <2> QED  BY <1>0, <1>15, <2>3, <2>4, <2>5 DEF StepFails, Typed
<1>16. ASSUME FindsGone
       PROVE  Goal
  <2>1. mem' = NoHandle /\ jobs' = <<>> /\ wake' = FALSE /\ held' = [held EXCEPT ![Job.tag] = "none"]
        /\ reader' = IF reader.pc = "holds" THEN [reader EXCEPT !.pc = "again"] ELSE reader
    BY <1>16 DEF FindsGone, Forget
  <2>2. reader' \in ReaderRecord
    BY <1>0, <2>1, WaitEnds DEF Typed
  <2>3. held' \in [Tags -> {"none", "chat", "from", "to"}]
    BY <1>0, <2>1 DEF Typed
  <2>4. jobs' \in Seq(JobRecord)
    BY <2>1, EmptySeq
  <2> QED  BY <1>0, <1>16, <2>1, <2>2, <2>3, <2>4 DEF FindsGone, Typed
<1> QED  BY <1>2, <1>5, <1>6, <1>7, <1>8, <1>9, <1>10, <1>11, <1>12, <1>13, <1>14, <1>15, <1>16 DEF JobStep

(* Every step keeps the types: the chat as a whole, and the page. *)
LEMMA TypeOfOtherStep ==
  ASSUME ChatInv,
         Loads \/ RenameMoves \/ RenameEnds \/ RenameThrows \/ Removes \/ Vanishes \/ Crash \/ PowerLoss
           \/ ReaderStep \/ Released \/ HoldEnds
  PROVE  TypeOK'
<1>0. Typed(disk, place, seen, mem, jobs, held, told, wake, reader, acked, calls, left)
  BY TypeParts DEF ChatInv
<1> DEFINE Goal == Typed(disk', place', seen', mem', jobs', held', told', wake', reader', acked', calls', left')
<1> SUFFICES Goal
  BY TypeParts
<1>1. ASSUME Loads  PROVE Goal
  <2>1. place \in Tags /\ disk \in Disk
    BY <1>0, <1>1 DEF Loads, Typed
  <2> PICK h : h = Opened("opening", place)
    OBVIOUS
  <2>2. h \in HandleRecord
    BY <2>1, OpenedIs DEF IsOpened
  <2>3. mem' = h /\ told' \in Statuses
    BY <1>1, <2>2, StatusType DEF Loads, HandleRecord
  <2>4. [kind |-> "recover", ev |-> Plain("interrupted"), to |-> 0, call |-> calls + 1, pc |-> "inside", todo |-> {},
         tag |-> place] \in JobRecord
    BY <1>0, <2>1 DEF JobRecord, Kinds, Plain, Event, EventKinds, Typed
  <2>5. jobs' \in Seq(JobRecord)
    BY <1>1, <2>4 DEF Loads
  <2>6. held' \in [Tags -> {"none", "chat", "from", "to"}] /\ calls' \in Nat
    BY <1>0, <1>1 DEF Loads, Typed
  <2> QED  BY <1>0, <1>1, <2>2, <2>3, <2>5, <2>6 DEF Loads, Typed
<1>2. ASSUME RenameMoves  PROVE Goal
  <2>1. left' \in [Bounded -> Nat]
    <3> PICK rest : rest = [left EXCEPT !.rename = @ - 1]
      OBVIOUS
    <3> PICK less : less = [left EXCEPT !.rename = @ - 1, !.fault = @ - 1]
      OBVIOUS
    <3>1. left' = rest \/ (left.fault > 0 /\ left' = less)
      BY <1>2 DEF RenameMoves
    <3>2. left \in [Bounded -> Nat] /\ left.rename > 0
      BY <1>0, <1>2 DEF RenameMoves, Typed
    <3>3. rest \in [Bounded -> Nat]
      BY <3>2
    <3>4. left.fault > 0 => less \in [Bounded -> Nat]
      <4> SUFFICES ASSUME left.fault > 0  PROVE less \in [Bounded -> Nat]
        OBVIOUS
      <4>1. left.fault \in Nat /\ left.rename \in Nat
        BY <3>2 DEF Bounded
      <4> PICK one : one = left.rename - 1
        OBVIOUS
      <4> PICK two : two = left.fault - 1
        OBVIOUS
      <4>2. one \in Nat /\ two \in Nat
        BY <3>2, <4>1
      <4>3. less = [left EXCEPT !.rename = one, !.fault = two]
        OBVIOUS
      <4> QED  BY <3>2, <4>2, <4>3
    <3> QED  BY <3>1, <3>3, <3>4
  <2>2. held' \in [Tags -> {"none", "chat", "from", "to"}] /\ place' \in Tags \union {"gone"}
    BY <1>0, <1>2 DEF RenameMoves, Typed
  <2>3. UNCHANGED <<disk, seen, mem, jobs, told, wake, reader, acked, calls>>
    BY <1>2 DEF RenameMoves
  <2> QED  BY <1>0, <2>1, <2>2, <2>3 DEF Typed
<1>3. ASSUME RenameEnds \/ RenameThrows  PROVE Goal
  <2>1. held' \in [Tags -> {"none", "chat", "from", "to"}]
    BY <1>0, <1>3, RenameIs DEF Typed, RenameOver
  <2>2. mem' = NoHandle \/ mem' \in HandleRecord
    BY <1>0, <1>3, RenameIs DEF Typed, Relocated
  <2> QED  BY <1>0, <1>3, <2>1, <2>2, RenameIs DEF Typed
<1>4. ASSUME Removes  PROVE Goal
  <2>1. left' \in [Bounded -> Nat]
    BY <1>0, <1>4 DEF Removes, Typed
  <2>2. CASE Forget
    <3>1. mem' = NoHandle /\ jobs' = <<>> /\ wake' = FALSE
          /\ reader' = IF reader.pc = "holds" THEN [reader EXCEPT !.pc = "again"] ELSE reader
      BY <2>2 DEF Forget
    <3>2. reader' \in ReaderRecord
      BY <1>0, <3>1, WaitEnds DEF Typed
    <3>3. jobs' \in Seq(JobRecord)
      BY <3>1, EmptySeq
    <3> QED  BY <1>0, <1>4, <2>1, <3>1, <3>2, <3>3 DEF Removes, Typed
  <2>3. CASE UNCHANGED <<mem, jobs, wake, reader>>
    BY <1>0, <1>4, <2>1, <2>3 DEF Removes, Typed
  <2> QED  BY <1>4, <2>2, <2>3 DEF Removes
<1>5. ASSUME Vanishes  PROVE Goal
  <2>1. left' \in [Bounded -> Nat]
    BY <1>0, <1>5 DEF Vanishes, Typed
  <2> QED  BY <1>0, <1>5, <2>1 DEF Vanishes, Typed
<1>6. ASSUME Crash  PROVE Goal
  <2>1. disk' \in Disk
    <3>1. CASE disk' = disk
      BY <1>0, <3>1 DEF Typed
    <3>2. CASE Appending /\ \E e \in NextEvents : disk' \in LeftBy(disk, Line(e))
      <4>1. jobs # <<>> /\ disk \in Disk
        BY <1>0, <3>2, AppendingIs DEF Typed
      <4> QED  BY <3>2, <4>1, LineIs, LeftByIs
    <3> QED  BY <1>6, <3>1, <3>2 DEF Crash
  <2>2. jobs' \in Seq(JobRecord) /\ mem' = NoHandle /\ wake' \in BOOLEAN /\ told' \in Statuses
    BY <1>6, EmptySeq DEF Crash, Statuses
  <2>3. held' \in [Tags -> {"none", "chat", "from", "to"}] /\ left' \in [Bounded -> Nat]
    BY <1>0, <1>6 DEF Crash, Typed
  <2>4. reader' \in ReaderRecord
    <3>1. <<>> \in Seq(Entry)
      OBVIOUS
    <3> QED  BY <1>0, <1>6, <3>1 DEF Crash, Typed, ReaderRecord
  <2> QED  BY <1>0, <1>6, <2>1, <2>2, <2>3, <2>4 DEF Crash, Typed
<1>7. ASSUME PowerLoss  PROVE Goal
  <2>1. disk' \in Disk
    BY <1>0, <1>7, CutOfIs DEF PowerLoss, Typed, IsCut, ChatInv, LinesKept
  <2>2. reader' \in ReaderRecord /\ left' \in [Bounded -> Nat]
    BY <1>0, <1>7, StartType DEF PowerLoss, Typed
  <2> QED  BY <1>0, <1>7, <2>1, <2>2 DEF PowerLoss, Typed
<1>8. ASSUME NEW idle \in {"holds", "idle"}, Loaded, Replies(idle), reader.pc # "got"  PROVE reader' \in ReaderRecord
  <2>1. reader \in ReaderRecord
    BY <1>0 DEF Typed
  <2>2. mem.st # "none"
    BY <1>8 DEF Loaded, Live
  <2>3. IsStart(mem.kept, Valid(disk.lines)) /\ IsStart(reader.view, Valid(disk.lines))
        /\ reader.cursor = LastSeq(reader.view)
    <3>1. reader.view \o <<>> = reader.view
      BY <2>1, ConcatEmptySeq DEF ReaderRecord
    <3> QED  BY <1>8, <2>2, <3>1 DEF ChatInv, HandleKept, ReaderKept
  <2>4. Rising(Valid(disk.lines))
    BY <1>0, ValidRises DEF Typed, Disk, KeptOf
  <2>5. CASE reader.cursor < Last /\ \E n \in 1..Len(After(reader.cursor)) :
               reader' = [reader EXCEPT !.pc = "got", !.reply = SubSeq(After(reader.cursor), 1, n)]
    <3>1. PICK n \in 1..Len(After(reader.cursor)) :
             reader' = [reader EXCEPT !.pc = "got", !.reply = SubSeq(After(reader.cursor), 1, n)]
      BY <2>5
    <3>2. SubSeq(After(reader.cursor), 1, n) \in Seq(Entry)
      BY <2>3, <2>4, <2>5, AfterContinues DEF Last
    <3> QED  BY <2>1, <3>1, <3>2 DEF ReaderRecord
  <2>6. CASE reader' \in {[reader EXCEPT !.pc = "got", !.reset = TRUE], [reader EXCEPT !.pc = idle],
                          [reader EXCEPT !.pc = "idle"]}
    BY <2>1, <2>6 DEF ReaderRecord
  <2> QED  BY <1>8, <2>5, <2>6 DEF Replies
<1>9. ASSUME Asks \/ AsksAgain  PROVE Goal
  <2>1. reader' \in ReaderRecord
    <3>1. reader \in ReaderRecord
      BY <1>0 DEF Typed
    <3>2. [reader EXCEPT !.pc = "idle"] \in ReaderRecord
      BY <3>1 DEF ReaderRecord
    <3> QED  BY <1>8, <1>9, <3>2 DEF Asks, AsksAgain
  <2> QED  BY <1>0, <1>9, <2>1 DEF Asks, AsksAgain, readerOnly, Typed
<1>10. ASSUME Receives \/ Follows  PROVE Goal
  <2>1. reader \in ReaderRecord /\ LastSeq(reader.reply) \in Nat
    BY <1>0, LastSeqNat DEF Typed, ReaderRecord
  <2>2. reader' \in ReaderRecord
    <3>1. CASE reader' = Start(reader.tag)
      BY <2>1, <3>1, StartType DEF ReaderRecord
    <3>2. CASE place \in Tags /\ reader' = Start(place)
      BY <3>2, StartType
    <3>3. CASE reader' = [reader EXCEPT !.pc = "idle", !.reply = <<>>, !.cursor = LastSeq(reader.reply),
                                         !.view = @ \o reader.reply]
      <4>1. <<>> \in Seq(Entry) /\ reader.view \o reader.reply \in Seq(Entry)
        BY <2>1 DEF ReaderRecord
      <4> QED  BY <2>1, <3>3, <4>1 DEF ReaderRecord
    <3> QED  BY <1>0, <1>10, <3>1, <3>2, <3>3 DEF Receives, Follows, Typed
  <2> QED  BY <1>0, <1>10, <2>2 DEF Receives, Follows, readerOnly, Typed
<1>11. ASSUME Released \/ HoldEnds  PROVE Goal
  <2>1. reader \in ReaderRecord
    BY <1>0 DEF Typed
  <2>2. [reader EXCEPT !.pc = "again"] \in ReaderRecord
    BY <2>1 DEF ReaderRecord
  <2> QED  BY <1>0, <1>11, <2>1, <2>2 DEF Released, HoldEnds, readerOnly, Typed
<1> QED  BY <1>1, <1>2, <1>3, <1>4, <1>5, <1>6, <1>7, <1>9, <1>10, <1>11 DEF ReaderStep

-----------------------------------------------------------------------------
(* Every step keeps the log. *)

(* A line with a number above those of the log counts, and a torn one is no  *)
(* entry.                                                                    *)
LEMMA CountAppend ==
  ASSUME NEW lines \in Seq(Entry), AllCount(lines), NEW x \in Entry, x = Torn \/ LastSeq(Valid(lines)) < x.seq
  PROVE  AllCount(Append(lines, x))
<1> PICK more : more = Append(lines, x)
  OBVIOUS
<1>1. /\ Len(lines) \in Nat /\ Len(more) = Len(lines) + 1 /\ more[Len(lines) + 1] = x
      /\ more \in Seq(Entry) /\ \A i \in 1..Len(lines) : more[i] = lines[i]
  OBVIOUS
<1> SUFFICES ASSUME NEW i \in 1..Len(more), more[i] # Torn PROVE Counts(more, i)
  BY DEF AllCount
<1>2. \A j \in 0..Len(lines) : SeqAt(more, j) = SeqAt(lines, j)
  BY <1>1 DEF SeqAt
<1>3. CASE i \in 1..Len(lines)
  <2>1. Counts(lines, i)
    BY <1>1, <1>3 DEF AllCount
  <2>2. \A j \in 0..i : SeqAt(more, j) = SeqAt(lines, j)
    BY <1>2, <1>3
  <2> QED  BY <1>3, <2>1, <2>2 DEF Counts
<1>4. CASE i = Len(lines) + 1
  <2>1. KeptOf(Valid(lines), lines, Len(lines)) /\ LastSeq(Valid(lines)) < x.seq
    BY <1>1, <1>4, ValidRises
  <2>2. LastSeq(Valid(lines)) \in Nat /\ x.seq \in Nat
    BY <2>1, LastBounds DEF KeptOf, Entry
  <2>3. \A j \in 0..Len(lines) : SeqAt(lines, j) <= LastSeq(Valid(lines)) /\ SeqAt(lines, j) \in Nat
    BY <2>1, SeqNat DEF KeptOf
  <2>4. SeqAt(more, i) = x.seq
    BY <1>1, <1>4 DEF SeqAt
  <2>5. \A j \in 0..(i - 1) : j \in 0..Len(lines)
    BY <1>1, <1>4
  <2> QED  BY <1>2, <2>1, <2>2, <2>3, <2>4, <2>5 DEF Counts
<1> QED  BY <1>1, <1>3, <1>4

(* A line that comes after each whole line keeps the order, a torn one too. *)
LEMMA OrderAppend ==
  ASSUME NEW lines \in Seq(Entry), InOrder(lines), NEW x \in Entry,
         x = Torn \/ \A i \in 1..Len(lines) : lines[i] # Torn => Precedes(lines[i], x)
  PROVE  InOrder(Append(lines, x))
<1> PICK more : more = Append(lines, x)
  OBVIOUS
<1>1. /\ Len(lines) \in Nat /\ Len(more) = Len(lines) + 1 /\ more[Len(lines) + 1] = x
      /\ \A i \in 1..Len(lines) : more[i] = lines[i]
  OBVIOUS
<1> SUFFICES ASSUME NEW i \in 1..Len(more), NEW j \in 1..Len(more), i < j, more[i] # Torn, more[j] # Torn
             PROVE  Precedes(more[i], more[j])
  BY DEF InOrder
<1>2. i \in 1..Len(lines) /\ (j \in 1..Len(lines) \/ j = Len(lines) + 1)
  BY <1>1
<1>3. CASE j \in 1..Len(lines)
  BY <1>1, <1>2, <1>3 DEF InOrder
<1>4. CASE j = Len(lines) + 1
  BY <1>1, <1>2, <1>4
<1> QED  BY <1>2, <1>3, <1>4

(* The first lines of a log count and are in order, as they were. *)
LEMMA CutKeeps ==
  ASSUME NEW lines \in Seq(Entry), AllCount(lines), InOrder(lines), NEW n \in 0..Len(lines)
  PROVE  AllCount(SubSeq(lines, 1, n)) /\ InOrder(SubSeq(lines, 1, n))
<1> PICK cut : cut = SubSeq(lines, 1, n)
  OBVIOUS
<1>1. Len(cut) = n /\ (\A i \in 1..n : cut[i] = lines[i]) /\ n \in Nat /\ Len(lines) \in Nat /\ n <= Len(lines)
  OBVIOUS
<1>2. ASSUME NEW i \in 1..n, cut[i] # Torn  PROVE Counts(cut, i)
  <2>1. Counts(lines, i)
    BY <1>1, <1>2 DEF AllCount
  <2>2. \A j \in 0..i : SeqAt(cut, j) = SeqAt(lines, j)
    BY <1>1 DEF SeqAt
  <2> QED  BY <2>1, <2>2 DEF Counts
<1>3. ASSUME NEW i \in 1..n, NEW j \in 1..n, i < j, cut[i] # Torn, cut[j] # Torn  PROVE Precedes(cut[i], cut[j])
  <2>1. i \in 1..Len(lines) /\ j \in 1..Len(lines)
    BY <1>1
  <2> QED  BY <1>1, <1>3, <2>1 DEF InOrder
<1> QED  BY <1>1, <1>2, <1>3 DEF AllCount, InOrder

(* What a step does to the log: nothing, an append that is fulfilled, one    *)
(* that is not, or the loss of power while no chat is held.                  *)
Stays == disk' = disk /\ acked' = acked

Fulfils == \E e \in NextEvents : disk' = Written(disk, Line(e)) /\ acked' = acked \union {Line(e)}

Leaves == acked' = acked /\ \E e \in NextEvents : disk' \in LeftBy(disk, Line(e))

Cuts == acked' = acked /\ mem.st = "none" /\ disk' \in CutOf(disk)

(* Each step does one of these. *)
LEMMA DiskStep ==
  ASSUME [Next]_vars
  PROVE  Stays \/ (Appending /\ (Fulfils \/ Leaves)) \/ Cuts
<1>1. CASE CallAppend \/ CallInterrupt \/ CallSeen
  BY <1>1 DEF CallAppend, CallInterrupt, CallSeen, Calls, Stays
<1>2. CASE AsksTurn \/ TakesTurn \/ Reopens \/ FindsBusy \/ FindsAtRest \/ ClampsSeen \/ ChecksFirst
             \/ MarksSeen \/ MarksNothing \/ FindsGone \/ RecoversGone
  BY <1>2 DEF AsksTurn, TakesTurn, Reopens, FindsBusy, FindsAtRest, ClampsSeen, ChecksFirst, MarksSeen,
              MarksNothing, FindsGone, RecoversGone, Stays
<1>3. CASE Appends
  BY <1>3 DEF Appends, Fulfils
<1>4. CASE AppendFails
  BY <1>4 DEF AppendFails, Leaves
<1>5. CASE StepFails \/ Loads \/ RenameMoves \/ RenameEnds \/ RenameThrows \/ Removes \/ Vanishes
  BY <1>5 DEF StepFails, Loads, RenameMoves, RenameEnds, RenameThrows, Removes, Vanishes, Stays
<1>6. CASE Crash
  BY <1>6 DEF Crash, Stays, Leaves
<1>7. CASE PowerLoss
  BY <1>7 DEF PowerLoss, Cuts
<1>8. CASE ReaderStep \/ Released \/ HoldEnds
  BY <1>8 DEF ReaderStep, Asks, AsksAgain, Receives, Follows, Released, HoldEnds, readerOnly, Stays
<1>9. CASE UNCHANGED vars
  BY <1>9 DEF vars, Stays
<1> QED  BY <1>1, <1>2, <1>3, <1>4, <1>5, <1>6, <1>7, <1>8, <1>9 DEF Next, JobStep

(* A line that a call writes. *)
Writes(x) == x = Torn \/ \E e \in NextEvents : x = Line(e)

(* The lines after a step. *)
LEMMA LinesStep ==
  ASSUME ChatInv, [Next]_vars
  PROVE  \/ disk'.lines = disk.lines
         \/ Appending /\ \E x \in Entry : Writes(x) /\ disk'.lines = Append(disk.lines, x)
         \/ mem.st = "none" /\ IsCut(disk', disk)
<1>1. disk \in Disk /\ disk.synced <= Len(disk.lines)
  BY TypeNames DEF ChatInv, LinesKept
<1>2. Torn \in Entry
  BY DEF Torn, Entry, Plain, Event, EventKinds
<1>3. CASE Appending /\ Fulfils
  <2>1. PICK e \in NextEvents : disk' = Written(disk, Line(e))
    BY <1>3 DEF Fulfils
  <2>2. Line(e) \in Entry
    BY <1>3, AppendingIs, LineIs
  <2> QED  BY <1>1, <1>3, <2>1, <2>2, WrittenIs DEF Writes
<1>4. CASE Appending /\ Leaves
  <2>1. PICK e \in NextEvents : disk' \in LeftBy(disk, Line(e))
    BY <1>4 DEF Leaves
  <2>2. Line(e) \in Entry
    BY <1>4, AppendingIs, LineIs
  <2>3. disk'.lines = disk.lines \/ disk'.lines = Append(disk.lines, Torn) \/ disk'.lines = Append(disk.lines, Line(e))
    BY <1>1, <2>1, <2>2, LeftByIs
  <2> QED  BY <1>2, <1>4, <2>2, <2>3 DEF Writes
<1>5. CASE Cuts
  BY <1>1, <1>5, CutOfIs DEF Cuts
<1> QED  BY <1>3, <1>4, <1>5, DiskStep DEF Stays

(* Every step keeps the log: whole lines count and stand in the order of the *)
(* calls, and acknowledged lines stay.                                       *)
LEMMA LinesPreserved ==
  ASSUME ChatInv, [Next]_vars
  PROVE  LinesKept' /\ LinesInOrder'
<1>1. disk \in Disk /\ disk.lines \in Seq(Entry) /\ disk.synced \in Nat /\ acked \subseteq Entry
  BY TypeNames DEF ChatInv, Disk
<1>2. AllCount(disk.lines) /\ InOrder(disk.lines) /\ disk.synced <= Len(disk.lines)
      /\ \A e \in acked : \E i \in 1..disk.synced : disk.lines[i] = e
  BY DEF ChatInv, LinesKept, LinesInOrder
<1> PICK lines : lines = disk.lines
  OBVIOUS
<1>3. ASSUME Appending, NEW x \in Entry, Writes(x)  PROVE AllCount(Append(lines, x)) /\ InOrder(Append(lines, x))
  <2>1. jobs # <<>> /\ mem.kept = Valid(lines) /\ Job.pc \in {"writes", "inside"}
    BY <1>3, AppendingIs
  <2>2. CASE x = Torn
    BY <1>1, <1>2, <2>2, CountAppend, OrderAppend
  <2>3. CASE x # Torn
    <3>1. PICK e \in NextEvents : x = Line(e)
      BY <1>3, <2>3 DEF Writes
    <3>2. x.seq = LastSeq(mem.kept) + 1 /\ x.call = Job.call /\ LastSeq(mem.kept) \in Nat
      BY <2>1, <3>1, LineIs, JobRuns
    <3>3. LastSeq(Valid(lines)) < x.seq
      BY <2>1, <3>2
    <3>4. \A i \in 1..Len(lines) : lines[i] # Torn => Precedes(lines[i], x)
      BY <2>1, <3>2 DEF ChatInv, LinesOfCalls, GoesOnFrom, Precedes
    <3> QED  BY <1>1, <1>2, <3>3, <3>4, CountAppend, OrderAppend
  <2> QED  BY <2>2, <2>3
<1>4. AllCount(disk'.lines) /\ InOrder(disk'.lines)
  <2>1. CASE disk'.lines = disk.lines
    BY <1>2, <2>1
  <2>2. CASE Appending /\ \E x \in Entry : Writes(x) /\ disk'.lines = Append(disk.lines, x)
    BY <1>3, <2>2
  <2>3. CASE IsCut(disk', disk)
    <3>1. PICK n \in disk.synced..Len(disk.lines) :
             disk'.lines = SubSeq(disk.lines, 1, n) \/ disk'.lines = Append(SubSeq(disk.lines, 1, n), Torn)
      BY <2>3 DEF IsCut
    <3> PICK cut : cut = SubSeq(disk.lines, 1, n)
      OBVIOUS
    <3>2. n \in 0..Len(disk.lines)
      BY <1>1
    <3>3. cut \in Seq(Entry) /\ AllCount(cut) /\ InOrder(cut)
      BY <1>1, <1>2, <3>2, CutKeeps
    <3>4. Torn \in Entry
      BY DEF Torn, Entry, Plain, Event, EventKinds
    <3> QED  BY <3>1, <3>3, <3>4, CountAppend, OrderAppend
  <2> QED  BY <2>1, <2>2, <2>3, LinesStep
<1>5. disk'.synced <= Len(disk'.lines) /\ \A e \in acked' : \E i \in 1..disk'.synced : disk'.lines[i] = e
  <2>1. CASE Stays
    BY <1>2, <2>1 DEF Stays
  <2>2. CASE Appending /\ Fulfils
    <3>1. PICK e \in NextEvents : disk' = Written(disk, Line(e)) /\ acked' = acked \union {Line(e)}
      BY <2>2 DEF Fulfils
    <3>2. Line(e) \in Entry
      BY <2>2, AppendingIs, LineIs
    <3> PICK x : x = Line(e)
      OBVIOUS
    <3>3. disk'.lines = Append(lines, x) /\ disk'.synced = Len(lines) + 1
      BY <1>1, <3>1, <3>2, WrittenIs
    <3>4. Len(Append(lines, x)) = Len(lines) + 1 /\ Append(lines, x)[Len(lines) + 1] = x /\ Len(lines) \in Nat
          /\ \A i \in 1..Len(lines) : Append(lines, x)[i] = lines[i]
      BY <1>1, <3>2
    <3>5. ASSUME NEW a \in acked'  PROVE \E i \in 1..disk'.synced : disk'.lines[i] = a
      <4>1. CASE a = x
        BY <3>3, <3>4, <4>1
      <4>2. CASE a \in acked
        <5>1. PICK i \in 1..disk.synced : lines[i] = a
          BY <1>2, <4>2
        <5>2. i \in 1..Len(lines) /\ i \in 1..(Len(lines) + 1)
          BY <1>1, <1>2, <3>4
        <5> QED  BY <3>3, <3>4, <5>1, <5>2
      <4> QED  BY <3>1, <4>1, <4>2
    <3>6. disk'.synced <= Len(disk'.lines)
      BY <3>3, <3>4
    <3> QED  BY <3>5, <3>6
  <2>3. CASE Appending /\ Leaves
    <3>1. PICK e \in NextEvents : disk' \in LeftBy(disk, Line(e))
      BY <2>3 DEF Leaves
    <3>2. Line(e) \in Entry /\ Torn \in Entry
      BY <2>3, AppendingIs, LineIs DEF Torn, Entry, Plain, Event, EventKinds
    <3>3. disk'.synced = disk.synced /\ (disk'.lines = lines \/ \E x \in Entry : disk'.lines = Append(lines, x))
      BY <1>1, <3>1, <3>2, LeftByIs
    <3>4. \A x \in Entry : Len(Append(lines, x)) = Len(lines) + 1
             /\ \A i \in 1..Len(lines) : Append(lines, x)[i] = lines[i]
      BY <1>1
    <3>5. disk.synced <= Len(disk'.lines) /\ \A i \in 1..disk.synced : disk'.lines[i] = lines[i]
      BY <1>1, <1>2, <3>3, <3>4
    <3>6. acked' = acked
      BY <2>3 DEF Leaves
    <3> QED  BY <1>2, <3>3, <3>5, <3>6
  <2>4. CASE Cuts
    <3>1. IsCut(disk', disk) /\ acked' = acked
      BY <1>1, <1>2, <2>4, CutOfIs DEF Cuts
    <3>2. disk.synced <= disk'.synced /\ disk'.synced <= Len(disk'.lines) /\ disk'.synced \in Nat
      BY <3>1 DEF IsCut, Disk
    <3>3. PICK n \in disk.synced..Len(disk.lines) :
             disk'.lines = SubSeq(disk.lines, 1, n) \/ disk'.lines = Append(SubSeq(disk.lines, 1, n), Torn)
      BY <3>1 DEF IsCut
    <3> PICK cut : cut = SubSeq(disk.lines, 1, n)
      OBVIOUS
    <3>4. cut \in Seq(Entry) /\ Len(cut) = n /\ \A i \in 1..n : cut[i] = lines[i]
      BY <1>1
    <3>5. \A i \in 1..n : Append(cut, Torn)[i] = lines[i]
      BY <3>4
    <3>6. \A i \in 1..disk.synced : i \in 1..n /\ i \in 1..disk'.synced
      BY <1>1, <3>2
    <3>7. \A i \in 1..disk.synced : disk'.lines[i] = lines[i]
      BY <3>3, <3>4, <3>5, <3>6
    <3>8. ASSUME NEW a \in acked'  PROVE \E i \in 1..disk'.synced : disk'.lines[i] = a
      <4>1. PICK i \in 1..disk.synced : lines[i] = a
        BY <1>2, <3>1
      <4> QED  BY <3>6, <3>7, <4>1
    <3> QED  BY <3>2, <3>8
  <2> QED  BY <2>1, <2>2, <2>3, <2>4, DiskStep
<1> QED  BY <1>4, <1>5 DEF LinesKept, LinesInOrder

-----------------------------------------------------------------------------
(* Every step keeps the order of the calls and the turns. *)

(* The first call ends: the next one is queued, and of a later number. *)
LEMMA RiseShift ==
  ASSUME NEW q \in Seq(JobRecord), q # <<>>, NEW c \in Nat, CallsRise(q, c)
  PROVE  /\ CallsRise(Tail(q), c) /\ Tail(q) \in Seq(JobRecord) /\ Len(Tail(q)) = Len(q) - 1
         /\ Tail(q) # <<>> => Head(Tail(q)).pc = "queued" /\ Head(Tail(q)).kind \in Asked /\ Head(q).call < Head(Tail(q)).call
<1> PICK r : r = Tail(q)
  OBVIOUS
<1>1. r \in Seq(JobRecord) /\ Len(r) = Len(q) - 1 /\ (\A i \in 1..Len(r) : r[i] = q[i + 1]) /\ Len(q) \in Nat
      /\ Len(r) \in Nat
  OBVIOUS
<1>2. \A i \in 1..Len(r) : i + 1 \in 1..Len(q) /\ i + 1 # 1
  BY <1>1
<1>3. ASSUME NEW i \in 1..Len(r), NEW j \in 1..Len(r), i < j  PROVE r[i].call < r[j].call
  BY <1>1, <1>2, <1>3 DEF CallsRise
<1>4. \A i \in 1..Len(r) : r[i].call <= c /\ r[i].pc = "queued" /\ r[i].kind \in Asked
  BY <1>1, <1>2 DEF CallsRise
<1>5. CallsRise(r, c)
  BY <1>3, <1>4 DEF CallsRise
<1>6. ASSUME r # <<>>  PROVE Head(r).pc = "queued" /\ Head(r).kind \in Asked /\ Head(q).call < Head(r).call
  <2>1. 1 \in 1..Len(r) /\ Head(r) = r[1] /\ Head(q) = q[1] /\ 1 \in 1..Len(q) /\ 2 \in 1..Len(q) /\ r[1] = q[2]
    BY <1>1, <1>6
  <2> QED  BY <1>4, <2>1 DEF CallsRise
<1> QED  BY <1>1, <1>5, <1>6

(* The first call goes on under its number. *)
LEMMA RiseReplace ==
  ASSUME NEW q \in Seq(JobRecord), q # <<>>, NEW c \in Nat, CallsRise(q, c), NEW j \in JobRecord, j.call = Head(q).call
  PROVE  CallsRise(<<j>> \o Tail(q), c) /\ IsReplaced(<<j>> \o Tail(q), q, j)
<1> PICK r : r = <<j>> \o Tail(q)
  OBVIOUS
<1>1. IsReplaced(r, q, j) /\ Len(q) \in Nat /\ q[1] = Head(q)
  BY Replaces
<1>2. Len(r) = Len(q) /\ r[1].call = q[1].call /\ \A i \in 2..Len(q) : r[i] = q[i]
  BY <1>1 DEF IsReplaced
<1>3. \A i \in 1..Len(q) : i = 1 \/ i \in 2..Len(q)
  BY <1>1
<1>4. \A i \in 1..Len(q) : r[i].call = q[i].call /\ (i # 1 => r[i].pc = q[i].pc /\ r[i].kind = q[i].kind)
  BY <1>2, <1>3
<1> QED  BY <1>1, <1>2, <1>4 DEF CallsRise

(* A new call has the next number. *)
LEMMA RiseAppend ==
  ASSUME NEW q \in Seq(JobRecord), NEW c \in Nat, CallsRise(q, c), NEW j \in JobRecord, j.call = c + 1, j.pc = "queued",
         j.kind \in Asked
  PROVE  CallsRise(Append(q, j), c + 1) /\ Append(q, j) # <<>>
         /\ Head(Append(q, j)) = IF q = <<>> THEN j ELSE Head(q)
<1> PICK r : r = Append(q, j)
  OBVIOUS
<1>1. /\ r \in Seq(JobRecord) /\ Len(r) = Len(q) + 1 /\ r[Len(q) + 1] = j /\ Len(q) \in Nat
      /\ \A i \in 1..Len(q) : r[i] = q[i]
  OBVIOUS
<1>2. \A i \in 1..Len(r) : i \in 1..Len(q) \/ i = Len(q) + 1
  BY <1>1
<1>3. \A i \in 1..Len(q) : q[i].call \in Nat /\ q[i].call <= c
  <2>1. \A i \in 1..Len(q) : q[i] \in JobRecord
    OBVIOUS
  <2> QED  BY <2>1 DEF CallsRise, JobRecord
<1>4. \A i \in 1..Len(r) : r[i].call <= c + 1 /\ (i # 1 => r[i].pc = "queued" /\ r[i].kind \in Asked)
  BY <1>1, <1>2, <1>3 DEF CallsRise
<1>5. ASSUME NEW i \in 1..Len(r), NEW k \in 1..Len(r), i < k  PROVE r[i].call < r[k].call
  <2>1. i \in 1..Len(q) /\ (k \in 1..Len(q) \/ k = Len(q) + 1)
    BY <1>1, <1>5
  <2> QED  BY <1>1, <1>3, <1>5, <2>1 DEF CallsRise
<1>6. CallsRise(r, c + 1)
  BY <1>4, <1>5 DEF CallsRise
<1>7. r # <<>> /\ Head(r) = IF q = <<>> THEN j ELSE Head(q)
  <2>1. Head(r) = r[1] /\ r # <<>>
    BY <1>1
  <2>2. CASE q = <<>>
    BY <1>1, <2>1, <2>2
  <2>3. CASE q # <<>>
    BY <1>1, <2>1, <2>3
  <2> QED  BY <2>1, <2>2, <2>3
<1> QED  BY <1>6, <1>7

(* A call ends, and the handle is there for the next one, or was let go of   *)
(* with the only call that it had.                                           *)
LEMMA CallEnds ==
  ASSUME ChatInv, jobs # <<>>, JobEnds, calls' = calls,
         mem'.st = "live" \/ (mem'.st = "none" /\ mem.st = "opening")
  PROVE  JobsKept'
<1>1. jobs \in Seq(JobRecord) /\ calls \in Nat /\ CallsRise(jobs, calls) /\ jobs' = Tail(jobs)
  BY TypeNames DEF ChatInv, JobsKept, JobEnds
<1>2. CallsRise(jobs', calls') /\ (jobs' # <<>> => Head(jobs').pc = "queued" /\ Head(jobs').kind \in Asked) /\ Len(jobs') = Len(jobs) - 1
      /\ jobs' \in Seq(JobRecord)
  BY <1>1, RiseShift
<1>3. mem.st = "opening" => Len(jobs) = 1
  BY DEF ChatInv, JobsKept
<1>4. mem'.st = "none" => jobs' = <<>>
  <2>1. mem'.st = "none" => Len(jobs') = 0
    BY <1>2, <1>3
  <2> QED  BY <1>2, <2>1, EmptySeq
<1> QED  BY <1>2, <1>4 DEF JobsKept, Job, Runs, InTurn

(* A call goes on: in its turn it stands where the handle does, and has the  *)
(* turn.                                                                     *)
LEMMA CallGoesOn ==
  ASSUME ChatInv, jobs # <<>>, NEW j \in JobRecord, jobs' = <<j>> \o Tail(jobs), calls' = calls,
         j.call = Job.call, j.kind = Job.kind, mem'.st = mem.st,
         mem.st = "opening" => j.pc \in InTurn,
         j.pc \in InTurn => j.tag = mem'.tag /\ held'[j.tag] = "chat",
         j.pc = "writes" => ~mem'.stale,
         j.pc = "checks" => j.kind = "first" /\ mem.st = "opening"
  PROVE  JobsKept'
<1>1. jobs \in Seq(JobRecord) /\ calls \in Nat /\ CallsRise(jobs, calls)
  BY TypeNames DEF ChatInv, JobsKept
<1>2. CallsRise(jobs', calls') /\ IsReplaced(jobs', jobs, j)
  BY <1>1, RiseReplace DEF Job
<1>3. Head(jobs') = j /\ jobs' # <<>> /\ Len(jobs') = Len(jobs)
  BY <1>2 DEF IsReplaced
<1>4. mem.st # "none" /\ (mem.st = "opening" => Len(jobs) = 1 /\ Job.kind \in {"first", "recover"})
      /\ (mem.st = "live" => Job.kind \in Asked)
  BY DEF ChatInv, JobsKept
<1> QED  BY <1>2, <1>3, <1>4 DEF JobsKept, Job, Runs

(* The calls stay as they are, and the turn of the handle with them. *)
LEMMA CallsStay ==
  ASSUME ChatInv, jobs' = jobs, calls' = calls, mem'.st = mem.st,
         jobs # <<>> /\ Job.pc \in InTurn => mem'.tag = mem.tag /\ held'[mem.tag] = "chat",
         Runs("writes") => ~mem'.stale
  PROVE  JobsKept'
<1>1. JobsKept
  BY DEF ChatInv
<1>2. Job' = Job /\ (\A pc : Runs(pc)' <=> Runs(pc))
  BY DEF Job, Runs
<1> QED  BY <1>1, <1>2 DEF JobsKept

(* The turn of a call that runs is a turn of a tag. *)
LEMMA TurnOf ==
  ASSUME ChatInv, jobs # <<>>, Job.pc \in InTurn
  PROVE  Job.tag = mem.tag /\ mem.tag \in Tags /\ held[mem.tag] = "chat"
BY JobRuns DEF ChatInv, JobsKept, HandleRecord

(* Every step keeps the calls in order, and the first one in its turn. *)
LEMMA JobsPreserved ==
  ASSUME ChatInv, [Next]_vars
  PROVE  JobsKept'
<1>0. /\ jobs \in Seq(JobRecord) /\ calls \in Nat /\ held \in [Tags -> {"none", "chat", "from", "to"}]
      /\ place \in Tags \union {"gone"} /\ (mem = NoHandle \/ mem \in HandleRecord) /\ JobsKept
  BY TypeNames DEF ChatInv
<1>1. ASSUME NEW kind \in Asked, NEW ev \in Event, NEW to \in Nat, NEW bound \in Bounded, Calls(kind, ev, to, bound)
      PROVE  JobsKept'
  <2> PICK j : j = Call(kind, ev, to)
    OBVIOUS
  <2>1. mem \in HandleRecord /\ mem.st = "live" /\ jobs' = Append(jobs, j) /\ calls' = calls + 1
        /\ mem' = mem /\ held' = held
    BY <1>0, <1>1, HandleThere DEF Calls, Live
  <2>2. j \in JobRecord /\ j.call = calls + 1 /\ j.pc = "queued" /\ j.kind \in Asked
    BY <1>0, <2>1 DEF Call, JobRecord, HandleRecord, Asked, Kinds
  <2>3. CallsRise(jobs', calls') /\ jobs' # <<>> /\ Head(jobs') = IF jobs = <<>> THEN j ELSE Head(jobs)
    BY <1>0, <2>1, <2>2, RiseAppend DEF JobsKept
  <2>4. CASE jobs = <<>>
    BY <2>1, <2>2, <2>3, <2>4 DEF JobsKept, Job, Runs, InTurn
  <2>5. CASE jobs # <<>>
    BY <1>0, <2>1, <2>3, <2>5 DEF JobsKept, Job, Runs, InTurn
  <2> QED  BY <2>4, <2>5
<1>2. CASE CallAppend \/ CallInterrupt \/ CallSeen
  <2>1. "append" \in Asked /\ "interrupt" \in Asked /\ "seen" \in Asked /\ "call" \in Bounded /\ "mark" \in Bounded
    BY DEF Asked, Bounded
  <2>2. Plain("interrupted") \in Event /\ Plain("other") \in Event /\ Events \subseteq Event
    BY LiveAssumption DEF Plain, Event, EventKinds
  <2>3. reader.cursor \in Nat
    BY TypeNames DEF ChatInv, ReaderRecord
  <2> QED  BY <1>1, <1>2, <2>1, <2>2, <2>3 DEF CallAppend, CallInterrupt, CallSeen
<1>3. CASE AsksTurn
  <2>1. jobs # <<>> /\ mem \in HandleRecord /\ Job \in JobRecord /\ Job.pc = "queued"
    BY <1>3, JobRuns DEF AsksTurn, Runs
  <2> PICK j : j = [Job EXCEPT !.pc = "waits", !.tag = mem.tag]
    OBVIOUS
  <2>2. j \in JobRecord /\ j.pc = "waits" /\ j.call = Job.call /\ j.kind = Job.kind
    BY <2>1 DEF JobRecord, HandleRecord
  <2>3. jobs' = <<j>> \o Tail(jobs) /\ calls' = calls /\ mem' = mem
    BY <1>3 DEF AsksTurn
  <2>4. mem.st # "opening"
    BY <1>0, <2>1 DEF JobsKept, InTurn
  <2> QED  BY <2>1, <2>2, <2>3, <2>4, CallGoesOn DEF InTurn
<1>4. CASE TakesTurn
  <2>1. jobs # <<>> /\ mem \in HandleRecord /\ Job \in JobRecord /\ Job.pc = "waits" /\ Job.tag \in Tags
    BY <1>4, JobRuns DEF TakesTurn, Runs, JobRecord
  <2>2. mem.st # "opening"
    BY <1>0, <2>1 DEF JobsKept, InTurn
  <2>3. CASE SameTag /\ JobGoes("inside") /\ held' = [held EXCEPT ![Job.tag] = "chat"]
    <3> PICK j : j = [Job EXCEPT !.pc = "inside"]
      OBVIOUS
    <3>1. j \in JobRecord /\ j.pc = "inside" /\ j.call = Job.call /\ j.kind = Job.kind /\ j.tag = mem.tag
      BY <2>1, <2>3 DEF JobRecord, SameTag
    <3>2. jobs' = <<j>> \o Tail(jobs) /\ calls' = calls /\ mem' = mem /\ held'[mem.tag] = "chat"
      BY <1>0, <1>4, <2>1, <2>3 DEF TakesTurn, JobGoes, SameTag
    <3> QED  BY <2>1, <2>2, <3>1, <3>2, CallGoesOn DEF InTurn
  <2>4. CASE JobGoes("queued")
    <3> PICK j : j = [Job EXCEPT !.pc = "queued"]
      OBVIOUS
    <3>1. j \in JobRecord /\ j.pc = "queued" /\ j.call = Job.call /\ j.kind = Job.kind
      BY <2>1 DEF JobRecord
    <3>2. jobs' = <<j>> \o Tail(jobs) /\ calls' = calls /\ mem' = mem
      BY <1>4, <2>4 DEF TakesTurn, JobGoes
    <3> QED  BY <2>1, <2>2, <3>1, <3>2, CallGoesOn DEF InTurn
  <2> QED  BY <1>4, <2>3, <2>4 DEF TakesTurn
<1>5. CASE Reopens
  <2>1. jobs # <<>> /\ mem \in HandleRecord /\ disk \in Disk /\ Job.pc = "inside"
    BY <1>5, JobRuns DEF Reopens, Reopening, Runs
  <2>2. IsOpened(mem', mem.st, mem.tag)
    BY <1>5, <2>1, OpenedIs DEF Reopens, HandleRecord
  <2>3. mem'.st = mem.st /\ mem'.tag = mem.tag /\ ~mem'.stale /\ jobs' = jobs /\ calls' = calls /\ held' = held
    BY <1>5, <2>2 DEF Reopens, IsOpened
  <2> QED  BY <2>1, <2>3, CallsStay, TurnOf DEF InTurn
<1>6. CASE FindsBusy
  <2>1. jobs # <<>> /\ mem \in HandleRecord /\ Job \in JobRecord /\ Job.pc = "inside" /\ ~mem.stale
    BY <1>6, JobRuns DEF FindsBusy, Interrupting, Runs
  <2> PICK j : j = [Job EXCEPT !.pc = "writes", !.todo = mem.fold.open]
    OBVIOUS
  <2>2. j.pc = "writes" /\ j.call = Job.call /\ j.kind = Job.kind /\ j.tag = Job.tag
    BY <2>1 DEF JobRecord
  <2>3. j \in JobRecord
    BY <2>1, JobTypes DEF HandleRecord, Fold
  <2>4. jobs' = <<j>> \o Tail(jobs) /\ calls' = calls /\ mem' = mem /\ held' = held
    BY <1>6 DEF FindsBusy
  <2> QED  BY <2>1, <2>2, <2>3, <2>4, CallGoesOn, TurnOf DEF InTurn
<1>7. CASE FindsAtRest \/ RecoversGone
  <2>1. jobs # <<>>
    BY <1>7 DEF FindsAtRest, RecoversGone, Interrupting, Appending, Runs
  <2>2. mem'.st = "live" /\ JobEnds /\ calls' = calls
    BY <1>7, <2>1, JobRuns, KeptIs DEF FindsAtRest, RecoversGone
  <2> QED  BY <2>1, <2>2, CallEnds
<1>8. CASE Appends
  <2>1. jobs # <<>> /\ mem \in HandleRecord /\ Job \in JobRecord /\ ~mem.stale
    BY <1>8, AppendingIs, JobRuns DEF Appends
  <2>2. PICK e \in NextEvents :
          LET h == FoldEntry([mem EXCEPT !.kept = Append(@, Line(e))], Line(e))
          IN  \/ /\ e.kind = "resolved" /\ Job.pc = "writes"
                 /\ mem' = h
                 /\ jobs' = <<[Job EXCEPT !.todo = @ \ e.reqs]>> \o Tail(jobs)
                 /\ UNCHANGED held
              \/ /\ e.kind # "resolved" \/ Job.pc # "writes"
                 /\ mem' = Kept(h)
                 /\ JobEnds
    BY <1>8 DEF Appends
  <2>3. e \in Event /\ Line(e) \in Entry
    BY <2>1, LineIs
  <2> PICK h : h = FoldEntry([mem EXCEPT !.kept = Append(@, Line(e))], Line(e))
    OBVIOUS
  <2>4. IsTaken(h, mem, Line(e)) /\ h \in HandleRecord
    BY <2>1, <2>3, TakenIs DEF IsTaken
  <2>5. calls' = calls
    BY <1>8 DEF Appends
  <2>6. CASE mem' = h /\ jobs' = <<[Job EXCEPT !.todo = @ \ e.reqs]>> \o Tail(jobs) /\ held' = held /\ Job.pc = "writes"
    <3> PICK j : j = [Job EXCEPT !.todo = @ \ e.reqs]
      OBVIOUS
    <3>1. j \in JobRecord /\ j.pc = "writes" /\ j.call = Job.call /\ j.kind = Job.kind /\ j.tag = Job.tag
      BY <2>1, <2>6 DEF JobRecord
    <3>2. mem'.st = mem.st /\ mem'.tag = mem.tag /\ ~mem'.stale
      BY <2>1, <2>4, <2>6 DEF IsTaken
    <3>3. jobs' = <<j>> \o Tail(jobs)
      BY <2>6
    <3> QED  BY <2>1, <2>5, <2>6, <3>1, <3>2, <3>3, CallGoesOn, TurnOf DEF InTurn
  <2>7. CASE mem' = Kept(h) /\ JobEnds
    BY <2>1, <2>4, <2>5, <2>7, KeptIs, CallEnds
  <2> QED  BY <2>2, <2>6, <2>7
<1>9. CASE AppendFails
  <2>1. jobs # <<>> /\ mem \in HandleRecord /\ Job \in JobRecord /\ calls' = calls /\ Job.pc \in {"inside", "writes"}
    BY <1>9, AppendingIs, JobRuns DEF AppendFails
  <2>2. IsMarked(MarkStale(mem), mem) /\ MarkStale(mem) \in HandleRecord
    BY <2>1, MarkStaleIs DEF IsMarked
  <2>3. CASE Job.kind = "first"
    <3> PICK j : j = [Job EXCEPT !.pc = "checks"]
      OBVIOUS
    <3>1. j \in JobRecord /\ j.pc = "checks" /\ j.call = Job.call /\ j.kind = "first" /\ j.tag = Job.tag
      BY <2>1, <2>3 DEF JobRecord
    <3>2. jobs' = <<j>> \o Tail(jobs) /\ mem' = MarkStale(mem) /\ held' = held
      BY <1>9, <2>3 DEF AppendFails, JobGoes
    <3>3. mem.st = "opening"
      BY <1>0, <2>1, <2>3 DEF JobsKept, Asked, HandleRecord
    <3> QED  BY <2>1, <2>2, <2>3, <3>1, <3>2, <3>3, CallGoesOn, TurnOf DEF InTurn, IsMarked
  <2>4. CASE Job.kind # "first"
    <3>1. mem' = Kept(MarkStale(mem)) /\ JobEnds
      BY <1>9, <2>4 DEF AppendFails
    <3> QED  BY <2>1, <2>2, <3>1, KeptIs, CallEnds
  <2> QED  BY <2>3, <2>4
<1>10. CASE ChecksFirst
  <2>1. jobs # <<>> /\ mem \in HandleRecord /\ disk \in Disk /\ mem.st = "opening"
    BY <1>0, <1>10, JobRuns DEF ChecksFirst, Runs, JobsKept
  <2>2. Opened("live", mem.tag).st = "live" /\ NoHandle.st = "none"
    BY <2>1, OpenedIs DEF HandleRecord, IsOpened, NoHandle
  <2>3. mem' = Opened("live", mem.tag) \/ mem' = NoHandle
    BY <1>10 DEF ChecksFirst
  <2>4. JobEnds /\ calls' = calls
    BY <1>10 DEF ChecksFirst
  <2> QED  BY <2>1, <2>2, <2>3, <2>4, CallEnds
<1>11. CASE MarksSeen \/ MarksNothing
  <2>1. jobs # <<>> /\ Job.kind = "seen" /\ JobEnds /\ calls' = calls /\ mem' = mem
    BY <1>11 DEF MarksSeen, MarksNothing, Marking, Runs
  <2>2. mem.st = "live"
    BY <1>0, <2>1, JobRuns DEF JobsKept, HandleRecord
  <2> QED  BY <2>1, <2>2, CallEnds
<1>12. CASE StepFails
  <2>1. jobs # <<>> /\ JobEnds /\ calls' = calls /\ mem' = IF Runs("checks") THEN NoHandle ELSE Kept(mem)
    BY <1>12 DEF StepFails, Reopening, Appending, Marking, Runs
  <2>2. Kept(mem).st = "live" /\ NoHandle.st = "none"
    BY <2>1, JobRuns, KeptIs DEF NoHandle
  <2>3. Runs("checks") => mem.st = "opening"
    BY <1>0 DEF JobsKept
  <2> QED  BY <2>1, <2>2, <2>3, CallEnds
<1>13. ASSUME mem' = NoHandle, jobs' = <<>>, calls' = calls  PROVE JobsKept'
  BY <1>13, <1>0 DEF JobsKept, CallsRise, NoHandle, Runs, Job
<1>14. CASE FindsGone \/ (Removes /\ Forget) \/ Crash
  BY <1>13, <1>14 DEF FindsGone, Removes, Crash, Forget
<1>15. CASE Loads
  <2> PICK j : j = [kind |-> "recover", ev |-> Plain("interrupted"), to |-> 0, call |-> calls + 1,
                    pc |-> "inside", todo |-> {}, tag |-> place]
    OBVIOUS
  <2>1. disk \in Disk /\ place \in Tags
    BY <1>0, <1>15, TypeNames DEF Loads, ChatInv
  <2>2. IsOpened(mem', "opening", place)
    BY <1>15, <2>1, OpenedIs DEF Loads
  <2>3. jobs' = <<j>> /\ calls' = calls + 1 /\ held'[place] = "chat" /\ mem'.st = "opening" /\ mem'.tag = place
    BY <1>0, <1>15, <2>1, <2>2 DEF Loads, IsOpened
  <2>4. Len(jobs') = 1 /\ Head(jobs') = j /\ jobs'[1] = j /\ jobs' # <<>>
    BY <2>3
  <2>5. CallsRise(jobs', calls')
    BY <1>0, <2>3, <2>4 DEF CallsRise
  <2> QED  BY <2>3, <2>4, <2>5 DEF JobsKept, Job, Runs, InTurn
<1>16. CASE RenameMoves
  <2>1. held'[mem.tag] = held[mem.tag] \/ held[mem.tag] = "none" \/ mem.tag \notin Tags
    BY <1>0, <1>16 DEF RenameMoves
  <2>2. jobs' = jobs /\ calls' = calls /\ mem' = mem
    BY <1>16 DEF RenameMoves
  <2>3. jobs # <<>> /\ Job.pc \in InTurn => held'[mem.tag] = "chat"
    BY <2>1, TurnOf
  <2>4. Runs("writes") => ~mem'.stale
    BY <1>0, <2>2 DEF JobsKept
  <2> QED  BY <2>2, <2>3, <2>4, CallsStay
<1>17. CASE RenameEnds \/ RenameThrows
  <2>1. PICK from \in Tags, to \in Tags : Renaming(from, to) /\ RenameOver(from, to)
    BY <1>17, RenameIs
  <2>2. jobs' = jobs /\ calls' = calls /\ mem'.st = mem.st /\ (Runs("writes") => ~mem'.stale)
    BY <1>0, <1>17, RenameIs DEF Relocated, JobsKept
  <2>3. jobs # <<>> /\ Job.pc \in InTurn => mem'.tag = mem.tag /\ held'[mem.tag] = "chat"
    <3> SUFFICES ASSUME jobs # <<>>, Job.pc \in InTurn  PROVE mem'.tag = mem.tag /\ held'[mem.tag] = "chat"
      OBVIOUS
    <3>1. mem.tag \in Tags /\ held[mem.tag] = "chat"
      BY TurnOf
    <3>2. held'[mem.tag] = "chat"
      BY <1>0, <2>1, <3>1 DEF Renaming, RenameOver
    <3>3. mem'.tag = mem.tag
      <4>1. mem \in HandleRecord
        BY JobRuns
      <4>2. RenameEnds => mem' = mem
        BY <3>1 DEF RenameEnds, Renaming
      <4>3. RenameThrows => mem' = mem
        BY <3>1 DEF RenameThrows, Renaming
      <4> QED  BY <1>17, <4>2, <4>3
    <3> QED  BY <3>2, <3>3
  <2> QED  BY <2>2, <2>3, CallsStay
<1>18. CASE ClampsSeen \/ (Removes /\ ~Forget) \/ Vanishes \/ PowerLoss \/ ReaderStep \/ Released \/ HoldEnds
             \/ UNCHANGED vars
  <2>1. jobs' = jobs /\ calls' = calls /\ mem' = mem /\ held' = held
    BY <1>18 DEF ClampsSeen, Removes, Vanishes, PowerLoss, ReaderStep, Asks, AsksAgain, Receives, Follows, Released, HoldEnds,
                 readerOnly, vars
  <2>2. Runs("writes") => ~mem'.stale
    BY <1>0, <2>1 DEF JobsKept
  <2> QED  BY <2>1, <2>2, CallsStay, TurnOf
<1> QED  BY <1>2, <1>3, <1>4, <1>5, <1>6, <1>7, <1>8, <1>9, <1>10, <1>11, <1>12, <1>14, <1>15, <1>16, <1>17, <1>18
         DEF Next, JobStep

-----------------------------------------------------------------------------
(* Every step keeps the handle at the place of the folder. *)

(* A call in its turn finds the folder where the handle looks, if anywhere,  *)
(* unless the handle was left behind.                                        *)
LEMMA InTurnHere ==
  ASSUME ChatInv, jobs # <<>>, Job.pc \in InTurn
  PROVE  mem.st # "none" /\ (place \in {"gone", mem.tag} \/ mem.astray)
BY TurnOf DEF ChatInv, PlaceKept, JobsKept, Renaming

(* The folder stays, and the handle stays where it is or goes. *)
HandleStays ==
  /\ place' = place
  /\ \/ mem' = NoHandle
     \/ mem'.tag = mem.tag /\ mem'.astray = mem.astray /\ (mem'.st = "opening" => mem.st = "opening")

(* A call in its turn that leaves the handle where it is. *)
LEMMA PlaceStays ==
  ASSUME ChatInv, jobs # <<>>, Job.pc \in InTurn, HandleStays
  PROVE  PlaceKept'
<1>1. mem.st # "none" /\ (place \in {"gone", mem.tag} \/ mem.astray) /\ (mem.st = "opening" => ~mem.astray)
  BY InTurnHere DEF ChatInv, PlaceKept
<1> QED  BY <1>1 DEF HandleStays, PlaceKept, NoHandle

(* Every step keeps the handle at the place of the folder, or a rename holds *)
(* both, or it was left behind.                                              *)
LEMMA PlacePreserved ==
  ASSUME ChatInv, [Next]_vars
  PROVE  PlaceKept'
<1>0. /\ held \in [Tags -> {"none", "chat", "from", "to"}] /\ place \in Tags \union {"gone"}
      /\ mem = NoHandle \/ mem \in HandleRecord
      /\ disk \in Disk /\ PlaceKept /\ TurnsKept
  BY TypeNames DEF ChatInv
<1>2. ASSUME place' = place, mem' = mem, held' = held  PROVE PlaceKept'
  BY <1>0, <1>2 DEF PlaceKept, Renaming
<1>3. CASE CallAppend \/ CallInterrupt \/ CallSeen \/ AsksTurn \/ PowerLoss \/ ReaderStep \/ Released \/ HoldEnds
           \/ UNCHANGED vars
  BY <1>2, <1>3 DEF CallAppend, CallInterrupt, CallSeen, Calls, AsksTurn, PowerLoss, ReaderStep, Asks, AsksAgain,
                    Receives, Follows, Released, HoldEnds, readerOnly, vars
<1>4. CASE TakesTurn
  <2>1. place' = place /\ mem' = mem
    BY <1>4 DEF TakesTurn
  <2>2. held' = held \/ (Job.tag = mem.tag /\ held[mem.tag] = "none" /\ held' = [held EXCEPT ![mem.tag] = "chat"])
    BY <1>4 DEF TakesTurn, SameTag
  <2>3. CASE held' = held
    BY <1>2, <2>1, <2>3
  <2>4. CASE held[mem.tag] = "none"
    BY <1>0, <2>1, <2>4 DEF PlaceKept, Renaming
  <2> QED  BY <2>2, <2>3, <2>4
<1>5. CASE FindsBusy \/ ClampsSeen \/ MarksSeen \/ MarksNothing
  <2>1. jobs # <<>> /\ Job.pc \in InTurn /\ HandleStays
    BY <1>5 DEF FindsBusy, Interrupting, ClampsSeen, Appending, MarksSeen, MarksNothing, Marking, Runs, InTurn,
                HandleStays
  <2> QED  BY <2>1, PlaceStays
<1>6. CASE Reopens
  <2>1. jobs # <<>> /\ Job.pc \in InTurn /\ place = mem.tag /\ place' = place
    BY <1>6 DEF Reopens, Reopening, Runs, InTurn, Here
  <2>2. mem'.tag = mem.tag /\ ~mem'.astray
    BY <1>6, <2>1, JobRuns, OpenedIs DEF Reopens, HandleRecord, IsOpened
  <2> QED  BY <2>1, <2>2 DEF PlaceKept
<1>7. CASE FindsAtRest \/ RecoversGone
  <2>1. jobs # <<>> /\ Job.pc \in InTurn
    BY <1>7 DEF FindsAtRest, Interrupting, RecoversGone, Appending, Runs, InTurn
  <2>2. HandleStays
    BY <1>7, <2>1, JobRuns, KeptIs DEF FindsAtRest, RecoversGone, SameHandle, HandleStays
  <2> QED  BY <2>1, <2>2, PlaceStays
<1>8. CASE Appends
  <2>1. jobs # <<>> /\ Job.pc \in InTurn /\ mem \in HandleRecord
    BY <1>8, AppendingIs, JobRuns DEF Appends, InTurn
  <2>2. PICK e \in NextEvents :
          LET h == FoldEntry([mem EXCEPT !.kept = Append(@, Line(e))], Line(e))
          IN  mem' = h \/ mem' = Kept(h)
    BY <1>8 DEF Appends
  <2> PICK h : h = FoldEntry([mem EXCEPT !.kept = Append(@, Line(e))], Line(e))
    OBVIOUS
  <2>3. IsTaken(h, mem, Line(e)) /\ h \in HandleRecord
    BY <2>1, LineIs, TakenIs DEF IsTaken
  <2>4. HandleStays
    <3>1. mem' = h \/ (SameHandle(mem', h) /\ mem'.st = "live")
      BY <2>2, <2>3, KeptIs
    <3>2. place' = place
      BY <1>8 DEF Appends
    <3> QED  BY <2>3, <3>1, <3>2 DEF IsTaken, SameHandle, HandleStays
  <2> QED  BY <2>1, <2>4, PlaceStays
<1>9. CASE AppendFails
  <2>1. jobs # <<>> /\ Job.pc \in InTurn /\ mem \in HandleRecord
    BY <1>9, AppendingIs, JobRuns DEF AppendFails, InTurn
  <2> PICK n : n = MarkStale(mem)
    OBVIOUS
  <2>2. IsMarked(n, mem) /\ n \in HandleRecord
    BY <2>1, MarkStaleIs DEF IsMarked
  <2>3. mem' = n \/ (SameHandle(mem', n) /\ mem'.st = "live")
    BY <1>9, <2>2, KeptIs DEF AppendFails
  <2>4. place' = place
    BY <1>9 DEF AppendFails
  <2>5. HandleStays
    BY <2>2, <2>3, <2>4 DEF IsMarked, SameHandle, HandleStays
  <2> QED  BY <2>1, <2>5, PlaceStays
<1>10. CASE ChecksFirst
  <2>1. jobs # <<>> /\ place = mem.tag /\ place' = place
    BY <1>10 DEF ChecksFirst, Runs, Here
  <2>2. mem' = NoHandle \/ (mem'.tag = mem.tag /\ ~mem'.astray)
    BY <1>10, <2>1, JobRuns, OpenedIs DEF ChecksFirst, HandleRecord, IsOpened
  <2> QED  BY <2>1, <2>2 DEF PlaceKept, NoHandle
<1>11. CASE StepFails
  <2>1. jobs # <<>> /\ Job.pc \in InTurn
    BY <1>11 DEF StepFails, Reopening, Appending, Marking, Runs, InTurn
  <2>2. HandleStays
    BY <1>11, <2>1, JobRuns, KeptIs DEF StepFails, SameHandle, HandleStays
  <2> QED  BY <2>1, <2>2, PlaceStays
<1>12. CASE FindsGone \/ Removes \/ Crash
  <2>1. CASE mem' = NoHandle
    BY <2>1 DEF PlaceKept, NoHandle
  <2>2. CASE Removes /\ mem' = mem
    BY <1>0, <2>2 DEF Removes, PlaceKept
  <2> QED  BY <1>12, <2>1, <2>2 DEF FindsGone, Removes, Crash, Forget
<1>13. CASE Loads
  <2>1. mem'.tag = place /\ place' = place /\ ~mem'.astray
    BY <1>0, <1>13, OpenedIs DEF Loads, IsOpened
  <2> QED  BY <2>1 DEF PlaceKept
<1>14. CASE RenameMoves
  <2>1. PICK to \in Tags \ {place} :
          /\ held[place] = "none" /\ held' = [held EXCEPT ![place] = "from", ![to] = "to"]
          /\ place' = to \/ place' = "gone"
    BY <1>14 DEF RenameMoves
  <2>2. mem' = mem /\ place \in Tags /\ place # "gone"
    BY <1>0, <1>14 DEF RenameMoves
  <2>3. held'[place] = "from" /\ held'[to] = "to"
    BY <1>0, <2>1, <2>2
  <2>4. mem.st # "none" => place = mem.tag \/ mem.astray
    BY <1>0, <2>1, <2>2 DEF PlaceKept, Renaming
  <2> QED  BY <1>0, <2>1, <2>2, <2>3, <2>4 DEF PlaceKept, Renaming
<1>15. CASE RenameEnds \/ RenameThrows
  <2> SUFFICES ASSUME mem'.st # "none"  PROVE PlaceKept'
    BY <1>15 DEF PlaceKept
  <2>1. place' = place
    BY <1>15, RenameIs
  <2>2. mem.st # "none" /\ mem \in HandleRecord
    <3>1. mem.st # "none"
      BY <1>15, RenameIs DEF Relocated
    <3> QED  BY <1>0, <3>1, HandleThere
  <2>3. CASE Live
    <3>1. mem.st = "live"
      BY <2>3 DEF Live
    <3>2. mem'.st = "live"
      BY <1>15, <3>1, RenameIs DEF Relocated
    <3>3. CASE place \in {"gone", mem.tag} /\ mem' = mem
      BY <2>1, <3>2, <3>3 DEF PlaceKept
    <3>4. CASE mem'.astray
      BY <3>2, <3>4 DEF PlaceKept
    <3>5. CASE RenameEnds
      <4>1. PICK from \in Tags, to \in Tags :
              /\ Renaming(from, to) /\ RenameOver(from, to)
              /\ \/ mem.tag = from /\ mem' = [mem EXCEPT !.tag = to, !.astray = FALSE]
                 \/ mem.tag # from /\ mem' = mem
        BY <2>3, <3>5 DEF RenameEnds
      <4>2. place \in {"gone", to}
        BY <1>0, <4>1 DEF TurnsKept, Renaming
      <4>3. CASE mem.tag = from /\ mem' = [mem EXCEPT !.tag = to, !.astray = FALSE]
        <5>1. mem'.tag = to
          BY <2>2, <4>3 DEF HandleRecord
        <5> QED  BY <2>1, <3>2, <4>2, <5>1 DEF PlaceKept
      <4>4. CASE mem.tag # from /\ mem' = mem
        <5>1. mem.tag \in Tags /\ held[mem.tag] # "from"
          BY <1>0, <2>2, <4>1, <4>4 DEF TurnsKept, Renaming, HandleRecord
        <5> QED  BY <1>0, <2>2, <3>3, <3>4, <4>4, <5>1 DEF PlaceKept, Renaming
      <4> QED  BY <4>1, <4>3, <4>4
    <3>6. CASE RenameThrows
      <4>1. PICK from \in Tags, to \in Tags :
              /\ Renaming(from, to) /\ RenameOver(from, to)
              /\ mem' = IF mem.tag = from THEN [mem EXCEPT !.astray = TRUE] ELSE mem
        BY <2>3, <3>6 DEF RenameThrows
      <4>2. CASE mem.tag = from
        <5>1. mem'.astray
          BY <2>2, <4>1, <4>2 DEF HandleRecord
        <5> QED  BY <3>4, <5>1
      <4>3. CASE mem.tag # from
        <5>1. mem.tag \in Tags /\ held[mem.tag] # "from" /\ mem' = mem
          BY <1>0, <2>2, <4>1, <4>3 DEF TurnsKept, Renaming, HandleRecord
        <5> QED  BY <1>0, <2>2, <3>3, <3>4, <5>1 DEF PlaceKept, Renaming
      <4> QED  BY <4>2, <4>3
    <3> QED  BY <1>15, <3>5, <3>6
  <2>4. CASE ~Live
    <3>1. mem' = mem /\ mem.st = "opening" /\ jobs # <<>> /\ Job.pc \in InTurn
      <4>1. mem.st = "opening"
        BY <2>2, <2>4 DEF Live, HandleRecord
      <4>2. mem' = mem
        BY <1>15, <4>1, RenameIs DEF Relocated
      <4>3. Len(jobs) = 1 /\ Job.pc \in InTurn
        BY <4>1 DEF ChatInv, JobsKept
      <4> QED  BY <4>1, <4>2, <4>3
    <3>2. place \in {"gone", mem.tag} /\ ~mem.astray
      BY <1>0, <3>1, InTurnHere DEF PlaceKept
    <3> QED  BY <2>1, <3>1, <3>2 DEF PlaceKept
  <2> QED  BY <2>3, <2>4
<1>16. CASE Vanishes
  BY <1>0, <1>16 DEF Vanishes, PlaceKept
<1> QED  BY <1>3, <1>4, <1>5, <1>6, <1>7, <1>8, <1>9, <1>10, <1>11, <1>12, <1>13, <1>14, <1>15, <1>16 DEF Next, JobStep

(* A turn that a call takes or gives back, while the folder stays. *)
TurnChanges ==
  /\ place' = place
  /\ \E t \in Tags, who \in {"none", "chat"} :
       held[t] \in {"none", "chat"} /\ held' = [held EXCEPT ![t] = who]

(* The end of a call gives back the turn that the call had. *)
LEMMA EndChanges ==
  ASSUME ChatInv, jobs # <<>>, Job.pc \in InTurn, place' = place, held' = [held EXCEPT ![Job.tag] = "none"]
  PROVE  TurnChanges
BY TurnOf DEF TurnChanges

(* Every step keeps one rename at a time, and the folder where it brings it. *)
LEMMA TurnsPreserved ==
  ASSUME ChatInv, [Next]_vars
  PROVE  TurnsKept'
<1>0. /\ held \in [Tags -> {"none", "chat", "from", "to"}] /\ place \in Tags \union {"gone"}
      /\ TurnsKept
  BY TypeNames DEF ChatInv
<1>1. ASSUME held' = held, place' \in {place, "gone"}  PROVE TurnsKept'
  BY <1>0, <1>1 DEF TurnsKept
<1>2. ASSUME TurnChanges  PROVE TurnsKept'
  <2>1. PICK t \in Tags, who \in {"none", "chat"} : held[t] \in {"none", "chat"} /\ held' = [held EXCEPT ![t] = who]
    BY <1>2 DEF TurnChanges
  <2>2. place' = place
    BY <1>2 DEF TurnChanges
  <2>3. \A s \in Tags : /\ held'[s] = "from" <=> held[s] = "from"
                        /\ held'[s] = "to" <=> held[s] = "to"
    BY <1>0, <2>1
  <2> QED  BY <1>0, <2>2, <2>3 DEF TurnsKept
<1>3. CASE CallAppend \/ CallInterrupt \/ CallSeen \/ AsksTurn \/ Reopens \/ FindsBusy \/ ClampsSeen \/ PowerLoss
           \/ Removes \/ Vanishes \/ ReaderStep \/ Released \/ HoldEnds \/ UNCHANGED vars
  <2>1. held' = held /\ place' \in {place, "gone"}
    BY <1>3 DEF CallAppend, CallInterrupt, CallSeen, Calls, AsksTurn, Reopens, FindsBusy, ClampsSeen, PowerLoss,
                Removes, Vanishes, ReaderStep, Asks, AsksAgain, Receives, Follows, Released, HoldEnds, readerOnly, vars
  <2> QED  BY <1>1, <2>1
<1>4. CASE TakesTurn
  <2>1. Job.tag \in Tags
    <3>1. jobs # <<>>
      BY <1>4 DEF TakesTurn, Runs
    <3> QED  BY <3>1, JobRuns DEF JobRecord
  <2>2. place' = place /\ (held' = held \/ held' = [held EXCEPT ![Job.tag] = "chat"]) /\ held[Job.tag] = "none"
    BY <1>4 DEF TakesTurn
  <2> QED  BY <1>1, <1>2, <2>1, <2>2 DEF TurnChanges
<1>5. CASE FindsAtRest \/ Appends \/ AppendFails \/ ChecksFirst \/ MarksSeen \/ MarksNothing \/ StepFails \/ FindsGone
           \/ RecoversGone
  <2>1. place' = place /\ (held' = held \/ held' = [held EXCEPT ![Job.tag] = "none"])
    BY <1>5 DEF FindsAtRest, Appends, AppendFails, ChecksFirst, MarksSeen, MarksNothing, StepFails, FindsGone,
                RecoversGone, JobEnds
  <2>2. jobs # <<>> /\ Job.pc \in InTurn
    BY <1>5 DEF FindsAtRest, Interrupting, Appends, AppendFails, Appending, ChecksFirst, MarksSeen, MarksNothing,
                Marking, StepFails, FindsGone, RecoversGone, Reopening, Runs, InTurn
  <2> QED  BY <1>1, <1>2, <2>1, <2>2, EndChanges
<1>6. CASE Loads
  <2>1. place \in Tags /\ held[place] = "none" /\ held' = [held EXCEPT ![place] = "chat"] /\ place' = place
    BY <1>0, <1>6 DEF Loads
  <2> QED  BY <1>2, <2>1 DEF TurnChanges
<1>7. CASE Crash
  <2>1. \A t \in Tags : held'[t] = "none"
    BY <1>7 DEF Crash
  <2> QED  BY <2>1 DEF TurnsKept
<1>8. CASE RenameMoves
  <2>1. PICK to \in Tags \ {place} :
          /\ held[place] = "none" /\ held[to] = "none" /\ held' = [held EXCEPT ![place] = "from", ![to] = "to"]
          /\ place' = to \/ place' = "gone"
    BY <1>8 DEF RenameMoves
  <2>2. place \in Tags /\ place # "gone"
    BY <1>0, <1>8 DEF RenameMoves
  <2>3. \A t \in Tags : held[t] \notin {"from", "to"}
    BY <1>0, <2>1, <2>2 DEF TurnsKept
  <2>4. \A t \in Tags : (held'[t] = "from" <=> t = place) /\ (held'[t] = "to" <=> t = to)
    BY <1>0, <2>1, <2>2, <2>3
  <2> QED  BY <2>1, <2>2, <2>4 DEF TurnsKept
<1>9. CASE RenameEnds \/ RenameThrows
  <2>1. PICK from \in Tags, to \in Tags : Renaming(from, to) /\ RenameOver(from, to)
    BY <1>9, RenameIs
  <2>2. place' = place
    BY <1>9, RenameIs
  <2>3. \A t \in Tags : held'[t] # "from" /\ (held'[t] = "to" => held[t] = "to")
    BY <1>0, <2>1 DEF TurnsKept, Renaming, RenameOver
  <2> QED  BY <1>0, <2>2, <2>3 DEF TurnsKept
<1> QED  BY <1>3, <1>4, <1>5, <1>6, <1>7, <1>8, <1>9 DEF Next, JobStep

-----------------------------------------------------------------------------
(* Every step keeps the lines to the calls. *)

(* How the first call moves: another one is first, or it goes on and does    *)
(* not go back from its writes, or it is the first at all.                   *)
JobMoves ==
  jobs' # <<>> =>
    \/ jobs # <<>> /\ Job.call < Job'.call
    \/ /\ jobs # <<>> /\ Job'.call = Job.call
       /\ Job.pc = "checks" => Job'.pc = "checks"
       /\ Job.pc = "writes" => Job'.pc \in {"writes", "checks"}
    \/ jobs = <<>> /\ Job'.call = calls + 1

(* Each step moves the calls like that, and gives no number again. *)
LEMMA JobStepIs ==
  ASSUME ChatInv, [Next]_vars
  PROVE  JobMoves /\ calls' \in Nat /\ calls <= calls'
<1>0. jobs \in Seq(JobRecord) /\ calls \in Nat /\ CallsRise(jobs, calls)
  BY TypeNames DEF ChatInv, JobsKept
<1>1. ASSUME NEW kind \in Asked, NEW ev \in Event, NEW to \in Nat, NEW bound \in Bounded, Calls(kind, ev, to, bound)
      PROVE  JobMoves /\ calls' = calls + 1
  <2> PICK j : j = Call(kind, ev, to)
    OBVIOUS
  <2>1. mem \in HandleRecord /\ jobs' = Append(jobs, j) /\ calls' = calls + 1
    BY <1>1, HandleThere, TypeNames DEF Calls, Live, ChatInv
  <2>2. j \in JobRecord /\ j.call = calls + 1 /\ j.pc = "queued" /\ j.kind \in Asked
    BY <1>0, <2>1 DEF Call, JobRecord, HandleRecord, Asked, Kinds
  <2>3. Head(jobs') = IF jobs = <<>> THEN j ELSE Head(jobs)
    BY <1>0, <2>1, <2>2, RiseAppend
  <2> QED  BY <2>1, <2>2, <2>3 DEF JobMoves, Job
<1>2. CASE CallAppend \/ CallInterrupt \/ CallSeen
  <2>1. "append" \in Asked /\ "interrupt" \in Asked /\ "seen" \in Asked /\ "call" \in Bounded /\ "mark" \in Bounded
    BY DEF Asked, Bounded
  <2>2. Plain("interrupted") \in Event /\ Plain("other") \in Event /\ Events \subseteq Event
    BY LiveAssumption DEF Plain, Event, EventKinds
  <2>3. reader.cursor \in Nat
    BY TypeNames DEF ChatInv, ReaderRecord
  <2>4. JobMoves /\ calls' = calls + 1
    BY <1>1, <1>2, <2>1, <2>2, <2>3 DEF CallAppend, CallInterrupt, CallSeen
  <2> QED  BY <1>0, <2>4
<1>3. ASSUME JobEnds, jobs # <<>>  PROVE JobMoves
  BY <1>0, <1>3, RiseShift DEF JobEnds, JobMoves, Job
<1>4. ASSUME NEW j \in JobRecord, jobs # <<>>, jobs' = <<j>> \o Tail(jobs), j.call = Job.call,
             Job.pc = "checks" => j.pc = "checks",
             Job.pc = "writes" => j.pc \in {"writes", "checks"}
      PROVE  JobMoves
  <2>1. Head(jobs') = j
    BY <1>0, <1>4, Replaces DEF IsReplaced
  <2> QED  BY <1>4, <2>1 DEF JobMoves, Job
<1>5. CASE AsksTurn
  <2>1. jobs # <<>> /\ mem \in HandleRecord /\ Job \in JobRecord /\ Job.pc = "queued"
    BY <1>5, JobRuns DEF AsksTurn, Runs
  <2> PICK j : j = [Job EXCEPT !.pc = "waits", !.tag = mem.tag]
    OBVIOUS
  <2>2. j \in JobRecord /\ j.call = Job.call
    BY <2>1 DEF JobRecord, HandleRecord
  <2>3. jobs' = <<j>> \o Tail(jobs) /\ calls' = calls
    BY <1>5 DEF AsksTurn
  <2>4. JobMoves
    BY <1>4, <2>1, <2>2, <2>3
  <2> QED  BY <1>0, <2>3, <2>4
<1>6. CASE TakesTurn
  <2>1. jobs # <<>> /\ Job \in JobRecord /\ Job.pc = "waits"
    BY <1>6, JobRuns DEF TakesTurn, Runs
  <2>2. \A pc \in {"queued", "inside"} : [Job EXCEPT !.pc = pc] \in JobRecord /\ [Job EXCEPT !.pc = pc].call = Job.call
    BY <2>1 DEF JobRecord
  <2>3. \E j \in JobRecord : j.call = Job.call /\ jobs' = <<j>> \o Tail(jobs)
    BY <1>6, <2>2 DEF TakesTurn, JobGoes
  <2>4. calls' = calls
    BY <1>6 DEF TakesTurn
  <2>5. JobMoves
    BY <1>4, <2>1, <2>3, <2>4
  <2> QED  BY <1>0, <2>4, <2>5
<1>7. CASE FindsBusy
  <2>1. jobs # <<>> /\ mem \in HandleRecord /\ Job \in JobRecord /\ Job.pc = "inside"
    BY <1>7, JobRuns DEF FindsBusy, Interrupting, Runs
  <2>2. mem.fold.open \in SUBSET Requests
    BY <2>1 DEF HandleRecord, Fold
  <2> PICK j : j = [Job EXCEPT !.pc = "writes", !.todo = mem.fold.open]
    OBVIOUS
  <2>3. j \in JobRecord /\ j.call = Job.call
    BY <2>1, <2>2 DEF JobRecord
  <2>4. jobs' = <<j>> \o Tail(jobs) /\ calls' = calls
    BY <1>7 DEF FindsBusy
  <2>5. JobMoves
    BY <1>4, <2>1, <2>3, <2>4
  <2> QED  BY <1>0, <2>4, <2>5
<1>8. CASE FindsAtRest \/ RecoversGone \/ ChecksFirst \/ MarksSeen \/ MarksNothing \/ StepFails
  <2>1. jobs # <<>> /\ JobEnds /\ calls' = calls
    BY <1>8 DEF FindsAtRest, RecoversGone, ChecksFirst, MarksSeen, MarksNothing, StepFails, Interrupting, Appending,
                Reopening, Marking, Runs
  <2> QED  BY <1>0, <1>3, <2>1
<1>9. CASE Appends
  <2>1. jobs # <<>> /\ Job \in JobRecord /\ calls' = calls
    BY <1>9, AppendingIs, JobRuns DEF Appends
  <2>2. PICK e \in NextEvents :
          jobs' = <<[Job EXCEPT !.todo = @ \ e.reqs]>> \o Tail(jobs) \/ JobEnds
    BY <1>9 DEF Appends
  <2> PICK j : j = [Job EXCEPT !.todo = @ \ e.reqs]
    OBVIOUS
  <2>3. j \in JobRecord /\ j.call = Job.call /\ j.pc = Job.pc
    BY <2>1 DEF JobRecord
  <2>4. CASE jobs' = <<j>> \o Tail(jobs)
    <3>1. JobMoves
      BY <1>4, <2>1, <2>3, <2>4
    <3> QED  BY <1>0, <2>1, <3>1
  <2>5. CASE JobEnds
    BY <1>0, <1>3, <2>1, <2>5
  <2> QED  BY <2>2, <2>4, <2>5
<1>10. CASE AppendFails
  <2>1. jobs # <<>> /\ Job \in JobRecord /\ calls' = calls
    BY <1>10, AppendingIs, JobRuns DEF AppendFails
  <2>2. jobs' = <<[Job EXCEPT !.pc = "checks"]>> \o Tail(jobs) \/ JobEnds
    BY <1>10 DEF AppendFails, JobGoes
  <2> PICK j : j = [Job EXCEPT !.pc = "checks"]
    OBVIOUS
  <2>3. j \in JobRecord /\ j.call = Job.call /\ j.pc = "checks"
    BY <2>1 DEF JobRecord
  <2>4. CASE jobs' = <<j>> \o Tail(jobs)
    <3>1. JobMoves
      BY <1>4, <2>1, <2>3, <2>4
    <3> QED  BY <1>0, <2>1, <3>1
  <2>5. CASE JobEnds
    BY <1>0, <1>3, <2>1, <2>5
  <2> QED  BY <2>2, <2>4, <2>5
<1>11. CASE FindsGone \/ (Removes /\ Forget) \/ Crash
  BY <1>0, <1>11 DEF FindsGone, Removes, Crash, Forget, JobMoves
<1>12. CASE Loads
  <2>1. Head(jobs').call = calls + 1 /\ calls' = calls + 1
    BY <1>12 DEF Loads
  <2>2. jobs # <<>> => Job.call < calls + 1
    <3> SUFFICES ASSUME jobs # <<>>  PROVE Job.call < calls + 1
      OBVIOUS
    <3>1. Job = jobs[1] /\ 1 \in 1..Len(jobs) /\ Job.call \in Nat
      BY JobRuns DEF JobRecord
    <3>2. CallsRise(jobs, calls)
      BY DEF ChatInv, JobsKept
    <3> QED  BY <1>0, <3>1, <3>2 DEF CallsRise
  <2> QED  BY <1>0, <2>1, <2>2 DEF JobMoves, Job
<1>13. CASE Reopens \/ ClampsSeen \/ RenameMoves \/ RenameEnds \/ RenameThrows \/ (Removes /\ ~Forget) \/ Vanishes
            \/ PowerLoss \/ ReaderStep \/ Released \/ HoldEnds \/ UNCHANGED vars
  <2>1. jobs' = jobs /\ calls' = calls
    BY <1>13 DEF Reopens, ClampsSeen, RenameMoves, RenameEnds, RenameThrows, Removes, Vanishes, PowerLoss, ReaderStep, Asks, AsksAgain,
                 Receives, Follows, Released, HoldEnds, readerOnly, vars
  <2> QED  BY <1>0, <2>1 DEF JobMoves, Job
<1> QED  BY <1>2, <1>5, <1>6, <1>7, <1>8, <1>9, <1>10, <1>11, <1>12, <1>13 DEF Next, JobStep

(* A call that wrote a line ends, or has to look at it, or resolves more. *)
LEMMA WriterMoves ==
  ASSUME ChatInv, Next, Appending, NEW x \in Entry, Writes(x), x # Torn, disk'.lines = Append(disk.lines, x), jobs' # <<>>
  PROVE  \/ Job.call < Job'.call
         \/ Job'.call = Job.call /\ (Job'.pc = "checks" \/ (Job'.pc = "writes" /\ x.ev.kind = "resolved"))
<1>0. jobs \in Seq(JobRecord) /\ calls \in Nat /\ CallsRise(jobs, calls) /\ disk.lines \in Seq(Entry) /\ disk \in Disk
  BY TypeNames DEF ChatInv, JobsKept, Disk
<1>1. jobs # <<>> /\ Job \in JobRecord /\ mem.st # "none"
  BY AppendingIs, JobRuns DEF HandleRecord
<1>2. disk' # disk
  <2>1. Len(Append(disk.lines, x)) = Len(disk.lines) + 1 /\ Len(disk.lines) \in Nat
    BY <1>0
  <2> QED  BY <2>1
<1>3. JobEnds => Job.call < Job'.call
  BY <1>0, <1>1, RiseShift DEF JobEnds, Job
<1>4. ASSUME NEW j \in JobRecord, jobs' = <<j>> \o Tail(jobs)  PROVE Job' = j
  BY <1>0, <1>1, <1>4, Replaces DEF IsReplaced, Job
<1>5. Appends \/ AppendFails
  <2>1. ~Crash
    BY DEF Crash
  <2>2. ~PowerLoss
    BY <1>1 DEF PowerLoss
  <2>3. ~(CallAppend \/ CallInterrupt \/ CallSeen)
    BY <1>2 DEF CallAppend, CallInterrupt, CallSeen, Calls
  <2>4. ~(AsksTurn \/ TakesTurn \/ Reopens \/ FindsBusy \/ FindsAtRest \/ ClampsSeen \/ ChecksFirst
             \/ MarksSeen \/ MarksNothing \/ FindsGone \/ RecoversGone)
    BY <1>2 DEF AsksTurn, TakesTurn, Reopens, FindsBusy, FindsAtRest, ClampsSeen, ChecksFirst, MarksSeen,
              MarksNothing, FindsGone, RecoversGone
  <2>5. ~(StepFails \/ Loads \/ RenameMoves \/ RenameEnds \/ RenameThrows \/ Removes \/ Vanishes)
    BY <1>2 DEF StepFails, Loads, RenameMoves, RenameEnds, RenameThrows, Removes, Vanishes
  <2>6. ~(ReaderStep \/ Released \/ HoldEnds)
    BY <1>2 DEF ReaderStep, Asks, AsksAgain, Receives, Follows, Released, HoldEnds, readerOnly
  <2> QED  BY <2>1, <2>2, <2>3, <2>4, <2>5, <2>6 DEF Next, JobStep
<1>6. CASE Appends
  <2>1. PICK e \in NextEvents :
          /\ disk' = Written(disk, Line(e))
          /\ \/ /\ e.kind = "resolved" /\ Job.pc = "writes"
                /\ jobs' = <<[Job EXCEPT !.todo = @ \ e.reqs]>> \o Tail(jobs)
             \/ JobEnds
    BY <1>6 DEF Appends
  <2>2. Line(e) \in Entry /\ Line(e).ev = e /\ e \in Event
    BY <1>1, LineIs
  <2>3. disk'.lines = Append(disk.lines, Line(e))
    BY <1>0, <2>1, <2>2, WrittenIs
  <2>4. x = Line(e)
    <3> PICK l : l = Line(e)
      OBVIOUS
    <3>1. Append(disk.lines, x)[Len(disk.lines) + 1] = x /\ Append(disk.lines, l)[Len(disk.lines) + 1] = l
      BY <1>0, <2>2
    <3> QED  BY <2>3, <3>1
  <2>5. [Job EXCEPT !.todo = @ \ e.reqs] \in JobRecord /\ [Job EXCEPT !.todo = @ \ e.reqs].call = Job.call
        /\ [Job EXCEPT !.todo = @ \ e.reqs].pc = Job.pc
    BY <1>1 DEF JobRecord
  <2> QED  BY <1>3, <1>4, <2>1, <2>2, <2>4, <2>5
<1>7. CASE AppendFails
  <2>1. jobs' = <<[Job EXCEPT !.pc = "checks"]>> \o Tail(jobs) \/ JobEnds
    BY <1>7 DEF AppendFails, JobGoes
  <2>2. [Job EXCEPT !.pc = "checks"] \in JobRecord /\ [Job EXCEPT !.pc = "checks"].call = Job.call
        /\ [Job EXCEPT !.pc = "checks"].pc = "checks"
    BY <1>1 DEF JobRecord
  <2> QED  BY <1>3, <1>4, <2>1, <2>2
<1> QED  BY <1>5, <1>6, <1>7

(* Every step keeps each line to a call before the one that runs, or to that *)
(* one while it can go on.                                                   *)
LEMMA LinesOfCallsPreserved ==
  ASSUME ChatInv, [Next]_vars
  PROVE  LinesOfCalls'
<1>0. /\ disk \in Disk /\ disk.lines \in Seq(Entry) /\ calls \in Nat /\ jobs \in Seq(JobRecord)
      /\ disk.synced \in Nat /\ disk.synced <= Len(disk.lines)
  BY TypeNames DEF ChatInv, Disk, LinesKept
<1>1. calls' \in Nat /\ calls <= calls' /\ JobMoves
  BY JobStepIs
<1>2. \A i \in 1..Len(disk.lines) : disk.lines[i] \in Entry /\ disk.lines[i].call \in Nat
  <2>1. \A i \in 1..Len(disk.lines) : disk.lines[i] \in Entry
    BY <1>0
  <2> QED  BY <2>1 DEF Entry
<1>3. jobs # <<>> => Job.call \in Nat /\ Job.call <= calls
  <2> SUFFICES ASSUME jobs # <<>> PROVE Job.call \in Nat /\ Job.call <= calls
    OBVIOUS
  <2>1. Job \in JobRecord /\ Job = jobs[1] /\ 1 \in 1..Len(jobs)
    BY JobRuns
  <2> QED  BY <2>1 DEF ChatInv, JobsKept, CallsRise, JobRecord
<1>4. jobs' # <<>> /\ jobs # <<>> => Job'.call \in Nat
  <2>1. TypeOK' => jobs' \in Seq(JobRecord)
    BY TypeParts DEF Typed
  <2>2. TypeOK'
    <3>1. TypeOK /\ UNCHANGED vars => TypeOK'
      BY DEF TypeOK, HandleTypeOK, vars
    <3> QED  BY <3>1, TypeOfJobStep, TypeOfOtherStep DEF ChatInv, Next
  <2>3. jobs' # <<>> => Job' \in JobRecord
    BY <2>1, <2>2, HeadIs DEF Job
  <2> QED  BY <2>3 DEF JobRecord
<1>5. ASSUME NEW i \in 1..Len(disk.lines), disk.lines[i] # Torn, NEW l, l = disk.lines[i]
      PROVE  l.call <= calls' /\ (jobs' # <<>> => GoesOnFrom(l, Job'))
  <2>1. l.call <= calls /\ (jobs # <<>> => GoesOnFrom(l, Job)) /\ l.call \in Nat
    BY <1>2, <1>5 DEF ChatInv, LinesOfCalls
  <2>2. l.call <= calls'
    BY <1>0, <1>1, <2>1
  <2>3. ASSUME jobs' # <<>>  PROVE l.call < Job'.call \/ (l.call = Job'.call /\ (Job'.pc = "checks"
                                   \/ (Job'.pc = "writes" /\ l.ev.kind = "resolved")))
    <3>1. CASE jobs # <<>> /\ Job.call < Job'.call
      BY <1>3, <1>4, <2>1, <2>3, <3>1 DEF GoesOnFrom
    <3>2. CASE jobs # <<>> /\ Job'.call = Job.call /\ (Job.pc = "checks" => Job'.pc = "checks")
                 /\ (Job.pc = "writes" => Job'.pc \in {"writes", "checks"})
      BY <2>1, <3>2 DEF GoesOnFrom
    <3>3. CASE jobs = <<>> /\ Job'.call = calls + 1
      BY <1>0, <2>1, <3>3
    <3> QED  BY <1>1, <2>3, <3>1, <3>2, <3>3 DEF JobMoves
  <2> QED  BY <2>2, <2>3 DEF GoesOnFrom
<1>6. CASE disk'.lines = disk.lines
  BY <1>5, <1>6 DEF LinesOfCalls
<1>7. CASE Appending /\ \E x \in Entry : Writes(x) /\ disk'.lines = Append(disk.lines, x)
  <2>1. PICK x \in Entry : Writes(x) /\ disk'.lines = Append(disk.lines, x)
    BY <1>7
  <2>2. Len(disk'.lines) = Len(disk.lines) + 1 /\ disk'.lines[Len(disk.lines) + 1] = x
        /\ (\A i \in 1..Len(disk.lines) : disk'.lines[i] = disk.lines[i]) /\ Len(disk.lines) \in Nat
    BY <1>0, <2>1
  <2>3. ASSUME x # Torn  PROVE x.call <= calls' /\ (jobs' # <<>> => GoesOnFrom(x, Job'))
    <3>1. PICK e \in NextEvents : x = Line(e)
      BY <2>1, <2>3 DEF Writes
    <3>2. x.call = Job.call /\ jobs # <<>>
      BY <1>7, <3>1, AppendingIs, LineIs
    <3>3. Next
      <4>1. ~UNCHANGED vars
        BY <1>0, <2>2 DEF vars
      <4> QED  BY <4>1
    <3>4. jobs' # <<>> => Job.call < Job'.call \/ (Job'.call = Job.call
             /\ (Job'.pc = "checks" \/ (Job'.pc = "writes" /\ x.ev.kind = "resolved")))
      BY <1>7, <2>1, <2>3, <3>3, WriterMoves
    <3>5. x.call <= calls'
      BY <1>0, <1>1, <1>3, <3>2
    <3> QED  BY <3>2, <3>4, <3>5 DEF GoesOnFrom
  <2>4. \A i \in 1..(Len(disk.lines) + 1) : i \in 1..Len(disk.lines) \/ i = Len(disk.lines) + 1
    BY <2>2
  <2> QED  BY <1>5, <2>2, <2>3, <2>4 DEF LinesOfCalls
<1>8. CASE mem.st = "none" /\ IsCut(disk', disk)
  <2>1. PICK n \in disk.synced..Len(disk.lines) :
           disk'.lines = SubSeq(disk.lines, 1, n) \/ disk'.lines = Append(SubSeq(disk.lines, 1, n), Torn)
    BY <1>8 DEF IsCut
  <2> PICK cut : cut = SubSeq(disk.lines, 1, n)
    OBVIOUS
  <2>2. cut \in Seq(Entry) /\ Len(cut) = n /\ (\A i \in 1..n : cut[i] = disk.lines[i]) /\ n \in Nat /\ n <= Len(disk.lines)
    BY <1>0
  <2>3. \A i \in 1..Len(disk'.lines) : disk'.lines[i] = Torn \/ (i \in 1..Len(disk.lines) /\ disk'.lines[i] = disk.lines[i])
    <3>1. CASE disk'.lines = cut
      BY <2>2, <3>1
    <3>2. CASE disk'.lines = Append(cut, Torn)
      <4>1. Len(disk'.lines) = n + 1 /\ disk'.lines[n + 1] = Torn /\ \A i \in 1..n : disk'.lines[i] = cut[i]
        BY <2>2, <3>2
      <4>2. \A i \in 1..(n + 1) : i = n + 1 \/ i \in 1..n
        BY <2>2
      <4>3. \A i \in 1..n : i \in 1..Len(disk.lines)
        BY <2>2
      <4> QED  BY <2>2, <4>1, <4>2, <4>3
    <3> QED  BY <2>1, <3>1, <3>2
  <2> QED  BY <1>5, <2>3 DEF LinesOfCalls
<1> QED  BY <1>6, <1>7, <1>8, LinesStep

-----------------------------------------------------------------------------
(* Every step keeps the fold of the handle to the log, and the status that   *)
(* was told to the fold.                                                     *)

(* A number that a log with the first entries of another one moved to is the *)
(* one the other has only when the status is the same.                       *)
LEMMA AnnouncedIs ==
  ASSUME ChatInv, mem.st # "none", NEW h, NEW st, NEW tag, IsOpened(h, st, tag)
  PROVE  Announced(h) = Status(h.fold)
<1>1. disk.lines \in Seq(Entry)
  BY TypeNames DEF ChatInv, Disk
<1>2. Rising(Valid(disk.lines))
  BY <1>1, ValidRises DEF KeptOf
<1>3. /\ mem.fold = Folded(mem.kept).fold /\ mem.stateSeq = Folded(mem.kept).stateSeq
      /\ IsStart(mem.kept, Valid(disk.lines)) /\ told = Status(mem.fold)
  BY DEF ChatInv, HandleKept
<1>4. h.kept = Valid(disk.lines) /\ h.fold = Folded(h.kept).fold /\ h.stateSeq = Folded(h.kept).stateSeq
  BY DEF IsOpened
<1>5. h.stateSeq = mem.stateSeq => Status(h.fold) = Status(mem.fold)
  BY <1>2, <1>3, <1>4, FoldGrows
<1> QED  BY <1>3, <1>5 DEF Announced

(* A log starts itself. *)
LEMMA StartSelf ==
  ASSUME NEW kept \in Seq(Entry)
  PROVE  IsStart(kept, kept)
BY DEF IsStart

(* A handle just opened, whose status was told. *)
LEMMA OpenedKept ==
  ASSUME ChatInv, disk' = disk, NEW st, NEW tag, IsOpened(mem', st, tag), told' = Status(mem'.fold)
  PROVE  HandleKept'
<1>1. disk.lines \in Seq(Entry)
  BY TypeNames DEF ChatInv, Disk
<1>2. Valid(disk.lines) \in Seq(Entry)
  BY <1>1, ValidRises DEF KeptOf, Rising
<1>3. mem'.kept = Valid(disk'.lines) /\ IsStart(mem'.kept, Valid(disk'.lines))
  BY <1>2, StartSelf DEF IsOpened
<1> QED  BY <1>3 DEF IsOpened, HandleKept

(* The same handle on the same log, of which the same was told. *)
LEMMA SameKept ==
  ASSUME ChatInv, disk' = disk, told' = told,
         \/ mem'.st = "none"
         \/ /\ mem.st # "none" /\ mem'.kept = mem.kept /\ mem'.stale = mem.stale
            /\ mem'.fold = mem.fold /\ mem'.stateSeq = mem.stateSeq
  PROVE  HandleKept'
BY DEF ChatInv, HandleKept

(* The log of an append that a call is fulfilled with: the entry is in it,   *)
(* and what started the log starts it.                                       *)
LEMMA AppendedIs ==
  ASSUME ChatInv, Appending, NEW e \in NextEvents
  PROVE  /\ Valid(Append(disk.lines, Line(e))) = Append(Valid(disk.lines), Line(e))
         /\ Valid(Append(disk.lines, Torn)) = Valid(disk.lines)
<1>1. disk.lines \in Seq(Entry)
  BY TypeNames DEF ChatInv, Disk
<1>2. Line(e) \in Entry /\ Line(e).seq = LastSeq(mem.kept) + 1 /\ mem.kept = Valid(disk.lines)
  BY AppendingIs, LineIs
<1>3. LastSeq(Valid(disk.lines)) \in Nat
  BY <1>1, ValidRises, LastBounds DEF KeptOf
<1>4. LastSeq(Valid(disk.lines)) < Line(e).seq
  BY <1>2, <1>3
<1>5. Torn \in Entry /\ Torn.seq = 0
  BY DEF Torn, Entry, Plain, Event, EventKinds
<1>6. Valid(Append(disk.lines, Line(e))) = Append(Valid(disk.lines), Line(e))
  BY <1>1, <1>2, <1>4, ValidAppend
<1>7. ~(LastSeq(Valid(disk.lines)) < Torn.seq)
  BY <1>3, <1>5
<1>8. Valid(Append(disk.lines, Torn)) = Valid(disk.lines)
  BY <1>1, <1>5, <1>7, ValidAppend
<1> QED  BY <1>6, <1>8

(* What starts a log starts it after each step with a handle, failed appends *)
(* included.                                                                 *)
LEMMA StartStays ==
  ASSUME ChatInv, Appending, NEW x \in Entry, Writes(x), NEW short, IsStart(short, Valid(disk.lines))
  PROVE  IsStart(short, Valid(Append(disk.lines, x)))
<1>1. disk.lines \in Seq(Entry)
  BY TypeNames DEF ChatInv, Disk
<1>2. Valid(disk.lines) \in Seq(Entry)
  BY <1>1, ValidRises DEF KeptOf, Rising
<1>3. NextEvents # {} => Valid(Append(disk.lines, Torn)) = Valid(disk.lines)
  BY AppendedIs
<1>4. CASE x = Torn
  <2>1. LastSeq(Valid(disk.lines)) \in Nat
    BY <1>2, LastSeqNat
  <2>2. ~(LastSeq(Valid(disk.lines)) < x.seq)
    BY <1>4, <2>1 DEF Torn
  <2>3. Valid(Append(disk.lines, x)) = Valid(disk.lines)
    BY <1>1, <2>2, ValidAppend
  <2> QED  BY <2>3
<1>5. CASE x # Torn
  <2>1. PICK e \in NextEvents : x = Line(e)
    BY <1>5 DEF Writes
  <2>2. Valid(Append(disk.lines, x)) = Append(Valid(disk.lines), x)
    BY <2>1, AppendedIs
  <2> QED  BY <1>2, <2>2, StartAppend
<1> QED  BY <1>4, <1>5

(* Every step keeps the fold of the handle to the log. *)
LEMMA HandlePreserved ==
  ASSUME ChatInv, [Next]_vars
  PROVE  HandleKept'
<1>0. disk \in Disk /\ disk.lines \in Seq(Entry) /\ (mem = NoHandle \/ mem \in HandleRecord)
      /\ NoHandle.st = "none" /\ place \in Tags \union {"gone"}
  BY TypeNames DEF ChatInv, Disk, NoHandle
<1>1. CASE CallAppend \/ CallInterrupt \/ CallSeen \/ AsksTurn \/ TakesTurn \/ FindsBusy \/ ClampsSeen
           \/ MarksNothing \/ RenameMoves \/ Vanishes \/ ReaderStep \/ Released \/ HoldEnds \/ UNCHANGED vars
  <2>1. disk' = disk /\ told' = told /\ mem' = mem
    BY <1>1 DEF CallAppend, CallInterrupt, CallSeen, Calls, AsksTurn, TakesTurn, FindsBusy, ClampsSeen,
                MarksNothing, RenameMoves, Vanishes, ReaderStep, Asks, AsksAgain, Receives, Follows, Released,
                HoldEnds, readerOnly, vars
  <2> QED  BY <2>1, SameKept
<1>2. CASE Reopens
  <2>1. jobs # <<>>
    BY <1>2 DEF Reopens, Reopening, Runs
  <2>2. mem \in HandleRecord
    BY <2>1, JobRuns
  <2>3. IsOpened(Opened(mem.st, mem.tag), mem.st, mem.tag)
    BY <1>0, <2>2, OpenedIs DEF HandleRecord
  <2>4. mem' = Opened(mem.st, mem.tag) /\ told' = Announced(Opened(mem.st, mem.tag)) /\ disk' = disk
    BY <1>2 DEF Reopens
  <2>5. mem.st # "none"
    BY <2>2 DEF HandleRecord
  <2>6. told' = Status(mem'.fold) /\ IsOpened(mem', mem.st, mem.tag)
    BY <2>3, <2>4, <2>5, AnnouncedIs
  <2> QED  BY <2>4, <2>6, OpenedKept
<1>3. CASE FindsAtRest \/ RecoversGone
  <2>1. jobs # <<>>
    BY <1>3 DEF FindsAtRest, RecoversGone, Interrupting, Appending, Runs
  <2>2. mem \in HandleRecord /\ mem.st # "none"
    BY <2>1, JobRuns DEF HandleRecord
  <2>3. SameHandle(mem', mem) /\ disk' = disk /\ told' = told
    BY <1>3, <2>2, KeptIs DEF FindsAtRest, RecoversGone
  <2> QED  BY <2>2, <2>3, SameKept DEF SameHandle
<1>4. CASE Appends
  <2>1. jobs # <<>> /\ mem \in HandleRecord /\ Job \in JobRecord /\ ~mem.stale /\ mem.kept = Valid(disk.lines)
        /\ mem.st # "none" /\ mem.kept \in Seq(Entry)
    BY <1>4, AppendingIs, JobRuns DEF Appends, HandleRecord
  <2>2. PICK e \in NextEvents :
          LET h == FoldEntry([mem EXCEPT !.kept = Append(@, Line(e))], Line(e))
          IN  /\ disk' = Written(disk, Line(e))
              /\ told' = Announced(h)
              /\ mem' = h \/ mem' = Kept(h)
    BY <1>4 DEF Appends
  <2>3. Line(e) \in Entry
    BY <2>1, LineIs
  <2> PICK x : x = Line(e)
    OBVIOUS
  <2> PICK h : h = FoldEntry([mem EXCEPT !.kept = Append(@, x)], x)
    OBVIOUS
  <2> PICK kept : kept = mem.kept
    OBVIOUS
  <2>4. IsTaken(h, mem, x) /\ h \in HandleRecord
    BY <2>1, <2>3, TakenIs DEF IsTaken
  <2>5. disk'.lines = Append(disk.lines, x)
    BY <1>0, <2>2, <2>3, WrittenIs
  <2>6. Valid(disk'.lines) = Append(kept, x)
    BY <1>4, <2>1, <2>5, AppendedIs DEF Appends
  <2>7. h.kept = Append(kept, x) /\ ~h.stale
    BY <2>1, <2>4 DEF IsTaken
  <2> PICK was : was = Folded(kept)
    OBVIOUS
  <2>8. mem.fold = was.fold /\ mem.stateSeq = was.stateSeq /\ was \in FoldState /\ told = Status(mem.fold)
    BY <2>1, FoldedType DEF ChatInv, HandleKept
  <2>9. was = [fold |-> mem.fold, stateSeq |-> mem.stateSeq]
    BY <2>8 DEF FoldState
  <2>10. Folded(Append(kept, x)) = FoldEntry(was, x)
    BY <2>1, <2>3, FoldedAppend
  <2>11. h.fold = Folded(h.kept).fold /\ h.stateSeq = Folded(h.kept).stateSeq
    BY <2>4, <2>7, <2>9, <2>10 DEF IsTaken
  <2>12. Announced(h) = Status(h.fold)
    <3>1. IsStart(kept, Append(kept, x))
      BY <2>1, <2>3, StartSelf, StartAppend
    <3>2. Rising(kept) /\ LastSeq(kept) < x.seq
      <4>1. Rising(kept)
        BY <1>0, <2>1, ValidRises DEF KeptOf
      <4>2. x.seq = LastSeq(kept) + 1 /\ LastSeq(kept) \in Nat
        BY <2>1, LineIs, LastSeqNat
      <4> QED  BY <4>1, <4>2
    <3>3. Rising(Append(kept, x))
      BY <2>3, <3>2, RisingAppend
    <3> PICK long : long = Append(kept, x)
      OBVIOUS
    <3>4. Folded(kept).stateSeq = Folded(long).stateSeq => Status(Folded(kept).fold) = Status(Folded(long).fold)
      BY <3>1, <3>3, FoldGrows
    <3>5. h.stateSeq = mem.stateSeq => Status(h.fold) = Status(mem.fold)
      BY <2>7, <2>8, <2>11, <3>4
    <3> QED  BY <2>8, <3>5 DEF Announced
  <2>13. SameHandle(mem', h)
    <3>1. mem' = h \/ mem' = Kept(h)
      BY <2>2
    <3> QED  BY <2>4, <3>1, KeptIs DEF SameHandle
  <2>14. IsStart(Append(kept, x), Append(kept, x))
    <3>1. Append(kept, x) \in Seq(Entry)
      BY <2>1, <2>3
    <3> QED  BY <3>1, StartSelf
  <2>15. told' = Status(h.fold)
    BY <2>2, <2>12
  <2> QED  BY <2>6, <2>7, <2>11, <2>13, <2>14, <2>15 DEF HandleKept, SameHandle
<1>5. CASE AppendFails
  <2>1. jobs # <<>> /\ mem \in HandleRecord /\ mem.st # "none" /\ Appending /\ told' = told
    BY <1>5, AppendingIs, JobRuns DEF AppendFails, HandleRecord
  <2>2. mem'.kept = mem.kept /\ mem'.fold = mem.fold /\ mem'.stateSeq = mem.stateSeq /\ mem'.stale
    BY <1>5, <2>1, MarkStaleIs, KeptIs DEF AppendFails, IsMarked, SameHandle
  <2>3. /\ mem.fold = Folded(mem.kept).fold /\ mem.stateSeq = Folded(mem.kept).stateSeq
        /\ IsStart(mem.kept, Valid(disk.lines)) /\ told = Status(mem.fold)
    BY <2>1 DEF ChatInv, HandleKept
  <2>4. IsStart(mem.kept, Valid(disk'.lines))
    <3> PICK kept : kept = mem.kept
      OBVIOUS
    <3>1. CASE disk'.lines = disk.lines
      BY <2>3, <3>1
    <3>2. CASE \E x \in Entry : Writes(x) /\ disk'.lines = Append(disk.lines, x)
      BY <2>1, <2>3, <3>2, StartStays
    <3> QED  BY <2>1, <3>1, <3>2, LinesStep
  <2> QED  BY <2>1, <2>2, <2>3, <2>4 DEF HandleKept
<1>6. CASE ChecksFirst
  <2>1. jobs # <<>>
    BY <1>6 DEF ChecksFirst, Runs
  <2>2. mem \in HandleRecord /\ mem.st # "none"
    BY <2>1, JobRuns DEF HandleRecord
  <2>3. IsOpened(Opened("live", mem.tag), "live", mem.tag)
    BY <1>0, <2>2, OpenedIs DEF HandleRecord
  <2>4. (mem' = Opened("live", mem.tag) \/ mem' = NoHandle) /\ told' = Announced(Opened("live", mem.tag)) /\ disk' = disk
    BY <1>6 DEF ChecksFirst
  <2>5. CASE mem' = NoHandle
    BY <1>0, <2>5 DEF HandleKept
  <2>6. CASE mem' = Opened("live", mem.tag)
    <3>1. told' = Status(mem'.fold) /\ IsOpened(mem', "live", mem.tag)
      BY <2>2, <2>3, <2>4, <2>6, AnnouncedIs
    <3> QED  BY <2>4, <3>1, OpenedKept
  <2> QED  BY <2>4, <2>5, <2>6
<1>7. CASE MarksSeen
  <2>1. jobs # <<>> /\ disk' = disk /\ mem' = mem /\ told' = Status(mem.fold)
    BY <1>7 DEF MarksSeen, Marking, Runs
  <2>2. mem.st # "none"
    BY <2>1 DEF ChatInv, JobsKept
  <2>3. told = Status(mem.fold)
    BY <2>2 DEF ChatInv, HandleKept
  <2> QED  BY <2>1, <2>3, SameKept
<1>8. CASE StepFails
  <2>1. jobs # <<>> /\ disk' = disk /\ told' = told /\ (mem' = NoHandle \/ mem' = Kept(mem))
    BY <1>8 DEF StepFails, Reopening, Appending, Marking, Runs
  <2>2. mem \in HandleRecord /\ mem.st # "none"
    BY <2>1, JobRuns DEF HandleRecord
  <2> QED  BY <1>0, <2>1, <2>2, KeptIs, SameKept DEF SameHandle
<1>9. CASE FindsGone \/ Removes \/ Crash
  <2>1. CASE Removes /\ ~Forget
    <3>1. disk' = disk /\ told' = told /\ mem' = mem
      BY <2>1 DEF Removes
    <3> QED  BY <3>1, SameKept
  <2>2. CASE mem' = NoHandle
    BY <2>2 DEF HandleKept, NoHandle
  <2> QED  BY <1>9, <2>1, <2>2 DEF FindsGone, Crash, Forget
<1>10. CASE Loads
  <2>1. place \in Tags
    BY <1>0, <1>10 DEF Loads
  <2>2. IsOpened(Opened("opening", place), "opening", place)
    BY <1>0, <2>1, OpenedIs
  <2>3. IsOpened(mem', "opening", place) /\ told' = Status(mem'.fold) /\ disk' = disk
    BY <1>10, <2>2 DEF Loads
  <2> QED  BY <2>3, OpenedKept
<1>11. CASE RenameEnds \/ RenameThrows
  <2>1. disk' = disk /\ told' = told /\ (mem' = mem \/ Relocated(mem', mem))
    BY <1>11, RenameIs
  <2>2. CASE mem.st = "none"
    BY <2>1, <2>2, SameKept DEF Relocated
  <2>3. CASE mem.st # "none"
    BY <2>1, <2>3, SameKept DEF Relocated
  <2> QED  BY <2>2, <2>3
<1>12. CASE PowerLoss
  BY <1>12 DEF PowerLoss, HandleKept
<1> QED  BY <1>1, <1>2, <1>3, <1>4, <1>5, <1>6, <1>7, <1>8, <1>9, <1>10, <1>11, <1>12 DEF Next, JobStep

-----------------------------------------------------------------------------
(* Every step keeps what a page shows to the log. *)

(* What a page holds, apart from the variable. *)
ReaderHolds(r, lines) ==
  /\ r.cursor = LastSeq(r.view)
  /\ r.pc # "got" \/ r.reset => r.reply = <<>>
  /\ r.pc # "got" => ~r.reset
  /\ r.pc = "got" /\ ~r.reset => r.reply # <<>>
  /\ IsStart(r.view \o r.reply, Valid(lines))

(* The same, said of the variable before and after a step. *)
LEMMA ReaderParts ==
  (ReaderKept <=> ReaderHolds(reader, disk.lines)) /\ (ReaderKept' <=> ReaderHolds(reader', disk'.lines))
BY DEF ReaderKept, ReaderHolds

(* The last entry of a page that took a reply. *)
LEMMA LastOfBoth ==
  ASSUME NEW view \in Seq(Entry), NEW reply \in Seq(Entry), reply # <<>>
  PROVE  LastSeq(view \o reply) = LastSeq(reply)
<1> PICK all : all = view \o reply
  OBVIOUS
<1>1. /\ all \in Seq(Entry) /\ Len(all) = Len(view) + Len(reply)
      /\ \A i \in 1..Len(view) + Len(reply) : all[i] = IF i <= Len(view) THEN view[i] ELSE reply[i - Len(view)]
  BY ConcatProperties
<1> PICK v : v = Len(view)
  OBVIOUS
<1> PICK r : r = Len(reply)
  OBVIOUS
<1>2. v \in Nat /\ r \in Nat \ {0}
  BY EmptySeq
<1>3. all[v + r] = reply[r]
  <2>1. v + r \in 1..(v + r) /\ ~(v + r <= v) /\ (v + r) - v = r
    BY <1>2
  <2> QED  BY <1>1, <2>1
<1>4. all # <<>>
  <2>1. Len(all) # 0
    BY <1>1, <1>2
  <2> QED  BY <2>1, EmptySeq
<1> QED  BY <1>1, <1>3, <1>4 DEF LastSeq

(* The start of what starts a log. *)
LEMMA StartOfMore ==
  ASSUME NEW view \in Seq(Entry), NEW reply \in Seq(Entry), NEW log \in Seq(Entry), IsStart(view \o reply, log)
  PROVE  IsStart(view, log)
<1> PICK all : all = view \o reply
  OBVIOUS
<1>1. /\ all \in Seq(Entry) /\ Len(all) = Len(view) + Len(reply)
      /\ \A i \in 1..Len(view) + Len(reply) : all[i] = IF i <= Len(view) THEN view[i] ELSE reply[i - Len(view)]
  BY ConcatProperties
<1> PICK v : v = Len(view)
  OBVIOUS
<1> PICK r : r = Len(reply)
  OBVIOUS
<1> PICK l : l = Len(log)
  OBVIOUS
<1>2. v \in Nat /\ r \in Nat /\ l \in Nat
  OBVIOUS
<1>3. v + r <= l /\ \A i \in 1..(v + r) : all[i] = log[i]
  BY <1>1 DEF IsStart
<1>4. v <= l /\ \A i \in 1..v : i \in 1..(v + r)
  BY <1>2, <1>3
<1>5. \A i \in 1..v : view[i] = log[i]
  BY <1>1, <1>2, <1>3, <1>4
<1> QED  BY <1>4, <1>5 DEF IsStart

(* A page that starts. *)
LEMMA StartHolds ==
  ASSUME NEW t \in Tags, NEW lines \in Seq(Entry)
  PROVE  ReaderHolds(Start(t), lines)
<1>1. Valid(lines) \in Seq(Entry)
  BY ValidRises DEF KeptOf, Rising
<1>2. /\ Start(t).cursor = 0 /\ Start(t).view = <<>> /\ Start(t).reply = <<>> /\ Start(t).pc = "idle"
      /\ Start(t).reset = FALSE
  BY DEF Start
<1>3. <<>> \o <<>> = <<>> /\ Len(<<>>) = 0 /\ LastSeq(<<>>) = 0 /\ <<>> \in Seq(Entry)
  BY DEF LastSeq
<1>4. IsStart(<<>>, Valid(lines))
  BY <1>1, <1>3 DEF IsStart
<1> QED  BY <1>2, <1>3, <1>4 DEF ReaderHolds

(* What a page shows starts the log after each step that leaves the page     *)
(* alone, or while the log of a lost power is cut.                           *)
LEMMA ViewStays ==
  ASSUME ChatInv, [Next]_vars, mem.st # "none" \/ disk' = disk, NEW short, IsStart(short, Valid(disk.lines))
  PROVE  IsStart(short, Valid(disk'.lines))
<1>1. CASE disk'.lines = disk.lines
  BY <1>1
<1>2. CASE Appending /\ \E x \in Entry : Writes(x) /\ disk'.lines = Append(disk.lines, x)
  BY <1>2, StartStays
<1>3. CASE mem.st = "none" /\ IsCut(disk', disk)
  BY <1>3
<1> QED  BY <1>1, <1>2, <1>3, LinesStep

(* An answer to a page. *)
LEMMA RepliesHold ==
  ASSUME ChatInv, NEW idle \in {"holds", "idle"}, Loaded, Replies(idle), reader.pc # "got"
  PROVE  ReaderHolds(reader', disk.lines)
<1>1. reader \in ReaderRecord /\ disk.lines \in Seq(Entry) /\ ReaderHolds(reader, disk.lines)
  BY TypeNames, ReaderParts DEF ChatInv, Disk
<1>2. mem.st # "none"
  BY DEF Loaded, Live
<1>3. reader.reply = <<>> /\ ~reader.reset /\ reader.cursor = LastSeq(reader.view) /\ reader.view \in Seq(Entry)
      /\ reader.view \o reader.reply = reader.view
  BY <1>1, ConcatEmptySeq DEF ReaderHolds, ReaderRecord
<1>4. IsStart(reader.view, Valid(disk.lines)) /\ IsStart(mem.kept, Valid(disk.lines))
  BY <1>1, <1>2, <1>3 DEF ReaderHolds, ChatInv, HandleKept
<1>5. Rising(Valid(disk.lines))
  BY <1>1, ValidRises DEF KeptOf
<1>6. CASE reader.cursor < Last /\ \E n \in 1..Len(After(reader.cursor)) :
             reader' = [reader EXCEPT !.pc = "got", !.reply = SubSeq(After(reader.cursor), 1, n)]
  <2>1. PICK n \in 1..Len(After(reader.cursor)) :
           reader' = [reader EXCEPT !.pc = "got", !.reply = SubSeq(After(reader.cursor), 1, n)]
    BY <1>6
  <2> PICK reply : reply = SubSeq(After(reader.cursor), 1, n)
    OBVIOUS
  <2>2. reply \in Seq(Entry) /\ reply # <<>> /\ IsStart(reader.view \o reply, Valid(disk.lines))
    BY <1>3, <1>4, <1>5, <1>6, AfterContinues DEF Last
  <2>3. reader'.pc = "got" /\ reader'.reply = reply /\ reader'.reset = reader.reset /\ reader'.view = reader.view
        /\ reader'.cursor = reader.cursor
    BY <1>1, <2>1 DEF ReaderRecord
  <2> QED  BY <1>3, <2>2, <2>3 DEF ReaderHolds
<1>7. CASE reader' = [reader EXCEPT !.pc = "got", !.reset = TRUE]
  <2>1. reader'.pc = "got" /\ reader'.reply = reader.reply /\ reader'.reset /\ reader'.view = reader.view
        /\ reader'.cursor = reader.cursor
    BY <1>1, <1>7 DEF ReaderRecord
  <2> QED  BY <1>1, <1>3, <2>1 DEF ReaderHolds
<1>8. CASE reader' = [reader EXCEPT !.pc = idle] \/ reader' = [reader EXCEPT !.pc = "idle"]
  <2>1. reader'.pc # "got" /\ reader'.reply = reader.reply /\ reader'.reset = reader.reset /\ reader'.view = reader.view
        /\ reader'.cursor = reader.cursor
    BY <1>1, <1>8 DEF ReaderRecord
  <2> QED  BY <1>1, <1>3, <2>1 DEF ReaderHolds
<1> QED  BY <1>6, <1>7, <1>8 DEF Replies

(* A page takes what it got. *)
LEMMA ReceivesHolds ==
  ASSUME ChatInv, Receives
  PROVE  ReaderHolds(reader', disk.lines)
<1>1. reader \in ReaderRecord /\ disk.lines \in Seq(Entry) /\ ReaderHolds(reader, disk.lines) /\ reader.pc = "got"
  BY TypeNames, ReaderParts DEF ChatInv, Disk, Receives
<1>2. CASE reader.reset
  BY <1>1, <1>2, StartHolds DEF Receives, ReaderRecord
<1>3. CASE ~reader.reset
  <2>1. reader' = [reader EXCEPT !.pc = "idle", !.reply = <<>>, !.cursor = LastSeq(reader.reply),
                                  !.view = @ \o reader.reply]
    BY <1>3 DEF Receives
  <2> PICK view : view = reader.view
    OBVIOUS
  <2> PICK reply : reply = reader.reply
    OBVIOUS
  <2> PICK all : all = view \o reply
    OBVIOUS
  <2>2. /\ reader'.pc = "idle" /\ reader'.reply = <<>> /\ ~reader'.reset /\ reader'.view = all
        /\ reader'.cursor = LastSeq(reply)
    BY <1>1, <1>3, <2>1 DEF ReaderRecord
  <2>3. view \in Seq(Entry) /\ reply \in Seq(Entry) /\ reply # <<>> /\ IsStart(all, Valid(disk.lines))
    BY <1>1, <1>3 DEF ReaderHolds, ReaderRecord
  <2>4. LastSeq(all) = LastSeq(reply)
    <3>1. LastSeq(view \o reply) = LastSeq(reply)
      BY <2>3, LastOfBoth
    <3> QED  BY <3>1
  <2>5. all \o <<>> = all
    <3>1. all \in Seq(Entry)
      BY <2>3
    <3> QED  BY <3>1, ConcatEmptySeq
  <2> QED  BY <2>2, <2>3, <2>4, <2>5 DEF ReaderHolds
<1> QED  BY <1>2, <1>3

(* Every step keeps what a page shows to the log. *)
LEMMA ReaderPreserved ==
  ASSUME ChatInv, [Next]_vars
  PROVE  ReaderKept'
<1>0. /\ reader \in ReaderRecord /\ disk \in Disk /\ disk.lines \in Seq(Entry) /\ place \in Tags \union {"gone"}
      /\ ReaderHolds(reader, disk.lines)
  BY TypeNames, ReaderParts DEF ChatInv, Disk
<1> SUFFICES ReaderHolds(reader', disk'.lines)
  BY ReaderParts
<1> PICK shown : shown = reader.view \o reader.reply
  OBVIOUS
<1>1. IsStart(shown, Valid(disk.lines))
  BY <1>0 DEF ReaderHolds
<1>2. mem.st # "none" \/ disk' = disk => IsStart(shown, Valid(disk'.lines))
  BY <1>1, ViewStays
<1>3. ASSUME mem.st # "none" \/ disk' = disk,
             \/ reader' = reader
             \/ reader.pc = "holds" /\ reader' = [reader EXCEPT !.pc = "again"]
             \/ reader.pc # "got" /\ reader' = [reader EXCEPT !.pc = "idle"]
      PROVE  ReaderHolds(reader', disk'.lines)
  <2>1. /\ reader'.view = reader.view /\ reader'.reply = reader.reply /\ reader'.reset = reader.reset
        /\ reader'.cursor = reader.cursor /\ (reader'.pc = reader.pc \/ (reader.pc # "got" /\ reader'.pc # "got"))
    BY <1>0, <1>3 DEF ReaderRecord
  <2> QED  BY <1>0, <1>2, <1>3, <2>1 DEF ReaderHolds
<1>4. CASE CallAppend \/ CallInterrupt \/ CallSeen \/ AsksTurn \/ TakesTurn \/ Reopens \/ FindsBusy \/ FindsAtRest
           \/ ClampsSeen \/ ChecksFirst \/ MarksSeen \/ MarksNothing \/ RecoversGone \/ StepFails \/ Loads
           \/ RenameMoves \/ RenameEnds \/ RenameThrows \/ (Removes /\ ~Forget) \/ Vanishes \/ UNCHANGED vars
  <2>1. disk' = disk /\ reader' = reader
    BY <1>4 DEF CallAppend, CallInterrupt, CallSeen, Calls, AsksTurn, TakesTurn, Reopens, FindsBusy, FindsAtRest,
                ClampsSeen, ChecksFirst, MarksSeen, MarksNothing, RecoversGone, StepFails, Loads, RenameMoves,
                RenameEnds, RenameThrows, Removes, Vanishes, vars
  <2> QED  BY <1>3, <2>1
<1>5. CASE Appends \/ AppendFails
  <2>1. reader' = reader /\ Appending
    BY <1>5 DEF Appends, AppendFails
  <2>2. mem.st # "none"
    BY <2>1, AppendingIs DEF ChatInv, JobsKept
  <2> QED  BY <1>3, <2>1, <2>2
<1>6. CASE FindsGone \/ (Removes /\ Forget)
  BY <1>3, <1>6 DEF FindsGone, Removes, Forget
<1>7. CASE Crash
  <2>1. reader' = [reader EXCEPT !.pc = "idle", !.reply = <<>>, !.reset = FALSE] /\ mem.st # "none"
    BY <1>7 DEF Crash
  <2>2. reader'.pc = "idle" /\ reader'.reply = <<>> /\ ~reader'.reset /\ reader'.view = reader.view
        /\ reader'.cursor = reader.cursor
    BY <1>0, <2>1 DEF ReaderRecord
  <2> PICK view : view = reader.view
    OBVIOUS
  <2> PICK reply : reply = reader.reply
    OBVIOUS
  <2>3. view \in Seq(Entry) /\ reply \in Seq(Entry) /\ view \o <<>> = view
    BY <1>0, ConcatEmptySeq DEF ReaderRecord
  <2>4. IsStart(view, Valid(disk'.lines))
    <3>1. IsStart(view \o reply, Valid(disk'.lines))
      BY <1>2, <2>1
    <3>2. disk'.lines \in Seq(Entry)
      <4>1. TypeOK'
        BY <1>7, TypeOfOtherStep
      <4> QED  BY <4>1, TypeParts DEF Typed, Disk
    <3>3. Valid(disk'.lines) \in Seq(Entry)
      BY <3>2, ValidRises DEF KeptOf, Rising
    <3> QED  BY <2>3, <3>1, <3>3, StartOfMore
  <2> QED  BY <1>0, <2>2, <2>3, <2>4 DEF ReaderHolds
<1>8. CASE PowerLoss
  <2>1. reader' = Start(place) /\ place \in Tags
    BY <1>0, <1>8 DEF PowerLoss
  <2>2. disk'.lines \in Seq(Entry)
    <3>1. TypeOK'
      BY <1>8, TypeOfOtherStep
    <3> QED  BY <3>1, TypeParts DEF Typed, Disk
  <2> QED  BY <2>1, <2>2, StartHolds
<1>9. CASE Asks \/ AsksAgain
  <2>1. disk' = disk /\ reader.pc # "got"
    BY <1>9 DEF Asks, AsksAgain, readerOnly
  <2>2. CASE \E idle \in {"holds", "idle"} : Loaded /\ Replies(idle)
    BY <2>1, <2>2, RepliesHold
  <2>3. CASE reader' = [reader EXCEPT !.pc = "idle"]
    BY <1>3, <2>1, <2>3
  <2> QED  BY <1>9, <2>2, <2>3 DEF Asks, AsksAgain
<1>10. CASE Receives
  <2>1. disk' = disk
    BY <1>10 DEF Receives, readerOnly
  <2> QED  BY <1>10, <2>1, ReceivesHolds
<1>11. CASE Follows
  <2>1. disk' = disk /\ reader' = Start(place) /\ place \in Tags
    BY <1>0, <1>11 DEF Follows, readerOnly
  <2> QED  BY <1>0, <2>1, StartHolds
<1>12. CASE Released \/ HoldEnds
  BY <1>3, <1>12 DEF Released, HoldEnds, readerOnly
<1> QED  BY <1>4, <1>5, <1>6, <1>7, <1>8, <1>9, <1>10, <1>11, <1>12 DEF Next, JobStep, ReaderStep

-----------------------------------------------------------------------------
(* The invariant holds, and what follows from it. *)

(* A new chat has it. *)
LEMMA InitInv ==
  ASSUME Init
  PROVE  ChatInv
<1>1. TypeOK
  BY InitTyped
<1>2. disk.lines = <<>> /\ disk.synced = 0 /\ acked = {} /\ place = Home /\ Home \in Tags /\ Len(<<>>) = 0
  BY LiveAssumption DEF Init
<1>3. LinesKept /\ LinesInOrder /\ LinesOfCalls
  BY <1>2 DEF LinesKept, LinesInOrder, LinesOfCalls, AllCount, InOrder
<1>4. Valid(<<>>) = <<>>
  <2>1. <<>> \in Seq(Entry)
    OBVIOUS
  <2>2. PICK f : Scans(f, <<>>, Len(<<>>)) /\ Valid(<<>>) = f[Len(<<>>)]
    BY <2>1, ValidIs
  <2> QED  BY <2>2 DEF Scans
<1>5. HandleKept
  <2>1. mem.kept = <<>> /\ mem.fold = ChatStart /\ mem.stateSeq = 0 /\ told = NeedsYou
    BY DEF Init
  <2>2. Folded(<<>>).fold = ChatStart /\ Folded(<<>>).stateSeq = 0
    BY FoldedEmpty
  <2>3. Status(ChatStart) = NeedsYou
    BY DEF Status, ChatStart, AgentActive, TurnRuns
  <2>4. <<>> \in Seq(Entry)
    OBVIOUS
  <2>5. IsStart(<<>>, <<>>)
    BY <2>4, StartSelf
  <2> QED  BY <1>2, <1>4, <2>1, <2>2, <2>3, <2>5 DEF HandleKept
<1>6. JobsKept
  <2>1. PICK t \in Texts :
          jobs = <<[kind |-> "first", ev |-> UserEvent(t), to |-> 0, call |-> 1, pc |-> "inside", todo |-> {},
                    tag |-> place]>>
    BY DEF Init
  <2>2. Len(jobs) = 1 /\ jobs # <<>> /\ Job = jobs[1] /\ jobs[1].call = 1 /\ jobs[1].pc = "inside"
        /\ jobs[1].kind = "first" /\ jobs[1].tag = place
    BY <2>1 DEF Job
  <2>3. calls = 1 /\ mem.st = "opening" /\ mem.tag = place /\ held[place] = "chat"
    BY <1>2 DEF Init
  <2>4. CallsRise(jobs, calls)
    BY <2>2, <2>3 DEF CallsRise
  <2> QED  BY <2>2, <2>3, <2>4 DEF JobsKept, InTurn, Runs
<1>7. PlaceKept /\ TurnsKept
  BY DEF PlaceKept, TurnsKept, Init
<1>8. ReaderKept
  <2>1. <<>> \in Seq(Entry)
    OBVIOUS
  <2>2. ReaderHolds(Start(Home), <<>>)
    BY <1>2, <2>1, StartHolds
  <2> QED  BY <1>2, <2>2, ReaderParts DEF Init
<1> QED  BY <1>1, <1>3, <1>5, <1>6, <1>7, <1>8 DEF ChatInv

(* Every step keeps it. *)
LEMMA NextInv ==
  ASSUME ChatInv, [Next]_vars
  PROVE  ChatInv'
<1>1. TypeOK'
  <2>1. TypeOK /\ UNCHANGED vars => TypeOK'
    BY DEF TypeOK, HandleTypeOK, vars
  <2> QED  BY <2>1, TypeOfJobStep, TypeOfOtherStep DEF ChatInv, Next
<1> QED  BY <1>1, LinesPreserved, LinesOfCallsPreserved, HandlePreserved, JobsPreserved, PlacePreserved,
         TurnsPreserved, ReaderPreserved
         DEF ChatInv

(* The invariant of one chat: in every state the log, the handle, the calls  *)
(* and the page fit each other as its parts say.                             *)
THEOREM Invariant == Spec => []ChatInv
BY InitInv, NextInv, PTL DEF Spec

(* Every reachable state has its type: appends, failed ones and restarts     *)
(* leave lines, folds and replies.                                           *)
THEOREM Typing == Spec => []TypeOK
<1>1. ChatInv => TypeOK
  BY DEF ChatInv
<1> QED  BY <1>1, Invariant, PTL

(* The fold that the daemon answers from is the fold of the lines on disk,   *)
(* for any history of failed appends, restarts and renames.                  *)
THEOREM FoldIsTheLog == Spec => []FoldIsLog
<1>1. ChatInv => FoldIsLog
  BY DEF ChatInv, HandleKept, FoldIsLog
<1> QED  BY <1>1, Invariant, PTL

(* The log keeps what was acknowledged and all calls in their order, gives   *)
(* no number twice and hides no whole line, power losses included.           *)
THEOREM LogKeeps == Spec => []LogKeepsCalls
<1>1. ASSUME ChatInv  PROVE LogKeepsCalls
  <2>1. disk.lines \in Seq(Entry) /\ DOMAIN disk.lines = 1..Len(disk.lines) /\ disk.synced \in Nat
        /\ Len(disk.lines) \in Nat
    BY <1>1, TypeNames DEF ChatInv, Disk
  <2>2. \A i \in DOMAIN disk.lines : disk.lines[i] # Torn => Counts(disk.lines, i)
    BY <1>1, <2>1 DEF ChatInv, LinesKept, AllCount
  <2>3. \A e \in acked : \E i \in DOMAIN disk.lines : disk.lines[i] = e
    <3>1. \A i \in 1..disk.synced : i \in DOMAIN disk.lines
      BY <1>1, <2>1 DEF ChatInv, LinesKept
    <3> QED  BY <1>1, <3>1 DEF ChatInv, LinesKept
  <2>4. \A i, j \in DOMAIN disk.lines : i < j /\ Torn \notin {disk.lines[i], disk.lines[j]} =>
           Precedes(disk.lines[i], disk.lines[j])
    BY <1>1, <2>1 DEF ChatInv, LinesInOrder, InOrder
  <2> QED  BY <2>2, <2>3, <2>4 DEF LogKeepsCalls, Precedes
<1> QED  BY <1>1, Invariant, PTL

(* What clients were last told of a chat is the status of its fold.          *)
THEOREM ToldIsStatus == Spec => []StatusTold
<1>1. ChatInv => StatusTold
  BY DEF ChatInv, HandleKept, StatusTold
<1> QED  BY <1>1, Invariant, PTL

(* A page shows the first entries of the log, with what it just got, and     *)
(* leaves none out and repeats none.                                         *)
THEOREM ViewIsTheLog == Spec => []ViewIsLog
<1>1. ASSUME ChatInv  PROVE ViewIsLog
  <2>1. disk.lines \in Seq(Entry) /\ reader \in ReaderRecord
    BY <1>1, TypeNames DEF ChatInv, Disk
  <2>2. Valid(disk.lines) \in Seq(Entry)
    BY <2>1, ValidRises DEF KeptOf, Rising
  <2> PICK all : all = reader.view \o reader.reply
    OBVIOUS
  <2> PICK log : log = Valid(disk.lines)
    OBVIOUS
  <2>3. IsStart(all, log)
    BY <1>1 DEF ChatInv, ReaderKept
  <2>4. reader.reset => reader.view = all
    <3>1. reader.view \in Seq(Entry)
      BY <2>1 DEF ReaderRecord
    <3>2. reader.reset => reader.reply = <<>>
      BY <1>1 DEF ChatInv, ReaderKept
    <3> QED  BY <3>1, <3>2, ConcatEmptySeq
  <2>5. all = SubSeq(log, 1, Len(all)) /\ Len(all) <= Len(log)
    BY <2>2, <2>3, StartIs DEF IsStart
  <2>6. (IF reader.reset THEN reader.view ELSE reader.view \o reader.reply) = all
    BY <2>4
  <2> QED  BY <2>5, <2>6 DEF ViewIsLog
<1> QED  BY <1>1, Invariant, PTL

(* A new entry of the log is never one that the user counts as having seen,  *)
(* after a power loss that took lines too.                                   *)
THEOREM NewIsNotSeen == Spec => NewIsUnseen
<1>1. ASSUME ChatInv, [Next]_vars
      PROVE  [acked' # acked => \A e \in acked' \ acked : e.seq > seen]_vars
  <2> SUFFICES ASSUME acked' # acked, NEW a \in acked' \ acked  PROVE a.seq > seen
    OBVIOUS
  <2>1. Appends
    <3>1. ~(CallAppend \/ CallInterrupt \/ CallSeen)
      BY DEF CallAppend, CallInterrupt, CallSeen, Calls
    <3>2. ~(AsksTurn \/ TakesTurn \/ Reopens \/ FindsBusy \/ FindsAtRest \/ ClampsSeen \/ ChecksFirst
             \/ MarksSeen \/ MarksNothing \/ FindsGone \/ RecoversGone \/ AppendFails)
      BY DEF AsksTurn, TakesTurn, Reopens, FindsBusy, FindsAtRest, ClampsSeen, ChecksFirst, MarksSeen,
             MarksNothing, FindsGone, RecoversGone, AppendFails
    <3>3. ~(StepFails \/ Loads \/ RenameMoves \/ RenameEnds \/ RenameThrows \/ Removes \/ Vanishes \/ Crash \/ PowerLoss)
      BY DEF StepFails, Loads, RenameMoves, RenameEnds, RenameThrows, Removes, Vanishes, Crash, PowerLoss
    <3>4. ~(ReaderStep \/ Released \/ HoldEnds) /\ ~UNCHANGED vars
      BY DEF ReaderStep, Asks, AsksAgain, Receives, Follows, Released, HoldEnds, readerOnly, vars
    <3> QED  BY <1>1, <3>1, <3>2, <3>3, <3>4 DEF Next, JobStep
  <2>2. PICK e \in NextEvents : acked' = acked \union {Line(e)}
    BY <2>1 DEF Appends
  <2>3. Appending /\ ~SeenAhead
    BY <2>1 DEF Appends
  <2>4. Line(e).seq = LastSeq(mem.kept) + 1 /\ LastSeq(mem.kept) \in Nat /\ seen \in Nat
    BY <1>1, <2>3, AppendingIs, LineIs, JobRuns, TypeNames DEF ChatInv
  <2>5. a = Line(e) /\ seen <= LastSeq(mem.kept)
    BY <2>2, <2>3, <2>4 DEF SeenAhead, Last
  <2> QED  BY <2>4, <2>5
<1> QED  BY <1>1, Invariant, PTL DEF Spec, NewIsUnseen

(* Nothing of a chat runs. *)
IsQuiet(f) == ~f.turn /\ ~f.job /\ ~f.own /\ f.open = {}

(* The fold of a chat in which nothing runs. *)
LEMMA QuietIs ==
  ASSUME NEW f, NEW s
  PROVE  IsQuiet(NothingRuns(f, s))
<1> PICK c : c = ChatStart
  OBVIOUS
<1>1. c = [turn |-> FALSE, job |-> FALSE, own |-> FALSE, open |-> {}, stopped |-> "none"]
  BY DEF ChatStart
<1>2. NothingRuns(f, s) = [c EXCEPT !.stopped = s]
  BY DEF NothingRuns
<1> QED  BY <1>1, <1>2 DEF IsQuiet

(* A chat that was loaded has nothing open when it is given to anyone,       *)
(* unless a write of the recovery failed.                                    *)
THEOREM LoadedIsAtRest == Spec => LoadedRests
<1>1. ASSUME ChatInv, [Next]_vars
      PROVE  [mem.st = "opening" /\ Live' /\ Job.kind = "recover" /\ Here /\ left' = left => ~ChatBusy(mem'.fold)]_vars
  <2> SUFFICES ASSUME mem.st = "opening", mem'.st = "live", Job.kind = "recover", Here, left' = left
               PROVE  ~ChatBusy(mem'.fold)
    BY DEF Live
  <2>1. jobs # <<>> /\ mem \in HandleRecord /\ Job \in JobRecord /\ Job.pc \in {"inside", "writes"} /\ left \in [Bounded -> Nat]
    <3>1. mem \in HandleRecord /\ left \in [Bounded -> Nat]
      BY <1>1, TypeNames, HandleThere DEF ChatInv
    <3>2. Len(jobs) = 1 /\ Job.pc \in InTurn /\ (Runs("checks") => Job.kind = "first")
      BY <1>1 DEF ChatInv, JobsKept
    <3>3. jobs # <<>>
      BY <3>2
    <3> QED  BY <1>1, <3>1, <3>2, <3>3, JobRuns DEF InTurn, Runs
  <2>2. mem' # mem
    OBVIOUS
  <2>3. ~Faults
    BY <2>1 DEF Faults, Bounded
  <2>4. FindsAtRest \/ Appends
    <3>1. ~(CallAppend \/ CallInterrupt \/ CallSeen)
      BY <2>2 DEF CallAppend, CallInterrupt, CallSeen, Calls
    <3>2. ~(AsksTurn \/ TakesTurn \/ FindsBusy \/ ClampsSeen \/ MarksSeen \/ MarksNothing)
      BY <2>2 DEF AsksTurn, TakesTurn, FindsBusy, ClampsSeen, MarksSeen, MarksNothing
    <3>3. ~(FindsGone \/ RecoversGone \/ AppendFails \/ StepFails \/ ChecksFirst)
      BY <2>1, <2>3 DEF FindsGone, RecoversGone, AppendFails, StepFails, Forget, NoHandle, ChecksFirst, Runs
    <3>4. ~Reopens
      <4>1. Reopens => IsOpened(mem', "opening", mem.tag)
        BY <1>1, <2>1, JobRuns, OpenedIs DEF Reopens, HandleRecord
      <4> QED  BY <4>1 DEF IsOpened
    <3>5. ~(Loads \/ RenameMoves \/ RenameEnds \/ RenameThrows \/ Removes \/ Vanishes \/ Crash \/ PowerLoss)
      <4>1. ~(RenameEnds \/ RenameThrows)
        BY <1>1, <2>1, <2>2, RenameIs DEF Relocated
      <4> QED  BY <2>2, <4>1 DEF Loads, LeftBehind, RenameMoves, Removes, Vanishes, Crash, PowerLoss, Forget, NoHandle,
                                 Live
    <3>6. ~(ReaderStep \/ Released \/ HoldEnds) /\ ~UNCHANGED vars
      BY <2>2 DEF ReaderStep, Asks, AsksAgain, Receives, Follows, Released, HoldEnds, readerOnly, vars
    <3> QED  BY <1>1, <3>1, <3>2, <3>3, <3>4, <3>5, <3>6 DEF Next, JobStep
  <2>5. CASE FindsAtRest
    <3>1. mem'.fold = mem.fold
      BY <2>1, <2>5, KeptIs DEF FindsAtRest, SameHandle
    <3> QED  BY <2>5, <3>1 DEF FindsAtRest, LeavesWork
  <2>6. CASE Appends
    <3>1. PICK e \in NextEvents :
            LET h == FoldEntry([mem EXCEPT !.kept = Append(@, Line(e))], Line(e))
            IN  \/ e.kind = "resolved" /\ Job.pc = "writes" /\ mem' = h
                \/ (e.kind # "resolved" \/ Job.pc # "writes") /\ mem' = Kept(h)
      BY <2>6 DEF Appends
    <3>2. Line(e) \in Entry /\ Line(e).ev = e /\ e \in Event
      BY <1>1, <2>1, LineIs
    <3> PICK h : h = FoldEntry([mem EXCEPT !.kept = Append(@, Line(e))], Line(e))
      OBVIOUS
    <3>3. IsTaken(h, mem, Line(e)) /\ h \in HandleRecord /\ h.st = "opening"
      BY <2>1, <3>2, TakenIs DEF IsTaken
    <3>4. mem' = Kept(h) /\ (e.kind # "resolved" \/ Job.pc # "writes")
      BY <3>1, <3>3
    <3>5. Job.pc = "writes"
      BY <2>1, <2>6 DEF Appends, Appending, Runs
    <3>6. e = Plain("interrupted")
      <4>1. \A q : ResolvedEvent({q}).kind = "resolved"
        BY DEF ResolvedEvent, Plain
      <4> QED  BY <3>4, <3>5, <4>1 DEF NextEvents
    <3>7. mem'.fold = FoldChat(mem.fold, e)
      <4> PICK s : s = [fold |-> mem.fold, stateSeq |-> mem.stateSeq]
        OBVIOUS
      <4>1. s \in FoldState /\ s.fold = mem.fold
        BY <2>1 DEF FoldState, HandleRecord
      <4>2. h.fold = FoldChat(mem.fold, e)
        BY <3>2, <3>3, <4>1, FoldEntryIs DEF IsTaken
      <4> QED  BY <3>3, <3>4, <4>2, KeptIs DEF SameHandle
    <3>8. FoldChat(mem.fold, e) = NothingRuns(mem.fold, mem.fold.stopped)
      BY <3>6 DEF FoldChat, Plain
    <3>9. IsQuiet(mem'.fold)
      BY <3>7, <3>8, QuietIs
    <3> QED  BY <3>9 DEF ChatBusy, AgentActive, TurnRuns, IsQuiet
  <2> QED  BY <2>4, <2>5, <2>6
<1> QED  BY <1>1, Invariant, PTL DEF Spec, LoadedRests

(* The daemon lets go of a chat only when it is gone, when the daemon dies,  *)
(* or when a rename threw and left the handle behind: a call that waited     *)
(* behind a rename looks for the folder where it is.                         *)
THEOREM KeptWhileItIsThere == Spec => KeptWhileThere
<1> DEFINE Goal == place' = "gone" \/ left'.crash < left.crash \/ (mem.astray /\ ~Here)
<1>1. ASSUME ChatInv, [Next]_vars
      PROVE  [Live /\ mem' = NoHandle => Goal]_vars
  <2> SUFFICES ASSUME mem.st = "live", mem' = NoHandle  PROVE Goal
    BY DEF Live
  <2>1. mem \in HandleRecord /\ left \in [Bounded -> Nat] /\ NoHandle.st = "none" /\ mem' # mem
    BY <1>1, TypeNames, HandleThere DEF ChatInv, NoHandle
  <2>2. CASE Removes
    BY <2>2 DEF Removes
  <2>3. CASE Crash
    BY <2>1, <2>3 DEF Crash, Bounded
  <2>4. CASE FindsGone
    <3>1. jobs # <<>> /\ Job.pc \in InTurn /\ ~Here /\ place' = place
      BY <2>4 DEF FindsGone, Reopening, Appending, Marking, Runs, InTurn
    <3> QED  BY <1>1, <3>1, InTurnHere DEF Here
  <2>5. ~(ChecksFirst \/ (StepFails /\ Runs("checks")))
    BY <1>1 DEF ChecksFirst, ChatInv, JobsKept
  <2>6. ~(FindsAtRest \/ RecoversGone \/ (StepFails /\ ~Runs("checks")))
    BY <2>1, KeptIs DEF FindsAtRest, RecoversGone, StepFails
  <2>7. ~(CallAppend \/ CallInterrupt \/ CallSeen)
    BY <2>1 DEF CallAppend, CallInterrupt, CallSeen, Calls
  <2>8. ~(AsksTurn \/ TakesTurn \/ FindsBusy \/ ClampsSeen \/ MarksSeen \/ MarksNothing)
    BY <2>1 DEF AsksTurn, TakesTurn, FindsBusy, ClampsSeen, MarksSeen, MarksNothing
  <2>9. ~(Reopens \/ Loads)
    <3>1. Reopens => IsOpened(mem', "live", mem.tag)
      <4>1. Reopens => jobs # <<>>
        BY DEF Reopens, Reopening, Runs
      <4> QED  BY <1>1, <2>1, <4>1, JobRuns, OpenedIs DEF Reopens, HandleRecord
    <3>2. Loads => IsOpened(mem', "opening", place)
      BY <1>1, OpenedIs, TypeNames DEF Loads, ChatInv
    <3> QED  BY <2>1, <3>1, <3>2 DEF IsOpened
  <2>10. ~Appends
    <3> SUFFICES ASSUME Appends PROVE FALSE
      OBVIOUS
    <3>1. PICK e \in NextEvents :
            LET h == FoldEntry([mem EXCEPT !.kept = Append(@, Line(e))], Line(e))
            IN  mem' = h \/ mem' = Kept(h)
      BY DEF Appends
    <3>2. jobs # <<>>
      BY <1>1, AppendingIs DEF Appends
    <3> PICK h : h = FoldEntry([mem EXCEPT !.kept = Append(@, Line(e))], Line(e))
      OBVIOUS
    <3>3. h \in HandleRecord /\ h.st = "live"
      BY <1>1, <2>1, <3>2, LineIs, TakenIs DEF IsTaken
    <3> QED  BY <2>1, <3>1, <3>3, KeptIs
  <2>11. ~AppendFails
    BY <2>1, MarkStaleIs, KeptIs DEF AppendFails, IsMarked
  <2>12. ~(RenameMoves \/ RenameEnds \/ RenameThrows \/ Vanishes \/ PowerLoss)
    <3>1. ~(RenameEnds \/ RenameThrows)
      BY <1>1, <2>1, RenameIs DEF Relocated
    <3> QED  BY <2>1, <3>1 DEF RenameMoves, Vanishes, PowerLoss
  <2>13. ~(ReaderStep \/ Released \/ HoldEnds) /\ ~UNCHANGED vars
    BY <2>1 DEF ReaderStep, Asks, AsksAgain, Receives, Follows, Released, HoldEnds, readerOnly, vars
  <2> QED  BY <1>1, <2>2, <2>3, <2>4, <2>5, <2>6, <2>7, <2>8, <2>9, <2>10, <2>11, <2>12, <2>13 DEF Next, JobStep
<1> QED  BY <1>1, Invariant, PTL DEF Spec, KeptWhileThere
=============================================================================
