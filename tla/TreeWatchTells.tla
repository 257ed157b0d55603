--------------------------- MODULE TreeWatchTells ---------------------------
(***************************************************************************)
(* Proofs about TreeWatch, for any projects, limit and budgets: no change  *)
(* is missed where a watch stood, and a rescan that resolved saw all that  *)
(* stood when it was asked for.                                            *)
(***************************************************************************)
EXTENDS TreeWatch, FiniteSetTheorems, SequenceTheorems, TLAPS

(* What holds of a state, or of what a read has got so far. *)
StateRecord == [id : [Folders -> Nat], file : [Folders -> Nat], tags : SUBSET Tags]

Items == {Names} \union {IdOf(f) : f \in Folders} \union {FileOf(f) : f \in Folders}

TreeTypes ==
  /\ id \in [Folders -> Nat] /\ file \in [Folders -> Nat]
  /\ seen \in StateRecord
  /\ held \in [Folders -> [id : Nat, on : Nat]]
  /\ timers \subseteq Folders
  /\ queue \in Seq(Folders) /\ fresh \in Seq(Folders)
  /\ reading \in [area : Folders, todo : SUBSET Items, got : StateRecord, on : BOOLEAN]
  /\ closed \in BOOLEAN
  /\ rescan \in {"asked", "done"}
  /\ excused \subseteq Folders /\ still \subseteq Folders
  /\ stamp \in Nat

(* Numbers are given once; the root stays, and a project stands in the list. *)
Numbered ==
  /\ \A f \in Folders : id[f] <= stamp /\ held[f].on <= stamp /\ held[f].id <= stamp
  /\ \A f \in Folders : seen.id[f] <= stamp /\ reading.got.id[f] <= stamp
  /\ id[Root] = 1 /\ seen.id[Root] = 1 /\ reading.got.id[Root] = 1
  /\ \A t \in Tags : id[t] # 0 => id[List] # 0

(* What a read in flight asks for fits its area, and what it does not ask for *)
(* is as the last read left it.                                               *)
ReadFits ==
  /\ ~reading.on => reading.todo = {}
  /\ reading.on /\ reading.area \in Tags =>
       /\ reading.todo \subseteq {IdOf(reading.area), FileOf(reading.area)}
       /\ reading.got.tags = seen.tags
       /\ \A f \in Folders \ {reading.area} : reading.got.id[f] = seen.id[f] /\ reading.got.file[f] = seen.file[f]

(* A state holds what is in a folder, but for what is still to be read. *)
RootIn(s, todo) ==
  /\ FileOf(Root) \in todo \/ s.file[Root] = file[Root]
  /\ IdOf(List) \in todo \/ s.id[List] = id[List]

ListIn(s, todo) ==
  \/ Names \in todo
  \/ /\ s.tags = {t \in Tags : id[t] # 0}
     /\ \A t \in s.tags : IdOf(t) \in todo \/ s.id[t] = id[t]

TagIn(t, s, todo) == Names \in todo \/ FileOf(t) \in todo \/ s.file[t] = file[t]

MatchesIn(f, s, todo) ==
  /\ f = Root => RootIn(s, todo)
  /\ f = List => ListIn(s, todo)
  /\ f \in Tags => TagIn(f, s, todo)

(* A read of one project finds out whether it is there. *)
OwnIn(r) == r.on /\ r.area \in Tags => IdOf(r.area) \in r.todo \/ r.got.id[r.area] = id[r.area]

(* So it will be when the read in flight has ended. *)
Current == IF reading.on THEN reading.got ELSE seen
MatchesSoon(f) == MatchesIn(f, Current, reading.todo) /\ (f = List => OwnIn(reading))

(* A watch is taken for the folder that a read found; it hears that folder, if *)
(* it still stands, or it failed.                                              *)
WatchesFit ==
  /\ \A f \in Folders : held[f].id # 0 => f \in Wanted(seen) /\ held[f].id = seen.id[f]
  /\ \A f \in Folders : held[f].id # 0 /\ held[f].id = id[f] =>
       held[f].on = id[f] \/ (held[f].on = 0 /\ f \in excused)

(* Before the first read has ended there are no watches. *)
FirstRead == Root \in Range(queue) \/ (reading.on /\ reading.area = Root)
AllWatched == closed \/ FirstRead \/ \A f \in Wanted(seen) : held[f].id # 0

Awaits(f) == \E a \in timers \union Range(queue) \union Range(fresh) : f \in Covers(a)

Excused(f) == f \in excused \/ Root \in excused \/ (f # Root /\ List \in excused)

(* A folder that a watch hears is as the state has it, or a read of it comes. *)
Told(f) == Excused(f) \/ f \notin Wanted(seen) \/ Awaits(f) \/ ~Hears(f) \/ MatchesSoon(f)
AllTold == ~closed => \A f \in Folders : id[f] # 0 => Told(f)

(* What has not changed since the rescan was asked for is in the state once *)
(* its read has ended, and stays there.                                     *)
AskedAhead == rescan = "asked" /\ Root \in Range(queue)
RescanInv ==
  ~closed /\ ~AskedAhead =>
    /\ \/ rescan = "asked" /\ reading.on /\ reading.area = Root
       \/ \A f \in still : id[f] # 0 => MatchesIn(f, seen, {})
    /\ \A f \in still : id[f] # 0 => MatchesSoon(f)

ShapeInv == TreeTypes /\ Numbered /\ ReadFits

TreeInv == ShapeInv /\ WatchesFit /\ AllWatched /\ AllTold /\ RescanInv

-----------------------------------------------------------------------------
(* Folders, items and sequences. *)

LEMMA Places ==
  /\ Root # List /\ Root \notin Tags /\ List \notin Tags
  /\ Root \in Folders /\ List \in Folders /\ Tags \subseteq Folders /\ Folders \subseteq Nat
  /\ \A f \in Folders : f = Root \/ f = List \/ f \in Tags
  BY TreeAssumption DEF Root, List, Folders

LEMMA ItemsDiffer ==
  /\ \A f, g \in Folders : IdOf(f) # FileOf(g) /\ (IdOf(f) = IdOf(g) => f = g) /\ (FileOf(f) = FileOf(g) => f = g)
  /\ \A f \in Folders : IdOf(f) # Names /\ FileOf(f) # Names /\ IdOf(f) \in Items /\ FileOf(f) \in Items
  /\ Names \in Items
  BY DEF IdOf, FileOf, Names, Items

(* What the read of an area covers, and what it asks for. *)
LEMMA AreaIs ==
  /\ Covers(Root) = Folders /\ Covers(List) = {List} \union Tags /\ \A t \in Tags : Covers(t) = {t}
  /\ ItemsOf(Root) = {FileOf(Root), IdOf(List), Names} /\ ItemsOf(List) = {IdOf(List), Names}
  /\ \A t \in Tags : ItemsOf(t) = {IdOf(t), FileOf(t)}
  /\ \A a \in Folders : ItemsOf(a) \subseteq Items /\ a \in Covers(a) /\ Covers(a) \subseteq Folders
<1>1. Covers(Root) = Folders /\ Covers(List) = {List} \union Tags /\ \A t \in Tags : Covers(t) = {t}
  BY Places DEF Covers
<1>2. ItemsOf(Root) = {FileOf(Root), IdOf(List), Names} /\ ItemsOf(List) = {IdOf(List), Names}
  BY Places DEF ItemsOf, ListItems
<1>3. \A t \in Tags : ItemsOf(t) = {IdOf(t), FileOf(t)}
  BY Places DEF ItemsOf
<1>4. \A a \in Folders : ItemsOf(a) \subseteq Items /\ a \in Covers(a) /\ Covers(a) \subseteq Folders
  <2> TAKE a \in Folders
  <2>1. IdOf(a) \in Items /\ FileOf(a) \in Items /\ IdOf(List) \in Items /\ Names \in Items /\ FileOf(Root) \in Items
    BY ItemsDiffer, Places
  <2>2. CASE a = Root
    BY <1>1, <1>2, <2>1, <2>2
  <2>3. CASE a = List
    BY <1>1, <1>2, <2>1, <2>3, Places
  <2>4. CASE a \in Tags
    BY <1>1, <1>3, <2>1, <2>4, Places
  <2> QED  BY <2>2, <2>3, <2>4, Places
<1> QED  BY <1>1, <1>2, <1>3, <1>4

LEMMA HeadAndTail ==
  ASSUME NEW S, NEW s \in Seq(S), s # <<>>
  PROVE  Head(s) \in S /\ Tail(s) \in Seq(S) /\ Range(s) = {Head(s)} \union Range(Tail(s))
<1>0. Len(s) \in Nat /\ Len(s) >= 1 /\ DOMAIN s = 1 .. Len(s)
  BY EmptySeq
<1>1. Head(s) = s[1] /\ Head(s) \in S /\ Tail(s) \in Seq(S)
  BY <1>0
<1>2. Len(Tail(s)) = Len(s) - 1 /\ DOMAIN Tail(s) = 1 .. Len(s) - 1 /\ \A i \in 1 .. Len(s) - 1 : Tail(s)[i] = s[i + 1]
  BY <1>0
<1>3. ASSUME NEW x \in Range(s)  PROVE x = Head(s) \/ x \in Range(Tail(s))
  <2>1. PICK i \in 1 .. Len(s) : x = s[i]
    BY <1>0, <1>3 DEF Range
  <2>2. CASE i = 1
    BY <1>1, <2>1, <2>2
  <2>3. CASE i # 1
    <3>1. i - 1 \in 1 .. Len(s) - 1 /\ Tail(s)[i - 1] = s[i]
      BY <1>0, <1>2, <2>3
    <3> QED  BY <1>2, <2>1, <3>1 DEF Range
  <2> QED  BY <2>2, <2>3
<1>4. ASSUME NEW x \in Range(Tail(s))  PROVE x \in Range(s)
  <2>1. PICK i \in 1 .. Len(s) - 1 : x = Tail(s)[i]
    BY <1>2, <1>4 DEF Range
  <2>2. i + 1 \in 1 .. Len(s) /\ x = s[i + 1]
    BY <1>0, <1>2, <2>1
  <2> QED  BY <1>0, <2>2 DEF Range
<1>5. Head(s) \in Range(s)
  <2>1. 1 \in DOMAIN s
    BY <1>0
  <2> QED  BY <1>1, <2>1 DEF Range
<1> QED  BY <1>1, <1>3, <1>4, <1>5

LEMMA AppendHas ==
  ASSUME NEW S, NEW s \in Seq(S), NEW x \in S
  PROVE  Append(s, x) \in Seq(S) /\ Range(Append(s, x)) = Range(s) \union {x}
<1>0. Append(s, x) \in Seq(S) /\ Len(s) \in Nat
  BY AppendProperties
<1>1. /\ DOMAIN Append(s, x) = 1 .. Len(s) + 1 /\ DOMAIN s = 1 .. Len(s)
      /\ Append(s, x)[Len(s) + 1] = x /\ \A i \in 1 .. Len(s) : Append(s, x)[i] = s[i]
  BY <1>0, AppendProperties
<1>2. ASSUME NEW y \in Range(Append(s, x))  PROVE y \in Range(s) \union {x}
  <2>1. PICK i \in 1 .. Len(s) + 1 : y = Append(s, x)[i]
    BY <1>1, <1>2 DEF Range
  <2>2. i \in 1 .. Len(s) \/ i = Len(s) + 1
    BY <1>0
  <2> QED  BY <1>1, <2>1, <2>2 DEF Range
<1>3. ASSUME NEW y \in Range(s)  PROVE y \in Range(Append(s, x))
  <2>1. PICK i \in 1 .. Len(s) : y = s[i]
    BY <1>1, <1>3 DEF Range
  <2>2. i \in DOMAIN Append(s, x) /\ Append(s, x)[i] = y
    BY <1>0, <1>1, <2>1
  <2> QED  BY <2>2 DEF Range
<1>4. x \in Range(Append(s, x))
  <2>1. Len(s) + 1 \in DOMAIN Append(s, x)
    BY <1>0, <1>1
  <2> QED  BY <1>1, <2>1 DEF Range
<1> QED  BY <1>0, <1>2, <1>3, <1>4

LEMMA ConcatHas ==
  ASSUME NEW S, NEW s \in Seq(S), NEW r \in Seq(S)
  PROVE  s \o r \in Seq(S) /\ Range(s) \subseteq Range(s \o r) /\ Range(r) \subseteq Range(s \o r)
<1>0. /\ s \o r \in Seq(S) /\ Len(s) \in Nat /\ Len(r) \in Nat /\ Len(s \o r) = Len(s) + Len(r)
      /\ \A i \in 1 .. Len(s) + Len(r) : (s \o r)[i] = IF i <= Len(s) THEN s[i] ELSE r[i - Len(s)]
  BY ConcatProperties
<1>1. DOMAIN (s \o r) = 1 .. Len(s) + Len(r) /\ DOMAIN s = 1 .. Len(s) /\ DOMAIN r = 1 .. Len(r)
  BY <1>0
<1>2. ASSUME NEW y \in Range(s)  PROVE y \in Range(s \o r)
  <2>1. PICK i \in 1 .. Len(s) : y = s[i]
    BY <1>1, <1>2 DEF Range
  <2>2. i \in DOMAIN (s \o r) /\ (s \o r)[i] = y
    BY <1>0, <1>1, <2>1
  <2> QED  BY <2>2 DEF Range
<1>3. ASSUME NEW y \in Range(r)  PROVE y \in Range(s \o r)
  <2>1. PICK i \in 1 .. Len(r) : y = r[i]
    BY <1>1, <1>3 DEF Range
  <2>2. i + Len(s) \in DOMAIN (s \o r) /\ (s \o r)[i + Len(s)] = y
    BY <1>0, <1>1, <2>1
  <2> QED  BY <2>2 DEF Range
<1> QED  BY <1>0, <1>2, <1>3

LEMMA FoldersFinite == IsFiniteSet(Folders)
<1>1. IsFiniteSet(Tags \union {List})
  BY TreeAssumption, FS_AddElement
<1>2. IsFiniteSet((Tags \union {List}) \union {Root})
  BY <1>1, FS_AddElement
<1>3. (Tags \union {List}) \union {Root} = Folders
  BY DEF Folders
<1> QED  BY <1>2, <1>3

(* The areas to read again, in their order. *)
LEMMA InOrderIs ==
  ASSUME NEW S \in SUBSET Folders, NEW s \in InOrder(S)
  PROVE  s \in Seq(Folders) /\ Range(s) = S
<1>1. Cardinality(S) \in Nat
  BY FoldersFinite, FS_Subset, FS_CardinalityType
<1>2. s \in [1 .. Cardinality(S) -> S] /\ Range(s) = S
  BY DEF InOrder
<1> QED  BY <1>1, <1>2

-----------------------------------------------------------------------------
(* Types, numbers, and what a read asks for. *)

LEMMA InitShape == Init => ShapeInv
<1> SUFFICES ASSUME Init  PROVE ShapeInv
  OBVIOUS
<1>1. NoState \in StateRecord
  BY DEF NoState, StateRecord
<1>2. Root \in Folders /\ List \in Folders /\ Root # List
  BY Places
<1>3. queue \in Seq(Folders) /\ fresh \in Seq(Folders)
  BY <1>2, EmptySeq DEF Init
<1>4. TreeTypes
  <2>1. id \in [Folders -> Nat] /\ file \in [Folders -> Nat] /\ held \in [Folders -> [id : Nat, on : Nat]]
    BY DEF Init, NotHeld
  <2>2. reading \in [area : Folders, todo : SUBSET Items, got : StateRecord, on : BOOLEAN]
    BY <1>1, <1>2 DEF Init, NoRead
  <2> QED  BY <1>1, <1>3, <2>1, <2>2 DEF Init, TreeTypes
<1>5. NoState.id[Root] = 1 /\ \A f \in Folders : NoState.id[f] <= 1
  BY <1>2 DEF NoState
<1>6. Numbered
  BY <1>2, <1>5, Places DEF Init, Numbered, NotHeld, NoRead
<1>7. ReadFits
  BY DEF Init, ReadFits, NoRead
<1> QED  BY <1>4, <1>6, <1>7 DEF ShapeInv

(* What a hand leaves alone. *)
LEMMA HandLeaves ==
  ASSUME TreeTypes, NEW g \in Folders, NEW gone, ChangesIn(g, gone)
  PROVE  /\ UNCHANGED <<seen, held, queue, fresh, reading, closed, rescan>>
         /\ timers \subseteq timers' /\ timers' \subseteq Folders
         /\ excused \subseteq excused' /\ excused' \subseteq Folders
         /\ still' = still \ ({g} \union gone) /\ stamp' = stamp + 1
         /\ closed \/ ~Hears(g) \/ g \in timers' \/ g \in excused'
  BY DEF ChangesIn, TreeTypes

(* What each hand does to the disk. *)
LEMMA HandIs ==
  ASSUME TreeTypes, NEW f \in Folders, Edits(f) \/ Makes(f) \/ Removes(f)
  PROVE  \/ /\ Edits(f) /\ ChangesIn(f, {}) /\ f # List /\ id[f] # 0 /\ id' = id
            /\ file' \in [Folders -> Nat] /\ \A g \in Folders \ {f} : file'[g] = file[g]
         \/ /\ Makes(f) /\ ChangesIn(Parent(f), {f}) /\ f # Root /\ Parent(f) \in Folders /\ id[f] = 0
            /\ id[Parent(f)] # 0 /\ file' = file
            /\ id' \in [Folders -> Nat] /\ id'[f] = stamp + 1 /\ \A g \in Folders \ {f} : id'[g] = id[g]
         \/ /\ Removes(f) /\ ChangesIn(Parent(f), Covers(f)) /\ f # Root /\ Parent(f) \in Folders
            /\ id' \in [Folders -> Nat] /\ file' \in [Folders -> Nat]
            /\ \A g \in Folders : id'[g] = (IF g \in Covers(f) THEN 0 ELSE id[g])
            /\ \A g \in Folders : file'[g] = (IF g \in Covers(f) THEN 0 ELSE file[g])
<1>0. stamp + 1 \in Nat /\ Parent(f) \in Folders
  BY Places DEF TreeTypes, Parent
<1>1. CASE Edits(f)
  <2>1. PICK mark \in {0, stamp + 1} : file' = [file EXCEPT ![f] = mark]
    BY <1>1 DEF Edits
  <2>2. file' \in [Folders -> Nat] /\ \A g \in Folders \ {f} : file'[g] = file[g]
    BY <1>0, <2>1 DEF TreeTypes
  <2> QED  BY <1>1, <2>2 DEF Edits
<1>2. CASE Makes(f)
  BY <1>0, <1>2 DEF Makes, TreeTypes
<1>3. CASE Removes(f)
  BY <1>0, <1>3 DEF Removes, TreeTypes
<1> QED  BY <1>1, <1>2, <1>3

LEMMA HandShape ==
  ASSUME ShapeInv, NEW f \in Folders, Edits(f) \/ Makes(f) \/ Removes(f)
  PROVE  ShapeInv'
<1>0. TreeTypes /\ Numbered /\ ReadFits
  BY DEF ShapeInv
<1>1. ASSUME NEW g \in Folders, NEW gone, ChangesIn(g, gone), id' \in [Folders -> Nat], file' \in [Folders -> Nat],
             \A h \in Folders : id'[h] <= stamp + 1, id'[Root] = 1,
             \A t \in Tags : id'[t] # 0 => id'[List] # 0
      PROVE  ShapeInv'
  <2>1. /\ UNCHANGED <<seen, held, queue, fresh, reading, closed, rescan>> /\ timers' \subseteq Folders
        /\ excused' \subseteq Folders /\ still' \subseteq still /\ stamp' = stamp + 1
    BY <1>0, <1>1, HandLeaves
  <2>2. TreeTypes'
    <3>1. stamp' \in Nat
      BY <1>0, <2>1 DEF TreeTypes
    <3> QED  BY <1>0, <1>1, <2>1, <3>1 DEF TreeTypes
  <2>3. stamp \in Nat /\ held \in [Folders -> [id : Nat, on : Nat]]
        /\ seen.id \in [Folders -> Nat] /\ reading.got.id \in [Folders -> Nat]
    BY <1>0 DEF TreeTypes, StateRecord
  <2>4. \A h \in Folders : held[h].on <= stamp + 1 /\ held[h].id <= stamp + 1 /\ seen.id[h] <= stamp + 1 /\ reading.got.id[h] <= stamp + 1
    BY <1>0, <2>3 DEF Numbered
  <2>5. Numbered'
    BY <1>0, <1>1, <2>1, <2>4 DEF Numbered
  <2>6. ReadFits'
    BY <1>0, <2>1 DEF ReadFits
  <2> QED  BY <2>2, <2>5, <2>6 DEF ShapeInv
<1>2. /\ stamp \in Nat /\ id \in [Folders -> Nat] /\ file \in [Folders -> Nat]
      /\ \A h \in Folders : id[h] <= stamp + 1
      /\ id[Root] = 1 /\ \A t \in Tags : id[t] # 0 => id[List] # 0
  BY <1>0 DEF TreeTypes, Numbered
<1>3. CASE /\ ChangesIn(f, {}) /\ id' = id /\ file' \in [Folders -> Nat]
  BY <1>1, <1>2, <1>3
<1>4. CASE /\ ChangesIn(Parent(f), {f}) /\ f # Root /\ Parent(f) \in Folders
           /\ id[Parent(f)] # 0 /\ file' = file /\ id' \in [Folders -> Nat]
           /\ id'[f] = stamp + 1 /\ \A g \in Folders \ {f} : id'[g] = id[g]
  <2>1. \A h \in Folders : id'[h] <= stamp + 1
    BY <1>2, <1>4
  <2>2. id'[Root] = 1 /\ \A t \in Tags : id'[t] # 0 => id'[List] # 0
    BY <1>2, <1>4, Places DEF Parent
  <2> QED  BY <1>1, <1>2, <1>4, <2>1, <2>2
<1>5. CASE /\ ChangesIn(Parent(f), Covers(f)) /\ f # Root /\ Parent(f) \in Folders
           /\ id' \in [Folders -> Nat] /\ file' \in [Folders -> Nat]
           /\ \A g \in Folders : id'[g] = (IF g \in Covers(f) THEN 0 ELSE id[g])
  <2>1. \A h \in Folders : id'[h] <= stamp + 1
    BY <1>2, <1>5
  <2>2. id'[Root] = 1
    BY <1>2, <1>5, Places, AreaIs
  <2>3. \A t \in Tags : id'[t] # 0 => id'[List] # 0
    BY <1>2, <1>5, Places, AreaIs
  <2> QED  BY <1>1, <1>5, <2>1, <2>2, <2>3
<1> QED  BY <1>0, <1>3, <1>4, <1>5, HandIs

(* A read begins with what the last one left. *)
LEMMA BeginsShape ==
  ASSUME ShapeInv, NEW a \in Folders, Begins(a), queue' \in Seq(Folders), fresh' \in Seq(Folders)
  PROVE  ShapeInv'
<1>0. TreeTypes /\ Numbered /\ ReadFits
  BY DEF ShapeInv
<1>1. reading' = [area |-> a, todo |-> ItemsOf(a), got |-> seen, on |-> TRUE]
  BY DEF Begins
<1>2. /\ UNCHANGED <<disk, seen, held, timers, closed, rescan, still, left>> /\ excused' \subseteq excused
  BY DEF Begins
<1>3. TreeTypes'
  <2>1. ItemsOf(a) \subseteq Items
    BY AreaIs
  <2> QED  BY <1>0, <1>1, <1>2, <2>1 DEF TreeTypes, disk
<1>4. Numbered'
  BY <1>0, <1>1, <1>2 DEF Numbered, disk
<1>5. ReadFits'
  BY <1>1, <1>2, AreaIs DEF ReadFits
<1> QED  BY <1>3, <1>4, <1>5 DEF ShapeInv

LEMMA RunsShape ==
  ASSUME ShapeInv, RunNext \/ RunFresh
  PROVE  ShapeInv'
<1>0. TreeTypes /\ Numbered /\ ReadFits /\ queue \in Seq(Folders) /\ fresh \in Seq(Folders)
  BY DEF ShapeInv, TreeTypes
<1>1. CASE RunNext /\ closed
  <2>1. queue' \in Seq(Folders) /\ UNCHANGED <<disk, seen, held, timers, reading, closed, history, left, fresh>>
    BY <1>0, <1>1, HeadAndTail DEF RunNext
  <2> QED  BY <1>0, <2>1 DEF ShapeInv, TreeTypes, Numbered, ReadFits, disk, history
<1>2. CASE RunNext /\ ~closed
  BY <1>0, <1>2, HeadAndTail, BeginsShape DEF RunNext
<1>3. CASE RunFresh
  BY <1>0, <1>3, HeadAndTail, BeginsShape DEF RunFresh
<1> QED  BY <1>1, <1>2, <1>3

(* One answer of the disk. *)
LEMMA ReadsShape ==
  ASSUME ShapeInv, Read
  PROVE  ShapeInv'
<1>0. /\ TreeTypes /\ Numbered /\ ReadFits /\ reading.got \in StateRecord /\ stamp \in Nat /\ id \in [Folders -> Nat]
      /\ reading \in [area : Folders, todo : SUBSET Items, got : StateRecord, on : BOOLEAN]
  BY DEF ShapeInv, TreeTypes
<1>1. ASSUME NEW item, NEW got, NEW more, item \in reading.todo, Reads(item, got, more), got \in StateRecord, more \subseteq Items,
             \A f \in Folders : got.id[f] <= stamp, got.id[Root] = 1,
             reading.area \in Tags =>
               /\ more = {} /\ got.tags = reading.got.tags
               /\ \A f \in Folders \ {reading.area} : got.id[f] = reading.got.id[f] /\ got.file[f] = reading.got.file[f]
      PROVE  ShapeInv'
  <2>1. reading' = [reading EXCEPT !.todo = (@ \ {item}) \union more, !.got = got]
    BY <1>1 DEF Reads
  <2>2. /\ reading'.area = reading.area /\ reading'.on = reading.on /\ reading'.got = got
        /\ reading'.todo = (reading.todo \ {item}) \union more
        /\ reading' \in [area : Folders, todo : SUBSET Items, got : StateRecord, on : BOOLEAN]
    BY <1>0, <1>1, <2>1
  <2>3. UNCHANGED <<disk, seen, held, timers, queue, fresh, closed, history, left>>
    BY <1>1 DEF Reads
  <2>4. TreeTypes'
    BY <1>0, <2>2, <2>3 DEF TreeTypes, disk, history
  <2>5. Numbered'
    BY <1>0, <1>1, <2>2, <2>3 DEF Numbered, disk
  <2>6. ReadFits'
    <3>1. reading.on
      BY <1>0, <1>1 DEF ReadFits
    <3> QED  BY <1>0, <1>1, <2>2, <2>3, <3>1 DEF ReadFits
  <2> QED  BY <2>4, <2>5, <2>6 DEF ShapeInv
<1>2. ASSUME NEW f \in Folders, ReadsId(f)  PROVE ShapeInv'
  <2> PICK got : got = [reading.got EXCEPT !.id[f] = id[f]]
    OBVIOUS
  <2> PICK none : none = {}
    OBVIOUS
  <2>1. /\ got \in StateRecord /\ got.tags = reading.got.tags /\ got.file = reading.got.file
        /\ \A g \in Folders : got.id[g] = (IF g = f THEN id[f] ELSE reading.got.id[g])
    BY <1>0 DEF StateRecord
  <2>2. IdOf(f) \in reading.todo /\ Reads(IdOf(f), got, none)
    BY <1>2 DEF ReadsId
  <2>3. \A g \in Folders : got.id[g] <= stamp
    BY <1>0, <2>1 DEF Numbered
  <2>4. got.id[Root] = 1
    BY <1>0, <2>1, Places DEF Numbered
  <2>5. reading.area \in Tags => f = reading.area
    <3>1. reading.on
      BY <1>0, <2>2 DEF ReadFits
    <3>2. reading.area \in Tags => IdOf(f) \in {IdOf(reading.area), FileOf(reading.area)}
      BY <1>0, <2>2, <3>1 DEF ReadFits
    <3> QED  BY <3>2, Places, ItemsDiffer
  <2>6. reading.area \in Tags =>
          /\ none = {} /\ got.tags = reading.got.tags
          /\ \A g \in Folders \ {reading.area} : got.id[g] = reading.got.id[g] /\ got.file[g] = reading.got.file[g]
    BY <2>1, <2>5
  <2>7. none \subseteq Items
    OBVIOUS
  <2> QED  BY <1>1, <2>1, <2>2, <2>3, <2>4, <2>6, <2>7
<1>3. ASSUME NEW f \in Folders, ReadsFile(f)  PROVE ShapeInv'
  <2> PICK got : got = [reading.got EXCEPT !.file[f] = file[f]]
    OBVIOUS
  <2> PICK none : none = {}
    OBVIOUS
  <2>0. file \in [Folders -> Nat]
    BY <1>0 DEF TreeTypes
  <2>1. /\ got \in StateRecord /\ got.tags = reading.got.tags /\ got.id = reading.got.id
        /\ \A g \in Folders : got.file[g] = (IF g = f THEN file[f] ELSE reading.got.file[g])
    BY <1>0, <2>0 DEF StateRecord
  <2>2. FileOf(f) \in reading.todo /\ Reads(FileOf(f), got, none)
    BY <1>3 DEF ReadsFile
  <2>3. (\A g \in Folders : got.id[g] <= stamp) /\ got.id[Root] = 1
    BY <1>0, <2>1 DEF Numbered
  <2>5. reading.area \in Tags => f = reading.area
    <3>1. reading.on
      BY <1>0, <2>2 DEF ReadFits
    <3>2. reading.area \in Tags => FileOf(f) \in {IdOf(reading.area), FileOf(reading.area)}
      BY <1>0, <2>2, <3>1 DEF ReadFits
    <3> QED  BY <3>2, Places, ItemsDiffer
  <2>6. reading.area \in Tags =>
          /\ none = {} /\ got.tags = reading.got.tags
          /\ \A g \in Folders \ {reading.area} : got.id[g] = reading.got.id[g] /\ got.file[g] = reading.got.file[g]
    BY <2>1, <2>5
  <2>7. none \subseteq Items
    OBVIOUS
  <2> QED  BY <1>1, <2>1, <2>2, <2>3, <2>6, <2>7
<1>4. CASE ReadsNames
  <2> PICK found : found = {t \in Tags : id[t] # 0}
    OBVIOUS
  <2> PICK got : got = [reading.got EXCEPT !.tags = found]
    OBVIOUS
  <2> PICK more : more = {IdOf(t) : t \in found} \union {FileOf(t) : t \in found}
    OBVIOUS
  <2>1. got \in StateRecord /\ got.id = reading.got.id /\ got.file = reading.got.file
    BY <1>0 DEF StateRecord
  <2>2. Names \in reading.todo /\ Reads(Names, got, more)
    BY <1>4 DEF ReadsNames
  <2>3. more \subseteq Items
    BY ItemsDiffer, Places
  <2>4. reading.area \notin Tags
    <3>1. reading.on
      BY <1>0, <2>2 DEF ReadFits
    <3>2. reading.area \in Tags => Names \in {IdOf(reading.area), FileOf(reading.area)}
      BY <1>0, <2>2, <3>1 DEF ReadFits
    <3> QED  BY <3>2, Places, ItemsDiffer
  <2>5. (\A g \in Folders : got.id[g] <= stamp) /\ got.id[Root] = 1
    BY <1>0, <2>1 DEF Numbered
  <2> QED  BY <1>1, <2>1, <2>2, <2>3, <2>4, <2>5
<1>5. CASE ReadsListInstead
  <2>1. /\ reading' = [reading EXCEPT !.area = List, !.todo = ListItems, !.got = seen]
        /\ UNCHANGED <<disk, seen, held, timers, queue, fresh, closed, history, left>> /\ reading.on
    BY <1>5 DEF ReadsListInstead
  <2>2. ListItems \subseteq Items /\ List \in Folders /\ List \notin Tags
    BY ItemsDiffer, Places DEF ListItems
  <2>3. /\ reading' \in [area : Folders, todo : SUBSET Items, got : StateRecord, on : BOOLEAN]
        /\ reading'.on /\ reading'.area = List /\ reading'.got = seen
    BY <1>0, <2>1, <2>2 DEF TreeTypes
  <2>4. TreeTypes'
    BY <1>0, <2>1, <2>3 DEF TreeTypes, disk, history
  <2>5. Numbered'
    BY <1>0, <2>1, <2>3 DEF Numbered, disk
  <2>6. ReadFits'
    BY <2>2, <2>3 DEF ReadFits
  <2> QED  BY <2>4, <2>5, <2>6 DEF ShapeInv
<1> QED  BY <1>2, <1>3, <1>4, <1>5 DEF Read

(* What a read leaves when it ends. *)
LEMMA FoundIs ==
  ASSUME ShapeInv
  PROVE  /\ Found \in StateRecord /\ Found.id = reading.got.id /\ Found.file = reading.got.file
         /\ Found.tags = reading.got.tags \union ({reading.area} \intersect Tags)
         /\ Found.id[Root] = 1 /\ \A f \in Folders : Found.id[f] <= stamp
<1>1. reading.got \in StateRecord
  BY DEF ShapeInv, TreeTypes
<1>2. /\ Found \in StateRecord /\ Found.id = reading.got.id /\ Found.file = reading.got.file
      /\ Found.tags = reading.got.tags \union ({reading.area} \intersect Tags)
  <2>1. CASE reading.area \in Tags
    <3>1. Found = [reading.got EXCEPT !.tags = @ \union {reading.area}]
      BY <2>1 DEF Found
    <3> QED  BY <1>1, <2>1, <3>1 DEF StateRecord
  <2>2. CASE reading.area \notin Tags
    BY <1>1, <2>2 DEF Found
  <2> QED  BY <2>1, <2>2
<1> QED  BY <1>2 DEF ShapeInv, Numbered

LEMMA WatchedIn == \A s \in StateRecord : Wanted(s) \subseteq Watched(s) /\ Watched(s) \subseteq Folders
  BY Places DEF Wanted, Watched, StateRecord

(* The areas to read again cover the folders that are new. *)
LEMMA FreshCovers ==
  ASSUME ShapeInv, reading.on, ReadEnds
  PROVE  /\ fresh' \in Seq(Folders) /\ Range(fresh) \subseteq Range(fresh')
         /\ \A f \in NewTo(Found) : \E a \in Range(fresh') : f \in Covers(a)
<1>1. Found \in StateRecord /\ NewTo(Found) \in SUBSET Folders
  BY FoundIs, WatchedIn DEF NewTo
<1> PICK areas : areas = Coalesced(NewTo(Found))
  OBVIOUS
<1>2. areas \in SUBSET Folders /\ \A f \in NewTo(Found) : \E a \in areas : f \in Covers(a)
  <2>1. CASE Root \in NewTo(Found)
    BY <1>1, <2>1, Places, AreaIs DEF Coalesced
  <2>2. CASE Root \notin NewTo(Found) /\ List \in NewTo(Found)
    BY <1>1, <2>2, Places, AreaIs DEF Coalesced
  <2>3. CASE Root \notin NewTo(Found) /\ List \notin NewTo(Found)
    BY <1>1, <2>3, Places, AreaIs DEF Coalesced
  <2> QED  BY <2>1, <2>2, <2>3
<1>3. PICK s \in InOrder(areas) : fresh' = s \o fresh
  BY DEF ReadEnds
<1>4. s \in Seq(Folders) /\ Range(s) = areas
  BY <1>2, InOrderIs
<1>5. fresh \in Seq(Folders)
  BY DEF ShapeInv, TreeTypes
<1>6. s \o fresh \in Seq(Folders) /\ Range(s) \subseteq Range(s \o fresh) /\ Range(fresh) \subseteq Range(s \o fresh)
  BY <1>4, <1>5, ConcatHas
<1> QED  BY <1>2, <1>3, <1>4, <1>6

LEMMA EndsShape ==
  ASSUME ShapeInv, ReadEnds
  PROVE  ShapeInv'
<1>0. TreeTypes /\ Numbered /\ ReadFits /\ reading.on
  BY DEF ShapeInv, ReadEnds
<1>1. PICK failing \in SUBSET Takes(Found) :
        /\ held' = Followed(Found, failing)
        /\ excused' = excused \union failing \union {f \in Takes(Found) : held[f].id # 0}
  BY DEF ReadEnds
<1>2. /\ seen' = Found /\ reading' = NoRead /\ UNCHANGED <<disk, timers, queue, closed, rescan, still>>
  BY DEF ReadEnds
<1>3. Takes(Found) \subseteq Folders
  BY FoundIs, WatchedIn DEF Takes
<1>4. /\ held \in [Folders -> [id : Nat, on : Nat]] /\ id \in [Folders -> Nat] /\ Found.id \in [Folders -> Nat]
      /\ stamp \in Nat
  BY <1>0, FoundIs DEF TreeTypes, StateRecord
<1>5. \A f \in Folders : held'[f] = IF f \notin Wanted(Found) THEN NotHeld
                                    ELSE IF f \notin Takes(Found) THEN held[f]
                                    ELSE [id |-> Found.id[f], on |-> IF f \in failing THEN 0 ELSE id[f]]
  BY <1>1 DEF Followed
<1>6. held' \in [Folders -> [id : Nat, on : Nat]]
  BY <1>1, <1>4 DEF Followed, NotHeld
<1>7. NoState \in StateRecord /\ NoState.id[Root] = 1 /\ \A f \in Folders : NoState.id[f] \in {0, 1}
  BY Places DEF NoState, StateRecord
<1>8. TreeTypes'
  <2>1. NoRead \in [area : Folders, todo : SUBSET Items, got : StateRecord, on : BOOLEAN]
    BY <1>7, Places DEF NoRead
  <2>2. fresh' \in Seq(Folders)
    BY <1>0, FreshCovers
  <2>3. excused' \subseteq Folders
    BY <1>0, <1>1, <1>3 DEF TreeTypes
  <2> QED  BY <1>0, <1>2, <1>6, <2>1, <2>2, <2>3, FoundIs DEF TreeTypes, disk
<1>9. Numbered'
  <2>1. 1 <= stamp
    BY <1>0, <1>4, Places DEF Numbered
  <2>2. \A f \in Folders : held'[f].on <= stamp /\ held'[f].id <= stamp
    <3> TAKE f \in Folders
    <3>1. held[f].on <= stamp /\ held[f].id <= stamp /\ id[f] <= stamp /\ Found.id[f] <= stamp
      BY <1>0, FoundIs DEF Numbered
    <3>2. CASE f \notin Wanted(Found)
      <4>1. held'[f] = NotHeld
        BY <1>5, <3>2
      <4>2. held'[f].on = 0 /\ held'[f].id = 0
        BY <4>1 DEF NotHeld
      <4> QED  BY <1>4, <4>2
    <3>3. CASE f \in Wanted(Found) /\ f \notin Takes(Found)
      <4>1. held'[f] = held[f]
        BY <1>5, <3>3
      <4> QED  BY <3>1, <4>1
    <3>4. CASE f \in Wanted(Found) /\ f \in Takes(Found)
      <4>1. held'[f] = [id |-> Found.id[f], on |-> IF f \in failing THEN 0 ELSE id[f]]
        BY <1>5, <3>4
      <4>2. held'[f].id = Found.id[f] /\ held'[f].on \in {0, id[f]}
        BY <4>1
      <4> QED  BY <1>4, <3>1, <4>2
    <3> QED  BY <3>2, <3>3, <3>4
  <2>3. \A f \in Folders : NoState.id[f] <= stamp
    BY <1>4, <1>7, <2>1
  <2> QED  BY <1>0, <1>2, <1>7, <2>2, <2>3, FoundIs DEF Numbered, disk, NoRead
<1>10. ReadFits'
  BY <1>2 DEF ReadFits, NoRead
<1> QED  BY <1>8, <1>9, <1>10 DEF ShapeInv

LEMMA QueuedIs ==
  ASSUME TreeTypes, NEW a \in Folders, Queued(a)
  PROVE  queue' \in Seq(Folders) /\ Range(queue') = Range(queue) \union {a}
<1>1. CASE a \in Range(queue)
  BY <1>1 DEF TreeTypes, Queued, Joined
<1>2. CASE a \notin Range(queue)
  BY <1>2, AppendHas DEF TreeTypes, Queued, Joined
<1> QED  BY <1>1, <1>2

(* The other steps of the watch. *)
LEMMA OthersShape ==
  ASSUME ShapeInv, Rescans \/ RescanEnds \/ Closes \/ \E f \in Folders : TimerEnds(f) \/ WatchFails(f)
  PROVE  ShapeInv'
<1>0. TreeTypes /\ Numbered /\ ReadFits
  BY DEF ShapeInv
<1>1. ASSUME NEW a \in Folders, Queued(a), timers' \subseteq Folders, rescan' \in {"asked", "done"}, still' \subseteq Folders,
             UNCHANGED <<disk, seen, held, fresh, reading, closed, excused>>
      PROVE  ShapeInv'
  BY <1>0, <1>1, QueuedIs DEF ShapeInv, TreeTypes, Numbered, ReadFits, disk
<1>2. CASE Rescans
  <2>1. Queued(Root) /\ UNCHANGED <<disk, seen, held, timers, fresh, reading, closed, excused>>
    BY <1>2 DEF Rescans
  <2>2. rescan' = "asked" /\ still' = Folders
    BY <1>2 DEF Rescans
  <2> QED  BY <1>0, <1>1, <2>1, <2>2, Places DEF TreeTypes
<1>3. ASSUME NEW f \in Folders, TimerEnds(f)  PROVE ShapeInv'
  <2>1. /\ Queued(f) /\ timers' \subseteq timers /\ UNCHANGED <<disk, seen, held, fresh, reading, closed, history>>
    BY <1>3 DEF TimerEnds
  <2> QED  BY <1>0, <1>1, <2>1 DEF TreeTypes, history
<1>4. CASE RescanEnds
  BY <1>0, <1>4 DEF RescanEnds, ShapeInv, TreeTypes, Numbered, ReadFits, disk
<1>5. ASSUME NEW f \in Folders, WatchFails(f)  PROVE ShapeInv'
  <2>1. /\ held' = [held EXCEPT ![f].on = 0] /\ excused' = excused \union {f}
        /\ UNCHANGED <<disk, seen, timers, queue, fresh, reading, closed, rescan, still>>
    BY <1>5 DEF WatchFails
  <2>2. held \in [Folders -> [id : Nat, on : Nat]] /\ stamp \in Nat
    BY <1>0 DEF TreeTypes
  <2>3. /\ held' \in [Folders -> [id : Nat, on : Nat]]
        /\ \A g \in Folders : held'[g].id = held[g].id /\ held'[g].on = (IF g = f THEN 0 ELSE held[g].on)
    BY <2>1, <2>2
  <2>4. TreeTypes'
    BY <1>0, <2>1, <2>3 DEF TreeTypes, disk
  <2>5. Numbered'
    BY <1>0, <2>1, <2>2, <2>3 DEF Numbered, disk
  <2>6. ReadFits'
    BY <1>0, <2>1 DEF ReadFits
  <2> QED  BY <2>4, <2>5, <2>6 DEF ShapeInv
<1>6. CASE Closes
  <2>1. /\ timers' = {} /\ held' = [f \in Folders |-> NotHeld] /\ fresh' = <<>> /\ reading' = NoRead /\ closed' = TRUE
        /\ UNCHANGED <<disk, seen, queue, history>>
    BY <1>6 DEF Closes
  <2>2. NoRead \in [area : Folders, todo : SUBSET Items, got : StateRecord, on : BOOLEAN]
    BY Places DEF NoRead, NoState, StateRecord
  <2>3. held' \in [Folders -> [id : Nat, on : Nat]]
    BY <2>1 DEF NotHeld
  <2>4. fresh' \in Seq(Folders)
    BY <2>1, EmptySeq
  <2>5. TreeTypes'
    BY <1>0, <2>1, <2>2, <2>3, <2>4 DEF TreeTypes, disk, history
  <2>6. NoState.id[Root] = 1 /\ \A f \in Folders : NoState.id[f] \in {0, 1}
    BY Places DEF NoState
  <2>7. stamp \in Nat /\ 1 <= stamp
    BY <1>0, Places DEF TreeTypes, Numbered
  <2>8. Numbered'
    BY <1>0, <2>1, <2>6, <2>7 DEF Numbered, disk, NoRead, NotHeld
  <2>9. ReadFits'
    BY <2>1 DEF ReadFits, NoRead
  <2> QED  BY <2>5, <2>8, <2>9 DEF ShapeInv
<1> QED  BY <1>2, <1>3, <1>4, <1>5, <1>6

(* Every step keeps the shape. *)
LEMMA NextShape == ShapeInv /\ [Next]_vars => ShapeInv'
<1> SUFFICES ASSUME ShapeInv, [Next]_vars  PROVE ShapeInv'
  OBVIOUS
<1>1. CASE Hand
  BY <1>1, HandShape DEF Hand
<1>2. CASE UNCHANGED vars
  BY <1>2 DEF vars, disk, history, ShapeInv, TreeTypes, Numbered, ReadFits
<1> QED  BY <1>1, <1>2, ReadsShape, RunsShape, EndsShape, OthersShape DEF Next

-----------------------------------------------------------------------------
(* What the steps do to what a state holds. *)

(* What is in a folder stays. *)
Spares(h) ==
  /\ h = Root => file'[Root] = file[Root] /\ id'[List] = id[List]
  /\ h = List => \A t \in Tags : id'[t] = id[t]
  /\ h \in Tags => file'[h] = file[h]

(* A hand changes something in one folder; it spares all folders but that one *)
(* and those that come or go.                                                 *)
SparesOthers(g, gone) ==
  /\ ChangesIn(g, gone) /\ id'[g] = id[g]
  /\ \A h \in Folders \ ({g} \union gone) : id'[h] = id[h] /\ Spares(h)
  /\ \A h \in gone : id'[h] \in {0, stamp + 1}

LEMMA HandSpares ==
  ASSUME ShapeInv, NEW f \in Folders, Edits(f) \/ Makes(f) \/ Removes(f)
  PROVE  \E g \in Folders : \E gone \in SUBSET Folders : SparesOthers(g, gone)
<1>0. TreeTypes
  BY DEF ShapeInv
<1>1. CASE /\ ChangesIn(f, {}) /\ id' = id /\ \A g \in Folders \ {f} : file'[g] = file[g]
  <2>1. SparesOthers(f, {})
    BY <1>1, Places DEF SparesOthers, Spares
  <2> QED  BY <2>1
<1>2. CASE /\ ChangesIn(Parent(f), {f}) /\ f # Root /\ Parent(f) \in Folders /\ file' = file
           /\ id'[f] = stamp + 1 /\ \A g \in Folders \ {f} : id'[g] = id[g]
  <2>1. Parent(f) # f /\ (f = List => Parent(f) = Root) /\ (f # List => Parent(f) = List)
    BY <1>2, Places DEF Parent
  <2>2. SparesOthers(Parent(f), {f})
    BY <1>2, <2>1, Places DEF SparesOthers, Spares
  <2> QED  BY <1>2, <2>2
<1>3. CASE /\ ChangesIn(Parent(f), Covers(f)) /\ f # Root /\ Parent(f) \in Folders
           /\ \A g \in Folders : id'[g] = (IF g \in Covers(f) THEN 0 ELSE id[g])
           /\ \A g \in Folders : file'[g] = (IF g \in Covers(f) THEN 0 ELSE file[g])
  <2>1. Parent(f) \notin Covers(f) /\ (f = List => Parent(f) = Root) /\ (f # List => Parent(f) = List)
    BY <1>3, Places, AreaIs DEF Parent
  <2>2. f \in Tags \/ f = List
    BY <1>3, Places
  <2> PICK g : g = Parent(f)
    OBVIOUS
  <2> PICK gone : gone = Covers(f)
    OBVIOUS
  <2>3. ChangesIn(g, gone) /\ \A h \in Folders : id'[h] = (IF h \in gone THEN 0 ELSE id[h]) /\ file'[h] = (IF h \in gone THEN 0 ELSE file[h])
    BY <1>3
  <2>4. g \in Folders /\ g \notin gone /\ gone \in SUBSET Folders
    BY <1>3, <2>1, AreaIs
  <2>5. id'[g] = id[g]
    BY <2>3, <2>4
  <2>6. \A h \in gone : id'[h] \in {0, stamp + 1}
    BY <2>3, <2>4
  <2>7. \A h \in Folders \ ({g} \union gone) : id'[h] = id[h] /\ file'[h] = file[h]
    BY <2>3
  <2>8. ASSUME NEW h \in Folders \ ({g} \union gone)  PROVE Spares(h)
    <3>1. CASE f = List
      <4>1. Folders \ ({g} \union gone) = {}
        BY <2>1, <3>1, AreaIs, Places
      <4> QED  BY <2>8, <4>1
    <3>2. CASE f \in Tags
      <4>1. gone = {f} /\ g = List
        BY <2>1, <3>2, AreaIs, Places
      <4>2. id'[List] = id[List]
        BY <2>5, <4>1
      <4> QED  BY <2>7, <2>8, <4>1, <4>2 DEF Spares
    <3> QED  BY <2>2, <3>1, <3>2
  <2>9. SparesOthers(g, gone)
    BY <2>3, <2>5, <2>6, <2>7, <2>8 DEF SparesOthers
  <2> QED  BY <2>4, <2>9
<1> QED  BY <1>0, <1>1, <1>2, <1>3, HandIs

LEMMA SparedMatches ==
  ASSUME NEW h \in Folders, Spares(h), NEW s, NEW todo, MatchesIn(h, s, todo)
  PROVE  MatchesIn(h, s, todo)'
<1>1. RootIn(s, todo) /\ h = Root => RootIn(s, todo)'
  BY DEF Spares, RootIn
<1>2. ListIn(s, todo) /\ h = List => ListIn(s, todo)'
  BY DEF Spares, ListIn
<1>3. TagIn(h, s, todo) /\ h \in Tags => TagIn(h, s, todo)'
  BY DEF Spares, TagIn
<1> QED  BY <1>1, <1>2, <1>3 DEF MatchesIn

LEMMA SparedSoon ==
  ASSUME NEW h \in Folders, Spares(h), reading' = reading, seen' = seen, MatchesSoon(h)
  PROVE  MatchesSoon(h)'
<1> PICK s : s = Current
  OBVIOUS
<1> PICK todo : todo = reading.todo
  OBVIOUS
<1>1. Current' = s /\ reading'.todo = todo
  BY DEF Current
<1>2. MatchesIn(h, s, todo) /\ (h = List => OwnIn(reading))
  BY DEF MatchesSoon
<1>3. MatchesIn(h, s, todo)'
  BY <1>2, SparedMatches
<1>4. h = List => OwnIn(reading)'
  BY <1>2 DEF OwnIn, Spares
<1>5. MatchesIn(h, Current, reading.todo)'
  BY <1>1, <1>3 DEF MatchesIn, RootIn, ListIn, TagIn
<1> QED  BY <1>4, <1>5 DEF MatchesSoon

(* An answer of the disk is what stands. *)
LEMMA ReadsSoon ==
  ASSUME ShapeInv, Read, NEW h \in Folders, id[h] # 0, MatchesSoon(h)
  PROVE  MatchesSoon(h)'
<1>0. /\ TreeTypes /\ ReadFits /\ reading.got \in StateRecord /\ id \in [Folders -> Nat] /\ file \in [Folders -> Nat]
      /\ reading \in [area : Folders, todo : SUBSET Items, got : StateRecord, on : BOOLEAN]
  BY DEF ShapeInv, TreeTypes
<1>1. ASSUME NEW item, NEW got, NEW more, item \in reading.todo, Reads(item, got, more)
      PROVE  /\ reading.on /\ reading'.on /\ reading'.area = reading.area
             /\ reading'.got = got /\ reading'.todo = (reading.todo \ {item}) \union more
             /\ Current = reading.got /\ Current' = got /\ id' = id /\ file' = file
  <2>1. reading' = [reading EXCEPT !.todo = (@ \ {item}) \union more, !.got = got]
    BY <1>1 DEF Reads
  <2>2. reading.on
    BY <1>0, <1>1 DEF ReadFits
  <2> QED  BY <1>0, <1>1, <2>1, <2>2 DEF Current, Reads, disk
<1>2. ASSUME NEW f \in Folders, ReadsId(f)  PROVE MatchesSoon(h)'
  <2> PICK got : got = [reading.got EXCEPT !.id[f] = id[f]]
    OBVIOUS
  <2> PICK none : none = {}
    OBVIOUS
  <2>1. /\ got.tags = reading.got.tags /\ got.file = reading.got.file
        /\ \A g \in Folders : got.id[g] = (IF g = f THEN id[f] ELSE reading.got.id[g])
    BY <1>0 DEF StateRecord
  <2>2. IdOf(f) \in reading.todo /\ Reads(IdOf(f), got, none)
    BY <1>2 DEF ReadsId
  <2>3. /\ reading.on /\ reading'.on /\ reading'.area = reading.area
        /\ reading'.got = got /\ reading'.todo = reading.todo \ {IdOf(f)}
        /\ Current = reading.got /\ Current' = got /\ id' = id /\ file' = file
    BY <1>1, <2>2
  <2>4. h = Root => RootIn(Current, reading.todo)'
    BY <2>1, <2>3, ItemsDiffer, Places DEF MatchesSoon, MatchesIn, RootIn
  <2>5. h = List => ListIn(Current, reading.todo)'
    BY <2>1, <2>3, ItemsDiffer, Places DEF MatchesSoon, MatchesIn, ListIn
  <2>6. h \in Tags => TagIn(h, Current, reading.todo)'
    BY <2>1, <2>3, ItemsDiffer, Places DEF MatchesSoon, MatchesIn, TagIn
  <2>7. h = List => OwnIn(reading)'
    BY <2>1, <2>3, ItemsDiffer, Places DEF MatchesSoon, OwnIn
  <2> QED  BY <2>4, <2>5, <2>6, <2>7 DEF MatchesSoon, MatchesIn
<1>3. ASSUME NEW f \in Folders, ReadsFile(f)  PROVE MatchesSoon(h)'
  <2> PICK got : got = [reading.got EXCEPT !.file[f] = file[f]]
    OBVIOUS
  <2> PICK none : none = {}
    OBVIOUS
  <2>1. /\ got.tags = reading.got.tags /\ got.id = reading.got.id
        /\ \A g \in Folders : got.file[g] = (IF g = f THEN file[f] ELSE reading.got.file[g])
    BY <1>0 DEF StateRecord
  <2>2. FileOf(f) \in reading.todo /\ Reads(FileOf(f), got, none)
    BY <1>3 DEF ReadsFile
  <2>3. /\ reading.on /\ reading'.on /\ reading'.area = reading.area
        /\ reading'.got = got /\ reading'.todo = reading.todo \ {FileOf(f)}
        /\ Current = reading.got /\ Current' = got /\ id' = id /\ file' = file
    BY <1>1, <2>2
  <2>4. h = Root => RootIn(Current, reading.todo)'
    BY <2>1, <2>3, ItemsDiffer, Places DEF MatchesSoon, MatchesIn, RootIn
  <2>5. h = List => ListIn(Current, reading.todo)'
    BY <2>1, <2>3, ItemsDiffer, Places DEF MatchesSoon, MatchesIn, ListIn
  <2>6. h \in Tags => TagIn(h, Current, reading.todo)'
    BY <2>1, <2>3, ItemsDiffer, Places DEF MatchesSoon, MatchesIn, TagIn
  <2>7. h = List => OwnIn(reading)'
    BY <2>1, <2>3, ItemsDiffer, Places DEF MatchesSoon, OwnIn
  <2> QED  BY <2>4, <2>5, <2>6, <2>7 DEF MatchesSoon, MatchesIn
<1>4. CASE ReadsNames
  <2> PICK found : found = {t \in Tags : id[t] # 0}
    OBVIOUS
  <2> PICK got : got = [reading.got EXCEPT !.tags = found]
    OBVIOUS
  <2> PICK more : more = {IdOf(t) : t \in found} \union {FileOf(t) : t \in found}
    OBVIOUS
  <2>1. got.tags = found /\ got.id = reading.got.id /\ got.file = reading.got.file
    BY <1>0 DEF StateRecord
  <2>2. Names \in reading.todo /\ Reads(Names, got, more)
    BY <1>4 DEF ReadsNames
  <2>3. /\ reading.on /\ reading'.on /\ reading'.area = reading.area
        /\ reading'.got = got /\ reading'.todo = (reading.todo \ {Names}) \union more
        /\ Current = reading.got /\ Current' = got /\ id' = id /\ file' = file
    BY <1>1, <2>2
  <2>4. h = Root => RootIn(Current, reading.todo)'
    BY <2>1, <2>3, ItemsDiffer, Places DEF MatchesSoon, MatchesIn, RootIn
  <2>5. h = List => ListIn(Current, reading.todo)'
    BY <2>1, <2>3 DEF ListIn
  <2>6. h \in Tags => TagIn(h, Current, reading.todo)'
    <3>1. h \in Tags => FileOf(h) \in more
      OBVIOUS
    <3> QED  BY <2>3, <3>1 DEF TagIn
  <2>7. h = List => OwnIn(reading)'
    BY <2>1, <2>3, ItemsDiffer, Places DEF MatchesSoon, OwnIn
  <2> QED  BY <2>4, <2>5, <2>6, <2>7 DEF MatchesSoon, MatchesIn
<1>5. CASE ReadsListInstead
  <2>1. /\ reading' = [reading EXCEPT !.area = List, !.todo = ListItems, !.got = seen]
        /\ UNCHANGED <<disk, seen, held, timers, queue, fresh, closed, history, left>>
        /\ reading.on /\ reading.todo = {} /\ reading.area \in Tags
    BY <1>5 DEF ReadsListInstead, FoundGone
  <2>2. Names \in ListItems /\ IdOf(List) \in ListItems
    BY DEF ListItems
  <2>3. /\ reading'.on /\ reading'.area = List /\ reading'.got = seen /\ reading'.todo = ListItems
        /\ Current = reading.got /\ Current' = seen
    BY <1>0, <2>1 DEF Current
  <2>4. h = Root => RootIn(Current, reading.todo)'
    <3>1. h = Root => reading.got.file[Root] = file[Root]
      BY <2>1, <2>3 DEF MatchesSoon, MatchesIn, RootIn
    <3>2. reading.got.file[Root] = seen.file[Root]
      BY <1>0, <2>1, Places DEF ReadFits
    <3> QED  BY <2>1, <2>2, <2>3, <3>1, <3>2 DEF RootIn, disk
  <2>5. ListIn(Current, reading.todo)' /\ TagIn(h, Current, reading.todo)' /\ OwnIn(reading)'
    BY <2>2, <2>3, Places DEF ListIn, TagIn, OwnIn
  <2> QED  BY <2>4, <2>5 DEF MatchesSoon, MatchesIn
<1> QED  BY <1>2, <1>3, <1>4, <1>5 DEF Read

(* A read that begins will find all that it covers, and keeps what was right. *)
LEMMA BeginsSoon ==
  ASSUME NEW a \in Folders, Begins(a), NEW h \in Folders, MatchesIn(h, seen, {}) \/ h \in Covers(a)
  PROVE  MatchesSoon(h)'
<1>1. reading' = [area |-> a, todo |-> ItemsOf(a), got |-> seen, on |-> TRUE] /\ UNCHANGED <<id, file, seen>>
  BY DEF Begins, disk
<1>2. reading'.on /\ reading'.area = a /\ reading'.todo = ItemsOf(a) /\ Current' = seen
  BY <1>1 DEF Current
<1>3. a \in Tags => IdOf(a) \in ItemsOf(a)
  BY AreaIs
<1>4. OwnIn(reading)'
  BY <1>2, <1>3 DEF OwnIn
<1>5. CASE MatchesIn(h, seen, {})
  <2>1. h = Root => RootIn(Current, reading.todo)'
    BY <1>1, <1>2, <1>5 DEF MatchesIn, RootIn
  <2>2. h = List => ListIn(Current, reading.todo)'
    BY <1>1, <1>2, <1>5 DEF MatchesIn, ListIn
  <2>3. h \in Tags => TagIn(h, Current, reading.todo)'
    BY <1>1, <1>2, <1>5 DEF MatchesIn, TagIn
  <2> QED  BY <1>4, <2>1, <2>2, <2>3 DEF MatchesSoon, MatchesIn
<1>6. CASE h \in Covers(a)
  <2>1. h = Root => FileOf(Root) \in ItemsOf(a) /\ IdOf(List) \in ItemsOf(a)
    BY <1>6, AreaIs, Places
  <2>2. h = List => Names \in ItemsOf(a)
    BY <1>6, AreaIs, Places
  <2>3. h \in Tags => Names \in ItemsOf(a) \/ FileOf(h) \in ItemsOf(a)
    BY <1>6, AreaIs, Places
  <2>4. h = Root => RootIn(Current, reading.todo)'
    BY <1>2, <2>1 DEF RootIn
  <2>5. h = List => ListIn(Current, reading.todo)'
    BY <1>2, <2>2 DEF ListIn
  <2>6. h \in Tags => TagIn(h, Current, reading.todo)'
    BY <1>2, <2>3 DEF TagIn
  <2> QED  BY <1>4, <2>4, <2>5, <2>6 DEF MatchesSoon, MatchesIn
<1> QED  BY <1>5, <1>6

(* A read that ends leaves what it was to find. *)
LEMMA EndsSoon ==
  ASSUME ShapeInv, ReadEnds, NEW h \in Folders, MatchesSoon(h)
  PROVE  MatchesIn(h, seen, {})' /\ MatchesSoon(h)'
<1> PICK s : s = Found
  OBVIOUS
<1>1. /\ reading.on /\ reading.todo = {} /\ ~FoundGone /\ seen' = s /\ reading' = NoRead
      /\ UNCHANGED <<id, file>>
  BY DEF ReadEnds, disk
<1>2. /\ s.id = reading.got.id /\ s.file = reading.got.file
      /\ s.tags = reading.got.tags \union ({reading.area} \intersect Tags)
  BY FoundIs
<1>3. Current = reading.got
  BY <1>1 DEF Current
<1>4. h = Root => RootIn(s, {})
  BY <1>1, <1>2, <1>3 DEF MatchesSoon, MatchesIn, RootIn
<1>5. h = List => ListIn(s, {})
  <2> SUFFICES ASSUME h = List  PROVE ListIn(s, {})
    OBVIOUS
  <2>1. reading.got.tags = {t \in Tags : id[t] # 0} /\ \A t \in reading.got.tags : reading.got.id[t] = id[t]
    BY <1>1, <1>3 DEF MatchesSoon, MatchesIn, ListIn
  <2>2. reading.area \in Tags => reading.got.id[reading.area] = id[reading.area] /\ reading.got.id[reading.area] # 0
    BY <1>1 DEF MatchesSoon, OwnIn, FoundGone
  <2>3. s.tags = reading.got.tags
    BY <1>2, <2>1, <2>2
  <2> QED  BY <1>2, <2>1, <2>3 DEF ListIn
<1>6. h \in Tags => TagIn(h, s, {})
  BY <1>1, <1>2, <1>3 DEF MatchesSoon, MatchesIn, TagIn
<1>7. MatchesIn(h, s, {})'
  BY <1>1, <1>4, <1>5, <1>6 DEF MatchesIn, RootIn, ListIn, TagIn
<1>8. MatchesIn(h, seen, {})'
  BY <1>1, <1>7 DEF MatchesIn, RootIn, ListIn, TagIn
<1>9. reading'.todo = {} /\ ~reading'.on /\ Current' = seen'
  BY <1>1 DEF NoRead, Current
<1>10. MatchesIn(h, Current, reading.todo)'
  BY <1>1, <1>7, <1>9 DEF MatchesIn, RootIn, ListIn, TagIn
<1>11. OwnIn(reading)'
  BY <1>9 DEF OwnIn
<1> QED  BY <1>8, <1>10, <1>11 DEF MatchesSoon

(* Without a read in flight the state is what counts. *)
LEMMA RestSoon ==
  ASSUME ReadFits, ~reading.on, NEW h \in Folders
  PROVE  MatchesSoon(h) <=> MatchesIn(h, seen, {})
<1>1. reading.todo = {} /\ Current = seen
  BY DEF ReadFits, Current
<1>2. OwnIn(reading)
  BY DEF OwnIn
<1> QED  BY <1>1, <1>2 DEF MatchesSoon

LEMMA SameSoon ==
  ASSUME UNCHANGED <<id, file, seen, reading>>, NEW h \in Folders, MatchesSoon(h)
  PROVE  MatchesSoon(h)'
<1>1. Spares(h)
  BY DEF Spares
<1> QED  BY <1>1, SparedSoon

LEMMA SameMatches ==
  ASSUME UNCHANGED <<id, file, seen>>, NEW h \in Folders, MatchesIn(h, seen, {})
  PROVE  MatchesIn(h, seen, {})'
  BY DEF MatchesIn, RootIn, ListIn, TagIn

-----------------------------------------------------------------------------
(* The watches. *)

LEMMA HandFit ==
  ASSUME ShapeInv, WatchesFit, NEW g \in Folders, NEW gone \in SUBSET Folders, SparesOthers(g, gone)
  PROVE  WatchesFit'
<1>0. TreeTypes /\ Numbered
  BY DEF ShapeInv
<1>1. /\ seen' = seen /\ held' = held /\ excused \subseteq excused' /\ id'[g] = id[g]
      /\ \A h \in Folders \ gone : id'[h] = id[h]
      /\ \A h \in gone : id'[h] \in {0, stamp + 1}
  BY <1>0, HandLeaves DEF SparesOthers
<1>2. Wanted(seen)' = Wanted(seen)
  BY <1>1 DEF Wanted, Watched
<1>3. \A f \in Folders : held'[f].id # 0 => f \in Wanted(seen)' /\ held'[f].id = seen'.id[f]
  BY <1>1, <1>2 DEF WatchesFit
<1>4. ASSUME NEW f \in Folders, held'[f].id # 0, held'[f].id = id'[f]
      PROVE  held'[f].on = id'[f] \/ (held'[f].on = 0 /\ f \in excused')
  <2>1. held[f].id <= stamp /\ held[f].id \in Nat /\ stamp \in Nat
    BY <1>0 DEF TreeTypes, Numbered
  <2>2. f \notin gone
    BY <1>1, <1>4, <2>1
  <2> QED  BY <1>1, <1>4, <2>2 DEF WatchesFit
<1> QED  BY <1>3, <1>4 DEF WatchesFit

(* The watch of each folder at the end of a read. *)
LEMMA EndsHeld ==
  ASSUME ShapeInv, ReadEnds
  PROVE  /\ seen' = Found /\ UNCHANGED disk /\ excused \subseteq excused'
         /\ \A f \in Folders :
              \/ f \notin Wanted(Found) /\ held'[f].id = 0
              \/ f \in Wanted(Found) /\ f \notin Takes(Found) /\ held'[f] = held[f]
              \/ /\ f \in Takes(Found) /\ f \in Wanted(Found) /\ held'[f].id = Found.id[f]
                 /\ held'[f].on = id[f] \/ (held'[f].on = 0 /\ f \in excused')
                 /\ held[f].id # 0 => f \in excused'
<1>1. PICK failing \in SUBSET Takes(Found) :
        /\ held' = Followed(Found, failing)
        /\ excused' = excused \union failing \union {f \in Takes(Found) : held[f].id # 0}
  BY DEF ReadEnds
<1>2. ASSUME NEW f \in Folders
      PROVE  \/ f \notin Wanted(Found) /\ held'[f].id = 0
             \/ f \in Wanted(Found) /\ f \notin Takes(Found) /\ held'[f] = held[f]
             \/ /\ f \in Takes(Found) /\ f \in Wanted(Found) /\ held'[f].id = Found.id[f]
                /\ held'[f].on = id[f] \/ (held'[f].on = 0 /\ f \in excused')
                /\ held[f].id # 0 => f \in excused'
  <2>1. held'[f] = IF f \notin Wanted(Found) THEN NotHeld
                   ELSE IF f \notin Takes(Found) THEN held[f]
                   ELSE [id |-> Found.id[f], on |-> IF f \in failing THEN 0 ELSE id[f]]
    BY <1>1, <1>2 DEF Followed
  <2>2. CASE f \notin Wanted(Found)
    <3>1. held'[f] = NotHeld
      BY <2>1, <2>2
    <3> QED  BY <2>2, <3>1 DEF NotHeld
  <2>3. CASE f \in Wanted(Found) /\ f \notin Takes(Found)
    BY <2>1, <2>3
  <2>4. CASE f \in Wanted(Found) /\ f \in Takes(Found)
    <3>1. held'[f] = [id |-> Found.id[f], on |-> IF f \in failing THEN 0 ELSE id[f]]
      BY <2>1, <2>4
    <3>2. held'[f].id = Found.id[f] /\ held'[f].on = IF f \in failing THEN 0 ELSE id[f]
      BY <3>1
    <3> QED  BY <1>1, <2>4, <3>2
  <2> QED  BY <2>2, <2>3, <2>4
<1> QED  BY <1>1, <1>2 DEF ReadEnds

LEMMA EndsFit ==
  ASSUME ShapeInv, WatchesFit, ReadEnds
  PROVE  WatchesFit'
<1>1. seen' = Found /\ id' = id /\ excused \subseteq excused'
  BY EndsHeld DEF disk
<1>2. Wanted(seen)' = Wanted(Found)
  BY <1>1 DEF Wanted, Watched
<1>3. ASSUME NEW f \in Folders, held'[f].id # 0
      PROVE  /\ f \in Wanted(seen)' /\ held'[f].id = seen'.id[f]
             /\ held'[f].id = id'[f] => held'[f].on = id'[f] \/ (held'[f].on = 0 /\ f \in excused')
  <2>1. CASE f \in Wanted(Found) /\ f \notin Takes(Found) /\ held'[f] = held[f]
    <3>1. held[f].id = Found.id[f] /\ held[f].on # 0
      BY <2>1 DEF Takes
    <3> QED  BY <1>1, <1>2, <1>3, <2>1, <3>1 DEF WatchesFit
  <2>2. CASE /\ f \in Wanted(Found) /\ held'[f].id = Found.id[f]
             /\ held'[f].on = id[f] \/ (held'[f].on = 0 /\ f \in excused')
    BY <1>1, <1>2, <1>3, <2>2
  <2> QED  BY <1>3, <2>1, <2>2, EndsHeld
<1> QED  BY <1>3 DEF WatchesFit

LEMMA BeginsFit ==
  ASSUME WatchesFit, NEW a, Begins(a)
  PROVE  WatchesFit'
<1>1. UNCHANGED <<id, seen, held>> /\ excused' = excused \ {f \in Covers(a) : Hears(f)}
  BY DEF Begins, disk
<1>2. Wanted(seen)' = Wanted(seen)
  BY <1>1 DEF Wanted, Watched
<1>3. \A f \in Folders : held[f].on = 0 /\ f \in excused => f \in excused'
  BY <1>1 DEF Hears
<1> QED  BY <1>1, <1>2, <1>3 DEF WatchesFit

LEMMA SameFit ==
  ASSUME WatchesFit, UNCHANGED <<id, seen, held>>, excused \subseteq excused'
  PROVE  WatchesFit'
<1>1. Wanted(seen)' = Wanted(seen)
  BY DEF Wanted, Watched
<1> QED  BY <1>1 DEF WatchesFit

LEMMA FailsFit ==
  ASSUME TreeTypes, WatchesFit, NEW f \in Folders, WatchFails(f)
  PROVE  /\ WatchesFit' /\ \A g \in Folders : held'[g].id = held[g].id /\ (g # f => held'[g] = held[g])
         /\ held'[f].on = 0
<1>1. held' = [held EXCEPT ![f].on = 0] /\ UNCHANGED <<id, seen>> /\ excused' = excused \union {f}
  BY DEF WatchFails, disk
<1>2. held \in [Folders -> [id : Nat, on : Nat]]
  BY DEF TreeTypes
<1>3. /\ \A g \in Folders : held'[g].id = held[g].id /\ (g # f => held'[g] = held[g])
      /\ held'[f].on = 0
  BY <1>1, <1>2
<1>4. Wanted(seen)' = Wanted(seen)
  BY <1>1 DEF Wanted, Watched
<1>5. \A g \in Folders : held'[g].id # 0 => g \in Wanted(seen)' /\ held'[g].id = seen'.id[g]
  BY <1>1, <1>3, <1>4 DEF WatchesFit
<1>6. ASSUME NEW g \in Folders, held'[g].id # 0, held'[g].id = id'[g]
      PROVE  held'[g].on = id'[g] \/ (held'[g].on = 0 /\ g \in excused')
  BY <1>1, <1>3, <1>6 DEF WatchesFit
<1> QED  BY <1>3, <1>5, <1>6 DEF WatchesFit

(* The watches are none once it is closed. *)
LEMMA ClosesLeaves ==
  ASSUME Closes
  PROVE  closed' /\ WatchesFit'
<1>1. closed' = TRUE /\ held' = [f \in Folders |-> NotHeld]
  BY DEF Closes
<1>2. \A f \in Folders : held'[f].id = 0
  BY <1>1 DEF NotHeld
<1> QED  BY <1>1, <1>2 DEF WatchesFit

LEMMA NextFit ==
  ASSUME ShapeInv, WatchesFit, [Next]_vars
  PROVE  WatchesFit'
<1>0. TreeTypes
  BY DEF ShapeInv
<1>1. CASE Hand
  BY <1>1, HandSpares, HandFit DEF Hand
<1>2. CASE Read
  <2>1. UNCHANGED <<id, seen, held, excused>>
    BY <1>2 DEF Read, ReadsNames, ReadsListInstead, ReadsId, ReadsFile, Reads, disk, history
  <2> QED  BY <2>1, SameFit
<1>3. CASE RunNext /\ closed
  BY <1>3, SameFit DEF RunNext, disk, history
<1>4. CASE RunNext /\ ~closed
  BY <1>4, BeginsFit DEF RunNext
<1>5. CASE RunFresh
  BY <1>5, BeginsFit DEF RunFresh
<1>6. CASE Rescans \/ RescanEnds \/ UNCHANGED vars
  BY <1>6, SameFit DEF Rescans, RescanEnds, vars, disk, history
<1>7. ASSUME NEW f \in Folders, TimerEnds(f)  PROVE WatchesFit'
  BY <1>7, SameFit DEF TimerEnds, disk, history
<1> QED  BY <1>0, <1>1, <1>2, <1>3, <1>4, <1>5, <1>6, <1>7, EndsFit, FailsFit, ClosesLeaves DEF Next

-----------------------------------------------------------------------------
(* The first read, and the watches it takes. *)

LEMMA NextWatched ==
  ASSUME ShapeInv, AllWatched, [Next]_vars
  PROVE  AllWatched'
<1>0. /\ TreeTypes /\ ReadFits /\ queue \in Seq(Folders)
      /\ reading \in [area : Folders, todo : SUBSET Items, got : StateRecord, on : BOOLEAN]
  BY DEF ShapeInv, TreeTypes
<1>1. ASSUME seen' = seen, \A f \in Folders : held'[f].id = held[f].id, closed' = closed, FirstRead => FirstRead'
      PROVE  AllWatched'
  <2>1. Wanted(seen)' = Wanted(seen)
    BY <1>1 DEF Wanted, Watched
  <2>2. seen \in StateRecord
    BY <1>0 DEF TreeTypes
  <2>3. Wanted(seen) \subseteq Folders
    BY <2>2, WatchedIn
  <2> QED  BY <1>1, <2>1, <2>3 DEF AllWatched
<1>2. CASE Hand
  <2>1. UNCHANGED <<seen, held, queue, reading, closed>>
    BY <1>2 DEF Hand, Edits, Makes, Removes, ChangesIn
  <2> QED  BY <1>1, <2>1 DEF FirstRead
<1>3. CASE Read
  <2>1. UNCHANGED <<seen, held, queue, closed>>
    BY <1>3 DEF Read, ReadsNames, ReadsListInstead, ReadsId, ReadsFile, Reads, disk, history
  <2>2. reading.on /\ reading.area = Root => reading'.on /\ reading'.area = Root
    <3>1. ASSUME NEW item, NEW got, NEW more, Reads(item, got, more)
          PROVE  reading'.on = reading.on /\ reading'.area = reading.area
      BY <1>0, <3>1 DEF Reads
    <3>2. CASE ReadsListInstead
      BY <3>2, Places DEF ReadsListInstead, FoundGone
    <3>3. CASE ReadsNames
      BY <3>1, <3>3 DEF ReadsNames
    <3>4. ASSUME NEW f \in Folders, ReadsId(f) \/ ReadsFile(f)
          PROVE  reading'.on = reading.on /\ reading'.area = reading.area
      BY <3>1, <3>4 DEF ReadsId, ReadsFile
    <3> QED  BY <1>3, <3>2, <3>3, <3>4 DEF Read
  <2> QED  BY <1>1, <2>1, <2>2 DEF FirstRead
<1>4. CASE RunNext /\ closed
  BY <1>4 DEF RunNext, AllWatched
<1>5. CASE RunNext /\ ~closed
  <2>1. /\ ~reading.on /\ queue # <<>> /\ queue' = Tail(queue) /\ Begins(Head(queue))
    BY <1>5 DEF RunNext
  <2>2. UNCHANGED <<seen, held, closed>> /\ reading'.on /\ reading'.area = Head(queue)
    BY <2>1 DEF Begins
  <2>3. Range(queue) = {Head(queue)} \union Range(queue')
    BY <1>0, <2>1, HeadAndTail
  <2> QED  BY <1>1, <2>1, <2>2, <2>3 DEF FirstRead
<1>6. CASE RunFresh
  <2>1. ~reading.on /\ queue' = queue /\ UNCHANGED <<seen, held, closed>>
    BY <1>6 DEF RunFresh, Begins
  <2> QED  BY <1>1, <2>1 DEF FirstRead
<1>7. CASE ReadEnds
  <2>1. seen' = Found /\ Found \in StateRecord
    BY <1>7, EndsHeld, FoundIs
  <2>2. Wanted(seen)' = Wanted(Found)
    BY <2>1 DEF Wanted, Watched
  <2>3. ASSUME NEW f \in Wanted(Found)  PROVE held'[f].id # 0
    <3>1. f \in Folders /\ Found.id[f] # 0
      BY <2>1, WatchedIn DEF Wanted, Watched
    <3>2. CASE f \notin Takes(Found) /\ held'[f] = held[f]
      BY <2>3, <3>1, <3>2 DEF Takes
    <3> QED  BY <1>7, <2>3, <3>1, <3>2, EndsHeld
  <2> QED  BY <2>2, <2>3 DEF AllWatched
<1>8. CASE Closes
  BY <1>8, ClosesLeaves DEF AllWatched
<1>9. CASE Rescans
  <2>1. Queued(Root) /\ UNCHANGED <<seen, held, reading, closed>>
    BY <1>9 DEF Rescans
  <2>2. Range(queue) \subseteq Range(queue')
    BY <1>0, <2>1, QueuedIs, Places
  <2> QED  BY <1>1, <2>1, <2>2 DEF FirstRead
<1>10. ASSUME NEW f \in Folders, TimerEnds(f)  PROVE AllWatched'
  <2>1. Queued(f) /\ UNCHANGED <<seen, held, reading, closed>>
    BY <1>10 DEF TimerEnds
  <2>2. Range(queue) \subseteq Range(queue')
    BY <1>0, <1>10, <2>1, QueuedIs
  <2> QED  BY <1>1, <2>1, <2>2 DEF FirstRead
<1>12. CASE RescanEnds \/ UNCHANGED vars
  <2>1. UNCHANGED <<seen, held, queue, reading, closed>>
    BY <1>12 DEF RescanEnds, vars
  <2> QED  BY <1>1, <2>1 DEF FirstRead
<1>13. ASSUME NEW f \in Folders, WatchFails(f)  PROVE AllWatched'
  <2>1. held' = [held EXCEPT ![f].on = 0] /\ held \in [Folders -> [id : Nat, on : Nat]]
    BY <1>0, <1>13 DEF WatchFails, TreeTypes
  <2>2. \A g \in Folders : held'[g].id = held[g].id
    BY <2>1
  <2>3. UNCHANGED <<seen, queue, reading, closed>>
    BY <1>13 DEF WatchFails
  <2> QED  BY <1>1, <2>2, <2>3 DEF FirstRead
<1> QED  BY <1>2, <1>3, <1>4, <1>5, <1>6, <1>7, <1>8, <1>9, <1>10, <1>12, <1>13 DEF Next

-----------------------------------------------------------------------------
(* What the watches are told. *)

(* What exempts a folder, or has it read again, stays when this grows. *)
LEMMA ToldStays ==
  ASSUME NEW h \in Folders, Told(h), seen' = seen, id'[h] = id[h], held'[h].on \in {0, held[h].on},
         timers \union Range(queue) \union Range(fresh) \subseteq (timers \union Range(queue) \union Range(fresh))',
         excused \subseteq excused', MatchesSoon(h) => MatchesSoon(h)'
  PROVE  Told(h)'
<1>1. Wanted(seen)' = Wanted(seen)
  BY DEF Wanted, Watched
<1>2. Excused(h) => Excused(h)'
  BY DEF Excused
<1>3. Awaits(h) => Awaits(h)'
  BY DEF Awaits
<1>4. ~Hears(h) => ~Hears(h)'
  BY DEF Hears
<1> QED  BY <1>1, <1>2, <1>3, <1>4 DEF Told

LEMMA HandTold ==
  ASSUME ShapeInv, AllTold, NEW g \in Folders, NEW gone \in SUBSET Folders, SparesOthers(g, gone)
  PROVE  AllTold'
<1>0. TreeTypes /\ Numbered
  BY DEF ShapeInv
<1>1. ChangesIn(g, gone) /\ id'[g] = id[g]
  BY DEF SparesOthers
<1>2. /\ UNCHANGED <<seen, held, queue, fresh, reading, closed, rescan>>
      /\ timers \subseteq timers' /\ excused \subseteq excused'
      /\ closed \/ ~Hears(g) \/ g \in timers' \/ g \in excused'
  BY <1>0, <1>1, HandLeaves
<1> SUFFICES ASSUME ~closed', NEW h \in Folders, id'[h] # 0  PROVE Told(h)'
  BY DEF AllTold
<1>3. CASE h = g
  <2>1. CASE ~Hears(g)
    <3>1. ~Hears(g)'
      BY <1>1, <1>2, <2>1 DEF Hears
    <3> QED  BY <1>3, <3>1 DEF Told
  <2>2. CASE g \in timers'
    <3>1. g \in Covers(g)
      BY AreaIs
    <3>2. Awaits(g)'
      BY <2>2, <3>1 DEF Awaits
    <3> QED  BY <1>3, <3>2 DEF Told
  <2>3. CASE g \in excused'
    BY <1>3, <2>3 DEF Told, Excused
  <2> QED  BY <1>2, <2>1, <2>2, <2>3
<1>4. CASE h \in gone
  <2>1. id'[h] = stamp + 1
    BY <1>4 DEF SparesOthers
  <2>2. held[h].on <= stamp /\ held[h].on \in Nat /\ stamp \in Nat
    BY <1>0 DEF TreeTypes, Numbered
  <2>3. ~Hears(h)'
    BY <1>2, <2>1, <2>2 DEF Hears
  <2> QED  BY <2>3 DEF Told
<1>5. CASE h # g /\ h \notin gone
  <2>1. id'[h] = id[h] /\ Spares(h)
    BY <1>5 DEF SparesOthers
  <2>2. MatchesSoon(h) => MatchesSoon(h)'
    BY <1>2, <2>1, SparedSoon
  <2>3. Told(h)
    BY <1>2, <2>1 DEF AllTold
  <2> QED  BY <1>2, <2>1, <2>2, <2>3, ToldStays
<1> QED  BY <1>3, <1>4, <1>5

LEMMA BeginsTold ==
  ASSUME ShapeInv, AllTold, ~closed, ~reading.on, NEW a \in Folders, Begins(a),
         timers \union Range(queue) \union Range(fresh) \subseteq (timers \union Range(queue) \union Range(fresh))' \union {a}
  PROVE  AllTold'
<1>0. ReadFits
  BY DEF ShapeInv
<1>1. UNCHANGED <<id, file, seen, held>> /\ excused' = excused \ {f \in Covers(a) : Hears(f)}
  BY DEF Begins, disk
<1>2. Wanted(seen)' = Wanted(seen)
  BY <1>1 DEF Wanted, Watched
<1> SUFFICES ASSUME NEW h \in Folders, id'[h] # 0  PROVE Told(h)'
  BY DEF AllTold
<1>3. Told(h)
  BY <1>1 DEF AllTold
<1>4. CASE h \in Covers(a)
  BY <1>4, BeginsSoon DEF Told
<1>5. CASE h \notin Covers(a)
  <2>1. a # Root /\ (List \in Covers(a) => h = Root) /\ Root \notin Covers(a)
    BY <1>5, AreaIs, Places
  <2>2. Excused(h) => Excused(h)'
    BY <1>1, <1>5, <2>1 DEF Excused
  <2>3. Awaits(h) => Awaits(h)'
    BY <1>5 DEF Awaits
  <2>4. MatchesSoon(h) => MatchesSoon(h)'
    BY <1>0, RestSoon, BeginsSoon
  <2>5. ~Hears(h) => ~Hears(h)'
    BY <1>1 DEF Hears
  <2> QED  BY <1>2, <1>3, <2>2, <2>3, <2>4, <2>5 DEF Told
<1> QED  BY <1>4, <1>5

LEMMA EndsTold ==
  ASSUME ShapeInv, WatchesFit, AllTold, ReadEnds
  PROVE  AllTold'
<1>1. /\ seen' = Found /\ UNCHANGED <<id, file, timers, queue>> /\ excused \subseteq excused'
      /\ reading.on /\ ~closed
  BY EndsHeld DEF ReadEnds, disk
<1>2. Wanted(seen)' = Wanted(Found)
  BY <1>1 DEF Wanted, Watched
<1> SUFFICES ASSUME NEW h \in Folders, id'[h] # 0, h \in Wanted(Found), ~Excused(h)', ~Awaits(h)', Hears(h)'
             PROVE  MatchesSoon(h)'
  BY <1>2 DEF AllTold, Told
<1>3. Range(fresh) \subseteq Range(fresh') /\ \A f \in NewTo(Found) : \E a \in Range(fresh') : f \in Covers(a)
  BY <1>1, FreshCovers
<1>4. ~Excused(h) /\ ~Awaits(h)
  BY <1>1, <1>3 DEF Excused, Awaits
<1>5. h \notin NewTo(Found)
  BY <1>3 DEF Awaits
<1>6. held[h].id # 0
  BY <1>5 DEF NewTo
<1>7. h \in Wanted(seen)
  BY <1>6 DEF WatchesFit
<1>8. h \notin excused'
  BY DEF Excused
<1>9. held'[h] = held[h]
  BY <1>6, <1>8, EndsHeld
<1>10. Hears(h)
  BY <1>1, <1>9 DEF Hears
<1>11. MatchesSoon(h)
  BY <1>1, <1>4, <1>7, <1>10 DEF AllTold, Told
<1> QED  BY <1>11, EndsSoon

LEMMA NextTold ==
  ASSUME ShapeInv, WatchesFit, AllTold, [Next]_vars
  PROVE  AllTold'
<1>0. /\ TreeTypes /\ queue \in Seq(Folders) /\ fresh \in Seq(Folders)
  BY DEF ShapeInv, TreeTypes
<1>1. ASSUME UNCHANGED <<id, seen, closed>>,
             timers \union Range(queue) \union Range(fresh) \subseteq (timers \union Range(queue) \union Range(fresh))',
             excused \subseteq excused', \A h \in Folders : held'[h].on \in {0, held[h].on},
             \A h \in Folders : id[h] # 0 /\ MatchesSoon(h) => MatchesSoon(h)'
      PROVE  AllTold'
  <2> SUFFICES ASSUME ~closed, NEW h \in Folders, id[h] # 0  PROVE Told(h)'
    BY <1>1 DEF AllTold
  <2>1. Told(h)
    BY DEF AllTold
  <2> QED  BY <1>1, <2>1, ToldStays
<1>2. CASE Hand
  BY <1>2, HandSpares, HandTold DEF Hand
<1>3. CASE Read
  <2>1. UNCHANGED <<id, seen, held, timers, queue, fresh, excused, closed>>
    BY <1>3 DEF Read, ReadsNames, ReadsListInstead, ReadsId, ReadsFile, Reads, disk, history
  <2> QED  BY <1>1, <1>3, <2>1, ReadsSoon
<1>4. CASE RunNext /\ closed
  BY <1>4 DEF RunNext, AllTold
<1>5. CASE RunNext /\ ~closed
  <2>1. ~reading.on /\ queue # <<>> /\ queue' = Tail(queue) /\ Begins(Head(queue)) /\ UNCHANGED fresh
    BY <1>5 DEF RunNext
  <2>2. timers' = timers
    BY <2>1 DEF Begins
  <2>3. Range(queue) = {Head(queue)} \union Range(queue') /\ Head(queue) \in Folders
    BY <1>0, <2>1, HeadAndTail
  <2> QED  BY <1>5, <2>1, <2>2, <2>3, BeginsTold
<1>6. CASE RunFresh /\ ~closed
  <2>1. ~reading.on /\ fresh # <<>> /\ fresh' = Tail(fresh) /\ Begins(Head(fresh)) /\ UNCHANGED queue
    BY <1>6 DEF RunFresh
  <2>2. timers' = timers
    BY <2>1 DEF Begins
  <2>3. Range(fresh) = {Head(fresh)} \union Range(fresh') /\ Head(fresh) \in Folders
    BY <1>0, <2>1, HeadAndTail
  <2> QED  BY <1>6, <2>1, <2>2, <2>3, BeginsTold
<1>7. CASE RunFresh /\ closed
  BY <1>7 DEF RunFresh, Begins, AllTold
<1>8. CASE Closes
  BY <1>8, ClosesLeaves DEF AllTold
<1>9. CASE Rescans
  <2>1. Queued(Root) /\ UNCHANGED <<id, file, seen, held, timers, fresh, reading, closed, excused>>
    BY <1>9 DEF Rescans, disk
  <2>2. Range(queue) \subseteq Range(queue')
    BY <1>0, <2>1, QueuedIs, Places
  <2> QED  BY <1>1, <2>1, <2>2, SameSoon
<1>10. ASSUME NEW f \in Folders, TimerEnds(f)  PROVE AllTold'
  <2>1. Queued(f) /\ timers' = timers \ {f} /\ UNCHANGED <<id, file, seen, held, fresh, reading, closed, excused>>
    BY <1>10 DEF TimerEnds, disk, history
  <2>2. Range(queue') = Range(queue) \union {f}
    BY <1>0, <1>10, <2>1, QueuedIs
  <2> QED  BY <1>1, <2>1, <2>2, SameSoon
<1>11. ASSUME NEW f \in Folders, WatchFails(f)  PROVE AllTold'
  <2>1. (\A g \in Folders : g # f => held'[g] = held[g]) /\ held'[f].on = 0
    BY <1>0, <1>11, FailsFit
  <2>2. /\ UNCHANGED <<id, file, seen, timers, queue, fresh, reading, closed>> /\ excused' = excused \union {f}
    BY <1>11 DEF WatchFails, disk
  <2> QED  BY <1>1, <2>1, <2>2, SameSoon
<1>12. CASE RescanEnds \/ UNCHANGED vars
  <2>1. UNCHANGED <<id, file, seen, held, timers, queue, fresh, reading, closed, excused>>
    BY <1>12 DEF RescanEnds, vars, disk, history
  <2> QED  BY <1>1, <2>1, SameSoon
<1> QED  BY <1>2, <1>3, <1>4, <1>5, <1>6, <1>7, <1>8, <1>9, <1>10, <1>11, <1>12, EndsTold DEF Next

-----------------------------------------------------------------------------
(* What a rescan has seen. *)

LEMMA NextRescan ==
  ASSUME ShapeInv, RescanInv, [Next]_vars
  PROVE  RescanInv'
<1>0. /\ TreeTypes /\ ReadFits /\ queue \in Seq(Folders) /\ still \subseteq Folders
      /\ reading \in [area : Folders, todo : SUBSET Items, got : StateRecord, on : BOOLEAN]
  BY DEF ShapeInv, TreeTypes
<1>1. ASSUME UNCHANGED <<id, file, seen, closed, rescan>>, still' = still,
             \A h \in Folders : id[h] # 0 /\ MatchesSoon(h) => MatchesSoon(h)',
             reading.on /\ reading.area = Root => reading'.on /\ reading'.area = Root,
             Root \in Range(queue) => Root \in Range(queue')
      PROVE  RescanInv'
  <2>1. AskedAhead => AskedAhead'
    BY <1>1 DEF AskedAhead
  <2> SUFFICES ASSUME ~closed, ~AskedAhead, NEW h \in still, id[h] # 0
               PROVE  /\ MatchesSoon(h)'
                      /\ (rescan' = "asked" /\ reading'.on /\ reading'.area = Root) \/ MatchesIn(h, seen, {})'
    BY <1>1, <2>1 DEF RescanInv
  <2>2. MatchesSoon(h)'
    BY <1>0, <1>1 DEF RescanInv
  <2>3. (rescan = "asked" /\ reading.on /\ reading.area = Root) \/ MatchesIn(h, seen, {})
    BY DEF RescanInv
  <2>4. MatchesIn(h, seen, {}) => MatchesIn(h, seen, {})'
    BY <1>0, <1>1, SameMatches
  <2> QED  BY <1>1, <2>2, <2>3, <2>4
<1>2. CASE Hand
  <2>1. PICK g \in Folders : \E gone \in SUBSET Folders : SparesOthers(g, gone)
    BY <1>2, HandSpares DEF Hand
  <2>2. PICK gone \in SUBSET Folders : SparesOthers(g, gone)
    BY <2>1
  <2>3. ChangesIn(g, gone)
    BY <2>2 DEF SparesOthers
  <2>4. UNCHANGED <<seen, queue, reading, closed, rescan>> /\ still' = still \ ({g} \union gone)
    BY <1>0, <2>3, HandLeaves
  <2>5. AskedAhead' = AskedAhead
    BY <2>4 DEF AskedAhead
  <2> SUFFICES ASSUME ~closed, ~AskedAhead, NEW h \in still', id'[h] # 0
               PROVE  /\ MatchesSoon(h)'
                      /\ (rescan = "asked" /\ reading.on /\ reading.area = Root) \/ MatchesIn(h, seen, {})'
    BY <2>4, <2>5 DEF RescanInv
  <2>6. h \in still /\ h \in Folders /\ id'[h] = id[h] /\ Spares(h)
    BY <1>0, <2>2, <2>4 DEF SparesOthers
  <2>7. MatchesSoon(h) /\ ((rescan = "asked" /\ reading.on /\ reading.area = Root) \/ MatchesIn(h, seen, {}))
    BY <2>6 DEF RescanInv
  <2>8. MatchesSoon(h)'
    BY <2>4, <2>6, <2>7, SparedSoon
  <2> PICK s : s = seen
    OBVIOUS
  <2> PICK none : none = {}
    OBVIOUS
  <2>9. MatchesIn(h, s, none) => MatchesIn(h, s, none)'
    BY <2>6, SparedMatches
  <2>10. seen' = s
    BY <2>4
  <2>11. MatchesIn(h, s, none)' => MatchesIn(h, seen, {})'
    BY <2>10 DEF MatchesIn, RootIn, ListIn, TagIn
  <2> QED  BY <2>7, <2>8, <2>9, <2>11
<1>3. CASE Read
  <2>1. UNCHANGED <<id, file, seen, closed, rescan, still, queue>>
    BY <1>3 DEF Read, ReadsNames, ReadsListInstead, ReadsId, ReadsFile, Reads, disk, history
  <2>2. reading.on /\ reading.area = Root => reading'.on /\ reading'.area = Root
    <3>1. ASSUME NEW item, NEW got, NEW more, Reads(item, got, more)
          PROVE  reading'.on = reading.on /\ reading'.area = reading.area
      BY <1>0, <3>1 DEF Reads
    <3>2. CASE ReadsListInstead
      BY <3>2, Places DEF ReadsListInstead, FoundGone
    <3>3. CASE ReadsNames
      BY <3>1, <3>3 DEF ReadsNames
    <3>4. ASSUME NEW f \in Folders, ReadsId(f) \/ ReadsFile(f)
          PROVE  reading'.on = reading.on /\ reading'.area = reading.area
      BY <3>1, <3>4 DEF ReadsId, ReadsFile
    <3> QED  BY <1>3, <3>2, <3>3, <3>4 DEF Read
  <2> QED  BY <1>1, <1>3, <2>1, <2>2, ReadsSoon
<1>4. ASSUME NEW a \in Folders, Begins(a), ~reading.on, ~closed,
             Root \in Range(queue) => Root \in Range(queue') \/ a = Root
      PROVE  RescanInv'
  <2>1. UNCHANGED <<id, file, seen, closed, rescan, still>> /\ reading'.on /\ reading'.area = a
    BY <1>4 DEF Begins, disk
  <2> SUFFICES ASSUME ~AskedAhead'
               PROVE  /\ \/ rescan' = "asked" /\ reading'.on /\ reading'.area = Root
                         \/ \A h \in still : id[h] # 0 => MatchesIn(h, seen, {})'
                      /\ \A h \in still : id[h] # 0 => MatchesSoon(h)'
    BY <2>1 DEF RescanInv
  <2>2. CASE AskedAhead
    <3>1. a = Root /\ rescan' = "asked"
      BY <1>4, <2>1, <2>2 DEF AskedAhead
    <3>2. \A h \in Folders : h \in Covers(a)
      BY <3>1, AreaIs
    <3>3. \A h \in Folders : MatchesSoon(h)'
      BY <1>4, <3>2, BeginsSoon
    <3> QED  BY <1>0, <2>1, <3>1, <3>3
  <2>3. CASE ~AskedAhead
    <3>1. \A h \in still : id[h] # 0 => MatchesIn(h, seen, {})
      BY <1>4, <2>3 DEF RescanInv
    <3>2. \A h \in still : id[h] # 0 => MatchesSoon(h)'
      BY <1>0, <1>4, <3>1, BeginsSoon
    <3>3. \A h \in still : id[h] # 0 => MatchesIn(h, seen, {})'
      BY <1>0, <2>1, <3>1, SameMatches
    <3> QED  BY <3>2, <3>3
  <2> QED  BY <2>2, <2>3
<1>5. CASE RunNext /\ closed
  BY <1>5 DEF RunNext, RescanInv
<1>6. CASE RunNext /\ ~closed
  <2>1. ~reading.on /\ queue # <<>> /\ queue' = Tail(queue) /\ Begins(Head(queue))
    BY <1>6 DEF RunNext
  <2>2. Range(queue) = {Head(queue)} \union Range(queue') /\ Head(queue) \in Folders
    BY <1>0, <2>1, HeadAndTail
  <2> QED  BY <1>4, <1>6, <2>1, <2>2
<1>7. CASE RunFresh /\ ~closed
  <2>1. ~reading.on /\ fresh # <<>> /\ Begins(Head(fresh)) /\ queue' = queue
    BY <1>7 DEF RunFresh
  <2>2. Head(fresh) \in Folders
    BY <1>0, <2>1, HeadAndTail DEF TreeTypes
  <2> QED  BY <1>4, <1>7, <2>1, <2>2
<1>8. CASE RunFresh /\ closed
  BY <1>8 DEF RunFresh, Begins, RescanInv
<1>9. CASE ReadEnds
  <2>1. UNCHANGED <<id, queue, closed, rescan, still>>
    BY <1>9 DEF ReadEnds, disk
  <2>2. AskedAhead' = AskedAhead
    BY <2>1 DEF AskedAhead
  <2> SUFFICES ASSUME ~closed, ~AskedAhead, NEW h \in still, id[h] # 0
               PROVE  MatchesSoon(h)' /\ MatchesIn(h, seen, {})'
    BY <2>1, <2>2 DEF RescanInv
  <2>3. MatchesSoon(h)
    BY DEF RescanInv
  <2> QED  BY <1>0, <1>9, <2>3, EndsSoon
<1>10. CASE Closes
  BY <1>10, ClosesLeaves DEF RescanInv
<1>11. CASE Rescans
  <2>1. Queued(Root) /\ rescan' = "asked"
    BY <1>11 DEF Rescans
  <2>2. Root \in Range(queue')
    BY <1>0, <2>1, QueuedIs, Places
  <2> QED  BY <2>1, <2>2 DEF RescanInv, AskedAhead
<1>12. ASSUME NEW f \in Folders, TimerEnds(f)  PROVE RescanInv'
  <2>1. Queued(f) /\ UNCHANGED <<id, file, seen, reading, closed, rescan, still>>
    BY <1>12 DEF TimerEnds, disk, history
  <2>2. Range(queue') = Range(queue) \union {f}
    BY <1>0, <1>12, <2>1, QueuedIs
  <2> QED  BY <1>1, <2>1, <2>2, SameSoon
<1>13. ASSUME NEW f \in Folders, WatchFails(f)  PROVE RescanInv'
  <2>1. UNCHANGED <<id, file, seen, reading, queue, closed, rescan, still>>
    BY <1>13 DEF WatchFails, disk
  <2> QED  BY <1>1, <2>1, SameSoon
<1>14. CASE RescanEnds
  <2>1. ~reading.on /\ Root \notin Range(queue) /\ UNCHANGED <<id, file, seen, reading, queue, closed, still>>
    BY <1>14 DEF RescanEnds, disk
  <2>2. ~AskedAhead
    BY <2>1 DEF AskedAhead
  <2> SUFFICES ASSUME ~closed, NEW h \in still, id[h] # 0
               PROVE  MatchesSoon(h)' /\ MatchesIn(h, seen, {})'
    BY <2>1 DEF RescanInv
  <2>3. MatchesSoon(h) /\ MatchesIn(h, seen, {})
    BY <2>1, <2>2 DEF RescanInv
  <2> QED  BY <1>0, <2>1, <2>3, SameSoon, SameMatches
<1>15. CASE UNCHANGED vars
  <2>1. UNCHANGED <<id, file, seen, reading, queue, closed, rescan, still>>
    BY <1>15 DEF vars, disk, history
  <2> QED  BY <1>1, <2>1, SameSoon
<1> QED  BY <1>2, <1>3, <1>5, <1>6, <1>7, <1>8, <1>9, <1>10, <1>11, <1>12, <1>13, <1>14, <1>15 DEF Next

-----------------------------------------------------------------------------
LEMMA InitTree == Init => TreeInv
<1> SUFFICES ASSUME Init  PROVE TreeInv
  OBVIOUS
<1>1. /\ queue = <<Root>> /\ held = [f \in Folders |-> NotHeld] /\ rescan = "asked"
  BY DEF Init
<1>2. Root \in Range(queue)
  <2>1. 1 \in DOMAIN queue /\ queue[1] = Root
    BY <1>1
  <2> QED  BY <2>1 DEF Range
<1>3. \A f \in Folders : held[f].id = 0 /\ held[f].on = 0
  BY <1>1 DEF NotHeld
<1>4. WatchesFit
  BY <1>3 DEF WatchesFit
<1>5. AllWatched
  BY <1>2 DEF AllWatched, FirstRead
<1>6. AllTold
  BY <1>3 DEF AllTold, Told, Hears
<1>7. RescanInv
  BY <1>1, <1>2 DEF RescanInv, AskedAhead
<1>8. ShapeInv
  BY InitShape
<1> QED  BY <1>4, <1>5, <1>6, <1>7, <1>8 DEF TreeInv

LEMMA NextTree == TreeInv /\ [Next]_vars => TreeInv'
  BY NextShape, NextFit, NextWatched, NextTold, NextRescan DEF TreeInv

(* The folders that are watched up to the limit have all smaller ones among them. *)
LEMMA WantedBelow ==
  ASSUME NEW s \in StateRecord, NEW f \in Wanted(s), NEW g \in Watched(s), g < f
  PROVE  g \in Wanted(s)
<1> DEFINE Below(h) == {x \in Watched(s) : x < h}
<1>1. Watched(s) \subseteq Folders /\ f \in Folders /\ Folders \subseteq Nat
  BY WatchedIn, Places
<1>2. IsFiniteSet(Folders)
  BY FoldersFinite
<1>3. Below(f) \subseteq Folders /\ Below(g) \subseteq Below(f)
  <2>1. g \in Nat /\ f \in Nat /\ \A x \in Watched(s) : x \in Folders /\ x \in Nat
    BY <1>1
  <2>2. \A x \in Watched(s) : x < g => x < f
    BY <2>1
  <2> QED  BY <2>1, <2>2
<1>4. IsFiniteSet(Below(f))
  BY <1>2, <1>3, FS_Subset
<1>5. IsFiniteSet(Below(g)) /\ Cardinality(Below(g)) <= Cardinality(Below(f))
  BY <1>3, <1>4, FS_Subset
<1>6. Cardinality(Below(g)) \in Nat /\ Cardinality(Below(f)) \in Nat /\ Limit \in Nat
  BY <1>4, <1>5, FS_CardinalityType, TreeAssumption
<1>7. Cardinality(Below(f)) < Limit
  BY DEF Wanted
<1> HIDE DEF Below
<1>8. Cardinality(Below(g)) < Limit
  BY <1>5, <1>6, <1>7
<1> QED  BY <1>8 DEF Wanted, Below

LEMMA InMatches ==
  ASSUME NEW f \in Folders, MatchesIn(f, seen, {})
  PROVE  Matches(f)
  BY Places DEF Matches, MatchesIn, RootIn, ListIn, TagIn

LEMMA NothingMissedIn == TreeInv => NothingMissed
<1> SUFFICES ASSUME TreeInv, AtRest, NEW f \in Folders, id[f] # 0, ~Unheard(f)  PROVE Matches(f)
  BY DEF NothingMissed
<1>0. TreeTypes /\ Numbered /\ ReadFits /\ WatchesFit /\ AllWatched /\ AllTold /\ seen \in StateRecord
  BY DEF TreeInv, ShapeInv, TreeTypes
<1>1. ~closed /\ ~reading.on /\ timers = {} /\ queue = <<>> /\ fresh = <<>>
  BY DEF AtRest
<1>2. Range(queue) = {} /\ Range(fresh) = {}
  BY <1>1 DEF Range
<1>3. \A h \in Folders : ~Awaits(h)
  BY <1>1, <1>2 DEF Awaits
<1>4. \A h \in Wanted(seen) : held[h].id = seen.id[h] /\ held[h].id # 0
  <2>1. ~FirstRead
    BY <1>1, <1>2 DEF FirstRead
  <2>2. Wanted(seen) \subseteq Folders
    BY <1>0, WatchedIn
  <2> QED  BY <1>0, <1>1, <2>1, <2>2 DEF AllWatched, WatchesFit
<1>5. ASSUME NEW h \in Wanted(seen), seen.id[h] = id[h], ~Excused(h)
      PROVE  MatchesIn(h, seen, {})
  <2>1. h \in Folders
    BY <1>0, WatchedIn
  <2>2. held[h].id = id[h] /\ id[h] # 0
    BY <1>4, <1>5
  <2>3. h \notin excused
    BY <1>5 DEF Excused
  <2>4. Hears(h)
    BY <1>0, <2>1, <2>2, <2>3 DEF WatchesFit, Hears
  <2>5. MatchesSoon(h)
    BY <1>0, <1>1, <1>3, <1>5, <2>1, <2>2, <2>4 DEF AllTold, Told
  <2> QED  BY <1>0, <1>1, <2>1, <2>5, RestSoon
<1>6. f \in Wanted(seen) /\ ~Excused(f) /\ Root \notin excused /\ (f # Root => List \notin excused)
  BY DEF Unheard, Excused
<1>7. seen.id[Root] = 1 /\ id[Root] = 1
  BY <1>0 DEF Numbered
<1>8. Root \in Watched(seen)
  BY <1>7 DEF Watched
<1>9. Root \in Wanted(seen)
  <2>1. CASE f = Root
    BY <1>6, <2>1
  <2>2. CASE f # Root
    <3>1. Root < f
      BY <2>2, Places DEF Root
    <3> QED  BY <1>0, <1>6, <1>8, <3>1, WantedBelow
  <2> QED  BY <2>1, <2>2
<1>10. MatchesIn(Root, seen, {})
  <2>1. ~Excused(Root)
    BY <1>6 DEF Excused
  <2> QED  BY <1>5, <1>7, <1>9, <2>1
<1>11. CASE f = Root
  BY <1>10, <1>11, InMatches
<1>12. CASE f # Root
  <2>1. seen.id[List] = id[List]
    BY <1>10 DEF MatchesIn, RootIn
  <2>2. id[List] # 0
    BY <1>0, <1>12, Places DEF Numbered
  <2>3. List \in Watched(seen)
    BY <2>1, <2>2 DEF Watched
  <2>4. List \in Wanted(seen)
    <3>1. CASE f = List
      BY <1>6, <3>1
    <3>2. CASE f # List
      <4>1. f \in Tags
        BY <1>12, <3>2, Places
      <4>2. List < f
        BY <4>1, TreeAssumption DEF List, Root
      <4> QED  BY <1>0, <1>6, <2>3, <4>2, WantedBelow
    <3> QED  BY <3>1, <3>2
  <2>5. ~Excused(List)
    BY <1>6, <1>12 DEF Excused
  <2>6. MatchesIn(List, seen, {})
    BY <1>5, <2>1, <2>4, <2>5
  <2>7. CASE f = List
    BY <2>6, <2>7, InMatches
  <2>8. CASE f \in Tags
    <3>1. seen.tags = {t \in Tags : id[t] # 0} /\ \A t \in seen.tags : seen.id[t] = id[t]
      BY <2>6 DEF MatchesIn, ListIn
    <3>2. seen.id[f] = id[f]
      BY <2>8, <3>1
    <3>3. MatchesIn(f, seen, {})
      BY <1>5, <1>6, <3>2
    <3> QED  BY <3>3, InMatches
  <2> QED  BY <1>12, <2>7, <2>8, Places
<1> QED  BY <1>11, <1>12

LEMMA RescanToldIn == TreeInv => RescanTold
<1> SUFFICES ASSUME TreeInv, rescan = "done", ~closed, NEW f \in still, id[f] # 0  PROVE Matches(f)
  BY DEF RescanTold
<1>1. ~AskedAhead /\ RescanInv /\ f \in Folders
  BY DEF AskedAhead, TreeInv, ShapeInv, TreeTypes
<1>2. MatchesIn(f, seen, {})
  BY <1>1 DEF RescanInv
<1> QED  BY <1>1, <1>2, InMatches

(* The watch keeps what the theorems below rest on: each folder that a watch *)
(* hears is as the state has it, or a read of it is to come or in flight.    *)
THEOREM TreeInvariant == Spec => []TreeInv
  BY InitTree, NextTree, PTL DEF Spec

(* When all is quiet the state holds what stands on the disk, wherever a     *)
(* watch stood: no change is missed between an event, its pause and the read *)
(* (`#run` and `#follow` of watch.ts).                                       *)
THEOREM NothingMissedHolds == Spec => []NothingMissed
  BY TreeInvariant, NothingMissedIn, PTL

(* A rescan that resolved has seen all that stood when it was asked for,     *)
(* whatever reads were in flight (`rescan` of watch.ts).                     *)
THEOREM RescanToldHolds == Spec => []RescanTold
  BY TreeInvariant, RescanToldIn, PTL
=============================================================================
