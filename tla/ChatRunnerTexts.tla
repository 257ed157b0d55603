--------------------------- MODULE ChatRunnerTexts ---------------------------
(***************************************************************************)
(* Proofs about the texts of the messages of a chat: that no text goes to  *)
(* the agent twice in one session, and that the agent gets no text of a    *)
(* cancelled turn, unless it has it already or the text came too late.     *)
(*                                                                         *)
(* The steps that glide leave every text where it is, and keep the         *)
(* invariant, and so do those that tell the agent nothing                  *)
(* (ChatRunnerMirrors).  Here each step that sends texts to the agent has  *)
(* a lemma.  For what a cancel takes back the steps are parted otherwise:  *)
(* a step flows, so that no run gets a text that it did not have, or it is *)
(* the one that takes the texts of the last run.                           *)
(***************************************************************************)
EXTENDS ChatRunnerMirrors

-----------------------------------------------------------------------------
(* Steps that send texts to the agent. *)

LEMMA GotByOnce ==
  ASSUME TypeInv, NEW batch \in Seq(Texts), NoDup(batch), NEW t \in Texts
  PROVE  GotBy(batch)[t] = got[t] + (IF t \in ToSet(batch) THEN 1 ELSE 0) /\ got[t] \in Nat
<1> DEFINE S == {i \in DOMAIN batch : batch[i] = t}
<1>1. GotBy(batch)[t] = got[t] + Cardinality(S) /\ got[t] \in Nat
  BY DEF GotBy, TypeInv, TypeOK
<1>2. DOMAIN batch = 1..Len(batch)
  OBVIOUS
<1>3. CASE t \in ToSet(batch)
  <2>1. PICK k \in 1..Len(batch) : batch[k] = t
    BY <1>2, <1>3 DEF ToSet
  <2>2. S = {k}
    BY <1>2, <2>1 DEF NoDup
  <2>3. Cardinality({k}) = 1
    BY FS_Singleton
  <2> QED  BY <1>1, <1>3, <2>2, <2>3
<1>4. CASE t \notin ToSet(batch)
  <2>1. S = {}
    BY <1>4 DEF ToSet
  <2>2. Cardinality({}) = 0
    BY FS_EmptySet
  <2> QED  BY <1>1, <1>4, <2>1, <2>2
<1> QED  BY <1>3, <1>4

\* What the agent still has to get after a step that sends.
Ahead(y) == (y.steering \ y.injected) \union (ToSet(y.unsent) \ y.injected)

LEMMA SendOn ==
  ASSUME Base, TextInv, NEW r \in 1..used, Holder(r), stored,
         NEW y, run' = [run EXCEPT ![r] = y], NEW batch \in Seq(Texts), NoDup(batch),
         got' = GotBy(batch), \A t \in ToSet(batch) : Ungot(t),
         \A t \in Ahead(y) : t \notin ToSet(batch) /\ Ungot(t),
         \A t \in Texts : Fresh(t)' => Fresh(t) /\ t \notin ToSet(batch) \union ToSet(y.unsent) \union y.steering,
         NoDup(y.unsent), y.unsent \in Seq(Texts), y.steering \subseteq Texts,
         Lines(run[r], y), Form(y), ~Anew(y),
         used' = used, answers' = answers, stored' = stored, unsure' = unsure, LineInv', CallsOnce'
  PROVE  TextInv'
<1>0. TypeInv /\ \A s \in 1..used : s \in Runs /\ run[s] \in RunRecord
  BY Registry DEF TypeInv, Base
<1>1. run'[r] = y /\ \A s \in 1..used : s # r => run'[s] = run[s]
  BY <1>0 DEF TypeInv, TypeOK
<1>2. \A t \in Texts : got'[t] = got[t] + (IF t \in ToSet(batch) THEN 1 ELSE 0) /\ got[t] \in Nat
  BY <1>0, GotByOnce
<1>3. \A t \in Texts : t \notin ToSet(batch) => got'[t] = got[t] /\ (Ungot(t) => Ungot(t)')
  <2>1. \A t \in Texts : t \notin ToSet(batch) => got'[t] = got[t]
    BY <1>2
  <2> QED  BY <2>1 DEF Ungot
<1>4. \A s \in 1..used : s # r => run[s].steering = {}
  <2> SUFFICES ASSUME NEW s \in 1..used, s # r, run[s].steering # {} PROVE FALSE
    OBVIOUS
  <2>1. Connected(run[s])
    BY DEF TextInv, FormInv, Form
  <2>2. Holder(s)
    BY <2>1, AtPlaceHolds
  <2> QED  BY <1>0, <2>2, HolderOne
<1>5. FormInv'
  BY <1>1 DEF TextInv, FormInv
<1>6. StoredInv'
  BY DEF StoredInv
<1>7. FreshInv'
  <2> SUFFICES ASSUME NEW t \in Texts, Fresh(t)', Has(t)' PROVE FALSE
    BY DEF FreshInv
  <2>1. ~Has(t) /\ t \notin ToSet(batch) \union ToSet(y.unsent) \union y.steering
    BY DEF TextInv, FreshInv
  <2>2. got'[t] = 0 /\ t \notin ToSet(answers'.unanswered)
    BY <1>3, <2>1 DEF Has
  <2>3. \A s \in 1..used : t \notin ToSet(run'[s].unsent) \union run'[s].steering
    BY <1>1, <2>1 DEF Has
  <2> QED  BY <2>2, <2>3 DEF Has
<1>8. OnceInv'
  BY <1>1 DEF TextInv, OnceInv, UnsentOnce
<1>9. NoTextTwice'
  <2> SUFFICES ASSUME NEW t \in Texts, t \notin unsure PROVE got'[t] <= 1
    BY DEF NoTextTwice
  <2>1. CASE t \in ToSet(batch)
    <3>1. got[t] = 0
      BY <2>1 DEF Ungot
    <3> QED  BY <1>2, <2>1, <3>1
  <2>2. CASE t \notin ToSet(batch)
    <3>1. got[t] <= 1
      BY DEF TextInv, GotInv, NoTextTwice
    <3> QED  BY <1>3, <2>2, <3>1
  <2> QED  BY <2>1, <2>2
<1>10. \A t \in Ahead(y) : Ungot(t)'
  <2>1. Ahead(y) \subseteq Texts
    <3>1. ToSet(y.unsent) \subseteq Texts
      BY DEF ToSet
    <3> QED  BY <3>1 DEF Ahead
  <2> QED  BY <1>3, <2>1
<1>11. SteersUngot'
  <2> SUFFICES ASSUME NEW s \in 1..used, NEW t \in run'[s].steering \ run'[s].injected PROVE Ungot(t)'
    BY DEF SteersUngot
  <2>1. s = r
    BY <1>1, <1>4
  <2> QED  BY <1>1, <1>10, <2>1 DEF Ahead
<1>12. \A s : Holder(s)' => s = r
  <2>1. RunsLine
    BY <1>1 DEF RunsLine, Lines
  <2> QED  BY <1>0, <2>1, HolderStays, HolderOne
<1>13. HolderUngot'
  <2> SUFFICES ASSUME NEW s \in 1..used, Holder(s)', NEW t \in ToSet(run'[s].unsent) \ run'[s].injected
               PROVE  Ungot(t)'
    BY DEF HolderUngot
  <2>1. s = r
    BY <1>12
  <2> QED  BY <1>1, <1>10, <2>1 DEF Ahead
<1>14. AnewUngot'
  BY <1>1, <1>12 DEF AnewUngot
<1>15. NoneGot'
  BY <1>1 DEF NoneGot, Waits, Holder, Lines
<1> QED  BY <1>5, <1>6, <1>7, <1>8, <1>9, <1>11, <1>13, <1>14, <1>15 DEF TextInv, GotInv

\* A run in a turn that goes on is the holder.
LEMMA TurnHolds ==
  ASSUME Base, TextInv, NEW r \in 1..used, ~run[r].quiet, run[r].pc \in {"options", "held", "check"}
  PROVE  Holder(r) /\ cur = r /\ run[r].turning /\ stored
<1>1. run[r].turning
  BY DEF Base, PlaceInv, TurnsFit, TurnFits
<1>2. cur = r /\ cur # NoRun
  BY <1>1, TurnIsCur DEF TextInv, Off, Base
<1>3. Holder(cur)
  <2>1. TypeInv /\ LineInv /\ ~Waits(cur)
    BY <1>2 DEF TextInv, Base, Waits
  <2> QED  BY <1>2, <2>1, CurIsHolder
<1>4. stored
  BY DEF TextInv, StoredInv, Unstored
<1> QED  BY <1>1, <1>2, <1>3, <1>4

\* A batch with no text gives nothing.
LEMMA GotByNone == ASSUME TypeInv PROVE GotBy(<<>>) = got
<1>1. \A t : {i \in DOMAIN <<>> : <<>>[i] = t} = {}
  OBVIOUS
<1>2. Cardinality({}) = 0
  BY FS_EmptySet
<1>3. \A t \in Texts : got[t] + Cardinality({i \in DOMAIN <<>> : <<>>[i] = t}) = got[t]
  <2> SUFFICES ASSUME NEW t \in Texts PROVE got[t] + Cardinality({i \in DOMAIN <<>> : <<>>[i] = t}) = got[t]
    OBVIOUS
  <2>1. got[t] \in Nat
    BY DEF TypeInv, TypeOK
  <2>2. got[t] + 0 = got[t]
    BY <2>1
  <2> QED  BY <1>1, <1>2, <2>2
<1>4. got = [t \in Texts |-> got[t]]
  BY DEF TypeInv, TypeOK
<1> QED  BY <1>3, <1>4 DEF GotBy

\* A prompt gives its texts, or none of them on a closed connection.
LEMMA PromptGives ==
  ASSUME TypeInv, NEW x, NEW batch \in Seq(Texts), NoDup(batch), NEW given, given = PromptGot(x, batch)
  PROVE  \E some \in Seq(Texts) : NoDup(some) /\ ToSet(some) \subseteq ToSet(batch) /\ given = GotBy(some)
<1>1. <<>> \in Seq(Texts) /\ NoDup(<<>>) /\ ToSet(<<>>) = {}
  BY DEF NoDup, ToSet
<1>2. CASE Connected(x)
  BY <1>2 DEF PromptGot
<1>3. CASE ~Connected(x)
  BY <1>1, <1>3, GotByNone DEF PromptGot
<1> QED  BY <1>2, <1>3

\* The first prompt of a start, or the end of a start that was cancelled.
LEMMA FirstTurnTexts ==
  ASSUME Base, TextInv, NEW r \in 1..used, ~run[r].quiet, run[r].pc \in {"options", "held"},
         NEW x \in RunRecord, x.steering = run[r].steering, x.injected = run[r].injected,
         x.created = run[r].created, x.prev = run[r].prev, x.awaits = run[r].awaits, x.proc = run[r].proc,
         x.turning = run[r].turning, x.pickRelaunch = run[r].pickRelaunch,
         \/ x.unsent = run[r].unsent
         \/ x.unsent = answers.unanswered /\ run[r].created /\ run[r].pc = "held",
         ~x.pickRelaunch,
         run' = [run EXCEPT ![r] = FirstTurn(x)], writes' = writes \o FirstTurnWrites(x, r),
         got' = FirstTurnGot(x), chat' = chat, table' = table, ends' = ends, end' = end, cur' = cur,
         msg' = msg, unsure' = unsure
  PROVE  TextInv'
<1>1. TypeInv /\ r \in 0..MaxRuns /\ Form(run[r])
  BY Registry DEF TypeInv, Base, TextInv, FormInv
<1>2. /\ used' = used /\ last' = last /\ answers' = answers /\ stored' = stored /\ unsure \subseteq unsure'
      /\ end'.st = "turn" => end'.run = last
  BY DEF chat, table, TextInv, LineInv
<1>3. Holder(r) /\ cur = r /\ run[r].turning /\ stored
  BY TurnHolds
<1>4. x.steering = {} /\ x.injected = {}
  BY <1>1 DEF Form, Talking
<1>5. CallsStay /\ (\A t \in Texts : Fresh(t)' => Fresh(t))
  BY MsgStays
<1>6. NoDup(x.unsent) /\ x.unsent \in Seq(Texts) /\ (\A t \in ToSet(x.unsent) : Ungot(t))
      /\ (\A t \in Texts : Fresh(t) => t \notin ToSet(x.unsent))
  <2>1. CASE x.unsent = run[r].unsent
    <3>1. NoDup(run[r].unsent) /\ \A t \in ToSet(run[r].unsent) : Ungot(t)
      BY <1>3, <1>4 DEF TextInv, OnceInv, UnsentOnce, GotInv, HolderUngot
    <3>2. \A t \in Texts : Fresh(t) => t \notin ToSet(run[r].unsent)
      BY DEF TextInv, FreshInv, Has
    <3> QED  BY <2>1, <3>1, <3>2 DEF RunRecord
  <2>2. CASE x.unsent = answers.unanswered /\ run[r].created /\ run[r].pc = "held"
    <3>1. answers.unanswered \in Seq(Texts) /\ NoDup(answers.unanswered)
      BY <1>1 DEF TypeInv, TypeOK, Answers, TextInv, OnceInv, CallsOnce
    <3>2. ToSet(answers.unanswered) \subseteq Texts
      BY <3>1 DEF ToSet
    <3>3. \A t \in Texts : got[t] = 0
      BY <1>3, <2>2 DEF TextInv, GotInv, AnewUngot, Anew
    <3>4. \A t \in Texts : Fresh(t) => t \notin ToSet(answers.unanswered)
      BY DEF TextInv, FreshInv, Has
    <3> QED  BY <2>2, <3>1, <3>2, <3>3, <3>4 DEF Ungot
  <2> QED  BY <2>1, <2>2
<1>7. CASE x.cancelledEarly
  <2> PICK y : y = FirstTurn(x)
    OBVIOUS
  <2>1. /\ y.unsent \in {x.unsent, <<>>} /\ y.steering = x.steering /\ y.injected = x.injected
        /\ y.created = x.created /\ y.prev = x.prev /\ y.awaits = x.awaits
        /\ y.pickRelaunch = x.pickRelaunch /\ y.session = x.session
        /\ y.turning = FALSE /\ y.pc \in {"idle", "over"} /\ (Dead(x) => Dead(y))
    BY <1>7, CancelledTurnFields, ZenonT(30)
  <2>2. run' = [run EXCEPT ![r] = y] /\ got' = got
    BY <1>7 DEF FirstTurnGot
  <2>3. Lines(run[r], y) /\ (Dead(run[r]) => Dead(y)) /\ Off(y)
    BY <2>1 DEF Lines, Dead, Off
  <2>4. Form(y) /\ ~Anew(y) /\ y.steering = {} /\ y.injected = {}
    BY <1>1, <1>4, <2>1 DEF Form, Anew, Opening, BeforeSession, Talking
  <2>5. Adds
    <3> DEFINE z == [x EXCEPT !.turnCancelled = TRUE]
    <3>1. z \in RunRecord /\ z.turnCancelled
      BY DEF RunRecord
    <3> HIDE DEF z
    <3>2. EndTurnWrites(z, r) \in Seq(Addable)
      BY <1>1, <3>1, EndTurnAdds
    <3>3. writes' = writes \o EndTurnWrites(z, r)
      BY <1>7 DEF FirstTurnWrites, z
    <3> QED  BY <3>2, <3>3 DEF Adds
  <2>6. LineInv'
    BY <1>1, <1>2, <2>2, <2>3, LineOne DEF TextInv
  <2>7. CASE x.unsent = run[r].unsent
    <3>1. Less(run[r], y, unsure')
      <4>1. ToSet(y.unsent) \subseteq ToSet(x.unsent) /\ NoDup(y.unsent)
        BY <1>6, <2>1 DEF ToSet, NoDup
      <4> QED  BY <1>4, <2>4, <2>7, <4>1 DEF Less
    <3> QED  BY <1>1, <1>2, <1>3, <1>5, <2>2, <2>3, <2>5, <3>1, MoveOne
  <2>8. CASE x.unsent = answers.unanswered /\ run[r].created /\ run[r].pc = "held"
    <3>1. \A t \in Texts : got'[t] = 0
      BY <1>3, <2>2, <2>8 DEF TextInv, GotInv, AnewUngot, Anew
    <3>2. y.unsent \in {run[r].unsent, answers.unanswered, <<>>}
      BY <2>1, <2>8
    <3> QED  BY <1>1, <1>2, <1>3, <1>5, <2>2, <2>3, <2>4, <2>5, <2>6, <3>1, <3>2, RefillOn
  <2> QED  BY <2>7, <2>8
<1>8. CASE ~x.cancelledEarly
  <2> DEFINE z == [x EXCEPT !.reaches = TRUE]
  <2>1. /\ z \in RunRecord /\ z.unsent = x.unsent /\ z.steering = x.steering /\ z.injected = x.injected
        /\ z.created = x.created /\ z.prev = x.prev /\ z.awaits = x.awaits /\ z.proc = x.proc
        /\ z.turning = x.turning
    BY DEF RunRecord
  <2>2. FirstTurn(x) = RunTurn(z)
    BY <1>8 DEF FirstTurn
  <2> HIDE DEF z
  <2> PICK y : y = RunTurn(z)
    OBVIOUS
  <2>3. Carries(z, y) /\ y.unsent = <<>> /\ y.turning = z.turning /\ y.pc \in {"prompt", "over"}
    BY <2>1, RunTurnFields
  <2>4. run' = [run EXCEPT ![r] = y] /\ got' = PromptGot(x, x.unsent) /\ writes' = writes
    <3>1. writes \in Seq(Write) /\ writes \o <<>> = writes
      BY <1>1 DEF TypeInv, TypeOK
    <3> QED  BY <1>8, <2>2, <3>1 DEF FirstTurnGot, FirstTurnWrites
  <2>5. Lines(run[r], y) /\ (Dead(run[r]) => Dead(y))
    BY <2>1, <2>3 DEF Lines, Dead, Carries
  <2>6. Form(y) /\ ~Anew(y) /\ y.steering = {} /\ y.injected = {}
    BY <1>1, <1>4, <2>1, <2>3 DEF Form, Anew, Opening, BeforeSession, Talking, Carries
  <2>7. LineInv'
    BY <1>1, <1>2, <1>3, <2>4, <2>5, LineOne DEF TextInv
  <2>8. CallsOnce'
    BY <1>1, <1>2, <1>5, <2>4, AddsNone, CallsAdd DEF TextInv, OnceInv
  <2>9. ToSet(y.unsent) = {} /\ NoDup(y.unsent) /\ y.unsent \in Seq(Texts)
    BY <2>3 DEF ToSet, NoDup
  <2>10. Ahead(y) = {}
    BY <2>6, <2>9 DEF Ahead
  <2>11. PICK batch \in Seq(Texts) : NoDup(batch) /\ ToSet(batch) \subseteq ToSet(x.unsent) /\ got' = GotBy(batch)
    BY <1>1, <1>6, <2>4, PromptGives
  <2>12. /\ \A t \in ToSet(batch) : Ungot(t)
         /\ \A t \in Texts : Fresh(t)' => Fresh(t) /\ t \notin ToSet(batch) \union ToSet(y.unsent) \union y.steering
    BY <1>5, <1>6, <2>6, <2>9, <2>11
  <2> QED  BY <1>2, <1>3, <2>4, <2>5, <2>6, <2>7, <2>8, <2>9, <2>10, <2>11, <2>12, SendOn
<1> QED  BY <1>7, <1>8

LEMMA OptionsOverTexts ==
  ASSUME Base, TextInv, NEW r \in 1..used, OptionsDone(r) PROVE TextInv'
<1>1. TypeInv /\ run[r] \in RunRecord /\ run[r].pc = "options" /\ ~run[r].quiet /\ ~run[r].pickRelaunch
  BY Registry DEF TypeInv, Base, OptionsDone
<1>2. CASE run[r].held # <<>>
  <2>1. Calm
    BY <1>1, <1>2, OptionsHeldCalm
  <2> QED  BY <1>1, <2>1, CalmTexts
<1>3. CASE run[r].held = <<>>
  <2> DEFINE x == [run[r] EXCEPT !.session = TRUE]
  <2>1. /\ x \in RunRecord /\ x.steering = run[r].steering /\ x.injected = run[r].injected
        /\ x.created = run[r].created /\ x.prev = run[r].prev /\ x.awaits = run[r].awaits /\ x.proc = run[r].proc
        /\ x.turning = run[r].turning /\ x.pickRelaunch = run[r].pickRelaunch /\ x.unsent = run[r].unsent
        /\ x.held = run[r].held
    BY <1>1 DEF RunRecord
  <2>2. /\ run' = [run EXCEPT ![r] = FirstTurn(x)] /\ writes' = writes \o FirstTurnWrites(x, r)
        /\ got' = FirstTurnGot(x) /\ chat' = chat /\ table' = table /\ ends' = ends /\ end' = end /\ cur' = cur
        /\ msg' = msg /\ unsure' = unsure
    BY <1>3, <2>1 DEF OptionsDone
  <2> HIDE DEF x
  <2> PICK y : y = x
    OBVIOUS
  <2>3. /\ y \in RunRecord /\ y.steering = run[r].steering /\ y.injected = run[r].injected
        /\ y.created = run[r].created /\ y.prev = run[r].prev /\ y.awaits = run[r].awaits /\ y.proc = run[r].proc
        /\ y.turning = run[r].turning /\ y.pickRelaunch = run[r].pickRelaunch /\ y.unsent = run[r].unsent
    BY <2>1
  <2>4. ~y.pickRelaunch
    BY <1>1, <2>3
  <2>5. run' = [run EXCEPT ![r] = FirstTurn(y)] /\ writes' = writes \o FirstTurnWrites(y, r)
        /\ got' = FirstTurnGot(y)
    BY <2>2
  <2> QED  BY <1>1, <2>2, <2>3, <2>4, <2>5, FirstTurnTexts
<1> QED  BY <1>2, <1>3

LEMMA HeldOverTexts ==
  ASSUME Base, TextInv, NEW r \in 1..used, HeldOver(r) PROVE TextInv'
<1>1. TypeInv /\ run[r] \in RunRecord /\ run[r].pc = "held" /\ ~run[r].pickRelaunch
  BY Registry DEF TypeInv, Base, HeldOver, TextInv, FormInv, Form
<1>2. CASE run[r].quiet \/ stopping
  BY <1>2, StoppedTexts
<1>3. CASE ~(run[r].quiet \/ stopping)
  <2> DEFINE u == IF run[r].created THEN answers.unanswered ELSE run[r].unsent
             x == [run[r] EXCEPT !.unsent = u]
  <2>1. u \in Seq(Texts)
    BY <1>1 DEF RunRecord, TypeInv, TypeOK, Answers
  <2>2. u = run[r].unsent \/ (u = answers.unanswered /\ run[r].created /\ run[r].pc = "held")
    BY <1>1
  <2>3. /\ run' = [run EXCEPT ![r] = FirstTurn(x)] /\ writes' = writes \o FirstTurnWrites(x, r)
        /\ got' = FirstTurnGot(x) /\ chat' = chat /\ table' = table /\ ends' = ends /\ end' = end /\ cur' = cur
        /\ msg' = msg /\ unsure' = unsure
    BY <1>3 DEF HeldOver
  <2> HIDE DEF u
  <2>4. /\ x \in RunRecord /\ x.steering = run[r].steering /\ x.injected = run[r].injected
        /\ x.created = run[r].created /\ x.prev = run[r].prev /\ x.awaits = run[r].awaits /\ x.proc = run[r].proc
        /\ x.turning = run[r].turning /\ x.pickRelaunch = run[r].pickRelaunch /\ x.unsent = u
    BY <1>1, <2>1 DEF RunRecord
  <2> HIDE DEF x
  <2> PICK y : y = x
    OBVIOUS
  <2>5. /\ y \in RunRecord /\ y.steering = run[r].steering /\ y.injected = run[r].injected
        /\ y.created = run[r].created /\ y.prev = run[r].prev /\ y.awaits = run[r].awaits /\ y.proc = run[r].proc
        /\ y.turning = run[r].turning /\ y.pickRelaunch = run[r].pickRelaunch
    BY <2>4
  <2>6. \/ y.unsent = run[r].unsent
        \/ y.unsent = answers.unanswered /\ run[r].created /\ run[r].pc = "held"
    BY <2>2, <2>4
  <2>7. ~y.pickRelaunch
    BY <1>1, <2>5
  <2>8. run' = [run EXCEPT ![r] = FirstTurn(y)] /\ writes' = writes \o FirstTurnWrites(y, r)
        /\ got' = FirstTurnGot(y)
    BY <2>3
  <2> QED  BY <1>1, <1>3, <2>3, <2>5, <2>6, <2>7, <2>8, FirstTurnTexts
<1> QED  BY <1>2, <1>3

\* The next prompt of a turn.
LEMMA NextPromptTexts ==
  ASSUME Base, TextInv, NEW r \in 1..used, NextPrompt(r) PROVE TextInv'
<1>1. CASE stopping
  BY <1>1, StoppedTexts
<1>2. CASE ~stopping
  <2> DEFINE x == [run[r] EXCEPT !.endCheck = FALSE]
  <2>1. /\ run' = [run EXCEPT ![r] = RunTurn(x)] /\ got' = PromptGot(run[r], run[r].unsent) /\ writes' = writes
        /\ run[r].pc = "check" /\ run[r].steering = {} /\ ~run[r].quiet
        /\ answers' = answers /\ stored' = stored /\ used' = used /\ last' = last /\ ends' = ends /\ end' = end
        /\ cur' = cur /\ msg' = msg /\ unsure' = unsure
    BY <1>2 DEF NextPrompt, chat, table
  <2>2. TypeInv /\ run[r] \in RunRecord /\ Form(run[r])
    BY Registry DEF TypeInv, Base, TextInv, FormInv
  <2>3. x \in RunRecord /\ Steady(run[r], x)
    BY <2>2 DEF RunRecord, Steady, Connected, Dead
  <2> HIDE DEF x
  <2> PICK y : y = RunTurn(x)
    OBVIOUS
  <2>4. Carries(x, y) /\ y.unsent = <<>> /\ y.turning = x.turning /\ y.pc \in {"prompt", "over"}
    BY <2>3, RunTurnFields
  <2>5. Carries(run[r], y) /\ y.turning = run[r].turning /\ run' = [run EXCEPT ![r] = y]
    <3>1. Carries(run[r], x)
      BY <2>3, SteadyCarries
    <3> QED  BY <2>1, <2>3, <2>4, <3>1, CarriesOn DEF Steady
  <2>6. Holder(r) /\ cur = r /\ stored
    BY <2>1, TurnHolds
  <2>7. Lines(run[r], y) /\ (Dead(run[r]) => Dead(y))
    BY <2>1, <2>4, <2>5 DEF Lines, Carries
  <2>8. Form(y) /\ ~Anew(y) /\ y.steering = {} /\ y.injected = {}
    <3>1. run[r].injected = {}
      BY <2>1, <2>2 DEF Form
    <3> QED  BY <2>1, <2>2, <2>4, <2>5, <3>1 DEF Form, Anew, Opening, BeforeSession, Talking, Carries
  <2>9. CallsStay /\ (\A t \in Texts : Fresh(t)' => Fresh(t)) /\ (end'.st = "turn" => end'.run = last)
    BY <2>1, MsgStays DEF TextInv, LineInv
  <2>10. LineInv'
    BY <2>1, <2>2, <2>5, <2>6, <2>7, <2>9, LineOne DEF TextInv
  <2>11. CallsOnce'
    BY <2>1, <2>2, <2>9, AddsNone, CallsAdd DEF TextInv, OnceInv
  <2>12. ToSet(y.unsent) = {} /\ NoDup(y.unsent) /\ y.unsent \in Seq(Texts) /\ Ahead(y) = {}
    BY <2>4, <2>8 DEF ToSet, NoDup, Ahead
  <2>13. NoDup(run[r].unsent) /\ run[r].unsent \in Seq(Texts) /\ (\A t \in ToSet(run[r].unsent) : Ungot(t))
    <3>1. run[r].injected = {}
      BY <2>1, <2>2 DEF Form
    <3> QED  BY <2>2, <2>6, <3>1 DEF TextInv, OnceInv, UnsentOnce, GotInv, HolderUngot, RunRecord
  <2>14. \A t \in Texts : Fresh(t) => t \notin ToSet(run[r].unsent)
    BY DEF TextInv, FreshInv, Has
  <2>15. PICK batch \in Seq(Texts) :
           NoDup(batch) /\ ToSet(batch) \subseteq ToSet(run[r].unsent) /\ got' = GotBy(batch)
    BY <2>1, <2>2, <2>13, PromptGives
  <2>16. /\ \A t \in ToSet(batch) : Ungot(t)
         /\ \A t \in Texts : Fresh(t)' => Fresh(t) /\ t \notin ToSet(batch) \union ToSet(y.unsent) \union y.steering
    BY <2>8, <2>9, <2>12, <2>13, <2>14, <2>15
  <2> QED  BY <2>1, <2>5, <2>6, <2>7, <2>8, <2>9, <2>10, <2>11, <2>12, <2>15, <2>16, SendOn
<1> QED  BY <1>1, <1>2

\* The agent takes the text of a steer.
LEMMA InjectTexts ==
  ASSUME Base, TextInv, NEW r \in 1..used, NEW t \in Texts, AgentInjects(r, t) PROVE TextInv'
<1> DEFINE y == [run[r] EXCEPT !.injected = run[r].injected \union {t}]
<1>1. TypeInv /\ run[r] \in RunRecord /\ Form(run[r])
  BY Registry DEF TypeInv, Base, TextInv, FormInv
<1>2. /\ run' = [run EXCEPT ![r] = y] /\ got' = GotBy(<<t>>) /\ writes' = writes
      /\ t \in run[r].steering /\ t \notin run[r].injected /\ Connected(run[r])
      /\ answers' = answers /\ stored' = stored /\ used' = used /\ last' = last /\ ends' = ends /\ end' = end
      /\ cur' = cur /\ msg' = msg /\ unsure' = unsure
  BY DEF AgentInjects, chat, table, TypeInv, TypeOK
<1>3. /\ y.steering = run[r].steering /\ y.injected = run[r].injected \union {t} /\ y.created = run[r].created
      /\ y.prev = run[r].prev /\ y.awaits = run[r].awaits /\ y.reopened = run[r].reopened /\ y.proc = run[r].proc
      /\ y.reaches = run[r].reaches /\ y.pickRelaunch = run[r].pickRelaunch /\ y.session = run[r].session
      /\ y.pc = run[r].pc /\ y.unsent = run[r].unsent /\ y.turning = run[r].turning /\ y.quiet = run[r].quiet
  BY <1>1 DEF RunRecord
<1> HIDE DEF y
<1>4. Holder(r) /\ stored
  BY <1>2, AtPlaceHolds DEF TextInv, StoredInv, Unstored
<1>5. Lines(run[r], y) /\ (Dead(run[r]) => Dead(y)) /\ (Off(run[r]) => Off(y))
  BY <1>3 DEF Lines, Dead, Off
<1>6. Form(y) /\ ~Anew(y)
  <2>1. Form(y)
    BY <1>1, <1>2, <1>3 DEF Form, Connected
  <2>2. ~Anew(y)
    BY <1>1, <1>2, <1>3 DEF Form, Anew, Talking
  <2> QED  BY <2>1, <2>2
<1>7. CallsStay /\ (\A u \in Texts : Fresh(u)' => Fresh(u)) /\ (end'.st = "turn" => end'.run = last)
  BY <1>2, MsgStays DEF TextInv, LineInv
<1>8. LineInv'
  BY <1>1, <1>2, <1>5, <1>7, LineOne DEF TextInv
<1>9. CallsOnce'
  BY <1>1, <1>2, <1>7, AddsNone, CallsAdd DEF TextInv, OnceInv
<1>10. <<t>> \in Seq(Texts) /\ NoDup(<<t>>) /\ ToSet(<<t>>) = {t}
  BY DEF NoDup, ToSet
<1>11. Ungot(t)
  BY <1>2 DEF TextInv, GotInv, SteersUngot
<1>12. \A u \in Ahead(y) : u \notin ToSet(<<t>>) /\ Ungot(u)
  <2>1. \A u \in run[r].steering \ run[r].injected : Ungot(u)
    BY DEF TextInv, GotInv, SteersUngot
  <2>2. \A u \in ToSet(run[r].unsent) \ run[r].injected : Ungot(u)
    BY <1>4 DEF TextInv, GotInv, HolderUngot
  <2> QED  BY <1>3, <1>10, <2>1, <2>2 DEF Ahead
<1>13. \A u \in Texts : Fresh(u) => u \notin ToSet(<<t>>) \union ToSet(y.unsent) \union y.steering
  BY <1>2, <1>3, <1>10 DEF TextInv, FreshInv, Has
<1>14. NoDup(y.unsent) /\ y.unsent \in Seq(Texts) /\ y.steering \subseteq Texts
  BY <1>1, <1>3 DEF TextInv, OnceInv, UnsentOnce, RunRecord
<1>15. \A u \in ToSet(<<t>>) : Ungot(u)
  BY <1>10, <1>11
<1> QED  BY <1>2, <1>4, <1>5, <1>6, <1>7, <1>8, <1>9, <1>10, <1>12, <1>13, <1>14, <1>15, SendOn

\* A message that begins a turn takes every text that waits.
LEMMA StartTurnTexts ==
  ASSUME Base, TextInv, NEW t \in Texts, StartTurn(t) PROVE TextInv'
<1> DEFINE v == run[cur]
           z == [v EXCEPT !.turning = TRUE, !.job = FALSE, !.own = FALSE, !.ownStopped = FALSE]
           w == Touch(StaleAll(z))
           taken == Append(v.unsent, t)
<1>1. TypeInv /\ cur \in 1..used /\ v \in RunRecord /\ Form(v) /\ cur # NoRun
  BY Registry DEF TypeInv, Base, TextInv, FormInv, StartTurn
<1>2. /\ run' = [run EXCEPT ![cur] = RunTurn(w)] /\ got' = PromptGot(v, taken)
      /\ writes' = Append(writes, WThen(UserEvent(t), cur, "call"))
      /\ ~v.turning /\ Sent(t) /\ msg' = [msg EXCEPT ![t].st = "call"]
      /\ answers' = answers /\ stored' = stored /\ used' = used /\ last' = last /\ ends' = ends /\ end' = end
      /\ cur' = cur /\ unsure' = unsure
  BY DEF StartTurn, chat, table
<1>3. z \in RunRecord /\ Carries(v, z) /\ z.turning
  BY <1>1, ZenonT(30) DEF RunRecord, Carries, Connected, Dead
<1> HIDE DEF z
<1>4. w \in RunRecord /\ Carries(z, w) /\ w.turning = z.turning
  <2>1. StaleAll(z) \in RunRecord /\ Steady(z, StaleAll(z))
    BY <1>3, StaleType, StaleSteady
  <2>2. w \in RunRecord /\ Steady(StaleAll(z), w)
    BY <2>1, TouchType, TouchSteady
  <2>3. Steady(z, w)
    BY <2>1, <2>2, SteadyOn
  <2> QED  BY <2>2, <2>3, SteadyCarries DEF Steady
<1> HIDE DEF w
<1> PICK y : y = RunTurn(w)
  OBVIOUS
<1>5. Carries(w, y) /\ y.unsent = <<>> /\ y.turning = w.turning /\ y.pc \in {"prompt", "over"}
  BY <1>4, RunTurnFields
<1>6. Carries(v, y) /\ y.turning
  BY <1>3, <1>4, <1>5, CarriesOn
<1>7. v = run[cur]
  OBVIOUS
<1> HIDE DEF v
<1>8. v.pc \in {"idle", "over"}
  BY <1>1, <1>2, <1>7 DEF Base, PlaceInv, TurnsFit, TurnFits
<1>9. Holder(cur) /\ stored
  <2>1. ~Waits(cur)
    BY <1>7, <1>8 DEF Waits
  <2>2. stored
    BY <1>1, <1>2, <1>7 DEF TextInv, StoredInv, Unstored
  <2> QED  BY <1>1, <2>1, <2>2, CurIsHolder DEF TextInv
<1>10. v.steering = {} /\ v.injected = {}
  BY <1>1, <1>2 DEF Form
<1>11. Lines(v, y) /\ (Dead(v) => Dead(y))
  BY <1>5, <1>6, <1>8 DEF Lines, Carries
<1>12. Form(y) /\ ~Anew(y) /\ y.steering = {} /\ y.injected = {}
  BY <1>1, <1>5, <1>6, <1>10 DEF Form, Anew, Opening, BeforeSession, Talking, Carries
<1>13. Fresh(t) /\ msg[t].st \notin {"write", "call"}
  BY <1>2 DEF Sent, Fresh
<1>14. msg'[t].st = "call" /\ \A u \in Texts \ {t} : msg'[u] = msg[u]
  BY <1>1, <1>2 DEF TypeInv, TypeOK, Message
<1>15. \A u \in Texts : Fresh(u)' => Fresh(u) /\ u # t
  BY <1>14 DEF Fresh
<1>16. ~Has(t)
  BY <1>13 DEF TextInv, FreshInv
<1>17. end'.st = "turn" => end'.run = last
  BY <1>2 DEF TextInv, LineInv
<1>18. run' = [run EXCEPT ![cur] = y]
  BY <1>2
<1>19. LineInv'
  BY <1>1, <1>2, <1>7, <1>11, <1>17, <1>18, LineOne DEF TextInv
<1>20. CallsOnce'
  <2>1. msg'[t].st = (IF "call" = "call" THEN "call" ELSE "write") /\ t \notin ToSet(answers.unanswered)
    BY <1>14, <1>16 DEF Has
  <2> QED  BY <1>1, <1>2, <1>13, <1>14, <2>1, CallsAppend DEF TextInv, OnceInv
<1>21. NoDup(v.unsent) /\ v.unsent \in Seq(Texts) /\ (\A u \in ToSet(v.unsent) : Ungot(u)) /\ t \notin ToSet(v.unsent)
  BY <1>1, <1>7, <1>9, <1>10, <1>16 DEF TextInv, OnceInv, UnsentOnce, GotInv, HolderUngot, RunRecord, Has
<1>22. NoDup(taken) /\ taken \in Seq(Texts) /\ ToSet(taken) = ToSet(v.unsent) \union {t}
  BY <1>21, AppendOnce
<1> HIDE DEF taken
<1>23. \A u \in ToSet(taken) : Ungot(u)
  BY <1>16, <1>21, <1>22 DEF Has, Ungot
<1>24. ToSet(y.unsent) = {} /\ NoDup(y.unsent) /\ y.unsent \in Seq(Texts) /\ Ahead(y) = {}
  BY <1>5, <1>12 DEF ToSet, NoDup, Ahead
<1>25. \A u \in Texts : Fresh(u)' => Fresh(u) /\ u \notin ToSet(taken) \union ToSet(y.unsent) \union y.steering
  <2>1. \A u \in Texts : Fresh(u) => u \notin ToSet(v.unsent)
    BY <1>1, <1>7 DEF TextInv, FreshInv, Has
  <2> QED  BY <1>12, <1>15, <1>22, <1>24, <2>1
<1>26. PICK batch \in Seq(Texts) : NoDup(batch) /\ ToSet(batch) \subseteq ToSet(taken) /\ got' = GotBy(batch)
  BY <1>1, <1>2, <1>22, PromptGives
<1>27. /\ \A u \in ToSet(batch) : Ungot(u)
       /\ \A u \in Texts : Fresh(u)' => Fresh(u) /\ u \notin ToSet(batch) \union ToSet(y.unsent) \union y.steering
  BY <1>23, <1>25, <1>26
<1> QED  BY <1>1, <1>2, <1>7, <1>9, <1>11, <1>12, <1>18, <1>19, <1>20, <1>24, <1>26, <1>27, SendOn

\* A message to a turn waits for the next prompt, or steers the turn.
LEMMA JoinTurnTexts ==
  ASSUME Base, TextInv, NEW t \in Texts, JoinTurn(t) PROVE TextInv'
<1> DEFINE v == run[cur]
           steers == IF ~v.cancelAsked /\ Connected(v) THEN v.steering \union {t} ELSE v.steering
           taken == Append(v.unsent, t)
           z == [v EXCEPT !.unsent = taken, !.job = FALSE, !.own = FALSE, !.steering = steers]
<1>1. TypeInv /\ cur \in 1..used /\ v \in RunRecord /\ Form(v) /\ cur # NoRun
  BY Registry DEF TypeInv, Base, TextInv, FormInv, JoinTurn
<1>2. /\ run' = [run EXCEPT ![cur] = Touch(z)]
      /\ writes' = Append(writes, WThen(UserEvent(t), cur, "call"))
      /\ ~v.pickRelaunch /\ v.turning /\ v.reaches /\ Sent(t) /\ msg' = [msg EXCEPT ![t].st = "call"]
      /\ answers' = answers /\ stored' = stored /\ used' = used /\ last' = last /\ ends' = ends /\ end' = end
      /\ cur' = cur /\ unsure' = unsure /\ got' = got
  BY DEF JoinTurn, chat, table, history
<1>3. v.pc \in Talking
  BY <1>1, <1>2 DEF Form
<1>4. ~Has(t) /\ Fresh(t) /\ msg[t].st \notin {"write", "call"}
  BY <1>2 DEF Sent, Fresh, TextInv, FreshInv
<1>5. v.unsent \in Seq(Texts) /\ NoDup(v.unsent) /\ t \notin ToSet(v.unsent)
  BY <1>1, <1>4 DEF RunRecord, TextInv, OnceInv, UnsentOnce, Has
<1>6. taken \in Seq(Texts) /\ NoDup(taken) /\ ToSet(taken) = ToSet(v.unsent) \union {t}
  BY <1>5, AppendOnce
<1>7. steers \subseteq v.steering \union {t} /\ v.steering \subseteq steers /\ (steers # v.steering => Connected(v))
  OBVIOUS
<1>8. steers \in SUBSET Texts
  BY <1>1, <1>7 DEF RunRecord
<1> HIDE DEF taken, steers
<1>9. z \in RunRecord
  BY <1>1, <1>6, <1>8 DEF RunRecord
<1>10. /\ z.unsent = taken /\ z.steering = steers /\ z.injected = v.injected /\ z.created = v.created
       /\ z.prev = v.prev /\ z.awaits = v.awaits /\ z.reopened = v.reopened /\ z.pc = v.pc /\ z.proc = v.proc /\ z.turning = v.turning
       /\ z.reaches = v.reaches /\ z.pickRelaunch = v.pickRelaunch /\ z.session = v.session
  BY <1>1 DEF RunRecord
<1> HIDE DEF z
<1> PICK y : y = Touch(z)
  OBVIOUS
<1>11. Steady(z, y)
  BY <1>9, TouchSteady
<1>12. v = run[cur]
  OBVIOUS
<1> HIDE DEF v
<1>13. /\ y.unsent = taken /\ y.steering = steers /\ y.injected = v.injected /\ y.created = v.created
       /\ y.prev = v.prev /\ y.awaits = v.awaits /\ y.reopened = v.reopened /\ y.pc = v.pc /\ y.turning = v.turning
       /\ y.reaches = v.reaches /\ y.pickRelaunch = v.pickRelaunch /\ y.session = v.session
       /\ (Connected(y) <=> Connected(v)) /\ (Dead(v) => Dead(y))
  BY <1>10, <1>11 DEF Steady, Connected, Dead
<1>14. Holder(cur) /\ stored
  <2>1. ~Waits(cur)
    BY <1>3, <1>12 DEF Waits, Talking
  <2>2. stored
    BY <1>1, <1>2, <1>12 DEF TextInv, StoredInv, Unstored
  <2> QED  BY <1>1, <2>1, <2>2, CurIsHolder DEF TextInv
<1>15. Lines(v, y)
  BY <1>13 DEF Lines
<1>16. Form(y) /\ ~Anew(y)
  <2>1. steers # {} => Connected(v)
    BY <1>1, <1>7 DEF Form
  <2>2. v.injected \subseteq steers
    BY <1>1, <1>7 DEF Form
  <2> QED  BY <1>1, <1>2, <1>3, <1>13, <2>1, <2>2 DEF Form, Anew, Opening, BeforeSession, Talking
<1>17. msg'[t].st = "call" /\ \A u \in Texts \ {t} : msg'[u] = msg[u]
  BY <1>1, <1>2 DEF TypeInv, TypeOK, Message
<1>18. end'.st = "turn" => end'.run = last
  BY <1>2 DEF TextInv, LineInv
<1>19. run' = [run EXCEPT ![cur] = y]
  BY <1>2
<1>20. LineInv'
  BY <1>1, <1>2, <1>12, <1>13, <1>15, <1>18, <1>19, LineOne DEF TextInv
<1>21. CallsOnce'
  <2>1. msg'[t].st = (IF "call" = "call" THEN "call" ELSE "write") /\ t \notin ToSet(answers.unanswered)
    BY <1>4, <1>17 DEF Has
  <2> QED  BY <1>1, <1>2, <1>4, <1>17, <2>1, CallsAppend DEF TextInv, OnceInv
<1>22. <<>> \in Seq(Texts) /\ NoDup(<<>>) /\ ToSet(<<>>) = {} /\ got' = GotBy(<<>>)
  <2>1. got' = GotBy(<<>>)
    BY <1>1, <1>2, GotByNone
  <2> QED  BY <2>1 DEF NoDup, ToSet
<1>23. \A u \in Ahead(y) : u \notin ToSet(<<>>) /\ Ungot(u)
  <2>1. \A u \in v.steering \ v.injected : Ungot(u)
    BY <1>1, <1>12 DEF TextInv, GotInv, SteersUngot
  <2>2. \A u \in ToSet(v.unsent) \ v.injected : Ungot(u)
    BY <1>12, <1>14 DEF TextInv, GotInv, HolderUngot, Holder
  <2>3. Ungot(t)
    BY <1>4 DEF Has, Ungot
  <2> QED  BY <1>6, <1>7, <1>13, <1>22, <2>1, <2>2, <2>3 DEF Ahead
<1>24. \A u \in Texts : Fresh(u)' => Fresh(u) /\ u \notin ToSet(<<>>) \union ToSet(y.unsent) \union y.steering
  <2>1. \A u \in Texts : Fresh(u)' => Fresh(u) /\ u # t
    BY <1>17 DEF Fresh
  <2>2. \A u \in Texts : Fresh(u) => u \notin ToSet(v.unsent) \union v.steering
    BY <1>1, <1>12 DEF TextInv, FreshInv, Has
  <2> QED  BY <1>6, <1>7, <1>13, <1>22, <2>1, <2>2
<1>25. NoDup(y.unsent) /\ y.unsent \in Seq(Texts) /\ y.steering \subseteq Texts
  BY <1>6, <1>8, <1>13
<1>26. \A u \in ToSet(<<>>) : Ungot(u)
  BY <1>22
<1> QED  BY <1>1, <1>2, <1>12, <1>14, <1>15, <1>16, <1>19, <1>20, <1>21, <1>22, <1>23, <1>24, <1>25, <1>26, SendOn

-----------------------------------------------------------------------------
(* A new run, at the end of the line. *)

\* A record with nothing in it yet.
Blank(x) ==
  /\ x.pc = "reopen" /\ x.proc = "none" /\ x.unsent = <<>> /\ x.steering = {} /\ x.injected = {}
  /\ ~x.created /\ x.turning /\ ~x.reaches /\ ~x.session

LEMMA RegisterTexts ==
  ASSUME TypeInv, TextInv, cur = NoRun, Accepts, NEW x \in RunRecord, Blank(x), Register(x),
         answers' = answers, stored' = stored, history' = history, ends' = ends, end' = end, writes' = writes,
         CallsStay, \A t \in Texts : Fresh(t)' => Fresh(t)
  PROVE  TextInv'
<1> PICK n : n = used + 1
  OBVIOUS
<1> PICK y : y = Registered(x)
  OBVIOUS
<1>1. used \in Nat /\ n = used + 1 /\ used' = n /\ cur' = n /\ last' = n /\ n \in Runs /\ run \in [Runs -> RunRecord]
      /\ run' = [run EXCEPT ![n] = y] /\ last = used
  BY RunnerAssumption DEF TypeInv, TypeOK, Register, Runs, TextInv, LineInv
<1>2. Blank(y) /\ y.prev = used /\ y.awaits = ends /\ y.reopened = "wait"
  BY <1>1 DEF Registered, RunRecord, Blank
<1>3. run'[n] = y /\ \A r \in 1..used : run'[r] = run[r]
  BY <1>1
<1>4. \A r \in 1..n : r = n \/ r \in 1..used
  BY <1>1
<1>5. got' = got /\ cancelled' = cancelled /\ unsure' = unsure
  BY DEF history
<1>6. Waits(n)' /\ (\A r \in 1..used : Waits(r)' <=> Waits(r))
  BY <1>2, <1>3 DEF Waits, Blank
<1>7. ASSUME NEW r PROVE Holder(r)' <=> Holder(r)
  <2>1. n \in 1..used' /\ used' = n /\ 1..used \subseteq 1..n /\ \A s \in 1..used : s < n
    BY <1>1
  <2>2. Holder(r)' => Holder(r)
    BY <1>4, <1>6, <2>1 DEF Holder
  <2>3. Holder(r) => Holder(r)'
    BY <1>4, <1>6, <2>1 DEF Holder
  <2> QED  BY <2>2, <2>3
<1>8. LineInv'
  <2>1. ASSUME NEW r \in 1..n PROVE run'[r].prev = r - 1 /\ (Waits(r)' => run'[r].awaits = ends /\ run'[r].reopened = "wait")
    <3>1. CASE r = n
      <4>1. used = r - 1
        BY <1>1, <3>1
      <4> QED  BY <1>2, <1>3, <3>1, <4>1
    <3>2. CASE r \in 1..used
      <4>1. run'[r] = run[r] /\ (Waits(r)' <=> Waits(r))
        BY <1>3, <1>6, <3>2
      <4> QED  BY <3>2, <4>1 DEF TextInv, LineInv
    <3> QED  BY <1>4, <3>1, <3>2
  <2>3. ASSUME NEW r \in 1..n, NEW s \in 1..n, r < s, Waits(r)' PROVE Waits(s)'
    <3>1. r \in 1..used
      BY <1>1, <1>4, <2>3
    <3> QED  BY <1>4, <1>6, <2>3, <3>1 DEF TextInv, LineInv
  <2>4. ASSUME NEW r \in 1..n, NEW s \in 1..n, r < s, ~Waits(s)' PROVE Dead(run'[r])
    <3>1. r \in 1..used /\ s \in 1..used
      BY <1>1, <1>4, <1>6, <2>4
    <3> QED  BY <1>3, <1>6, <2>4, <3>1 DEF TextInv, LineInv
  <2>5. \A r \in 1..n : r # n => Off(run'[r])
    BY <1>1, <1>3, <1>4 DEF TextInv, LineInv, NoRun
  <2>6. end'.st # "turn"
    BY DEF Accepts
  <2>7. used' = n /\ cur' = n /\ last' = n /\ ends' = ends
    BY <1>1
  <2>8. \A r, s \in 1..n : r < s /\ Waits(r)' => Waits(s)'
    BY <2>3
  <2>9. \A r, s \in 1..n : r < s /\ ~Waits(s)' => Dead(run'[r])
    BY <2>4
  <2>10. \A r \in 1..n : run'[r].prev = r - 1 /\ (Waits(r)' => run'[r].awaits = ends /\ run'[r].reopened = "wait")
    BY <2>1
  <2> QED  BY <2>5, <2>6, <2>7, <2>8, <2>9, <2>10 DEF LineInv, Waits, Dead, Off
<1>9. FormInv'
  <2>1. Form(y)
    BY <1>2 DEF Form, Blank, Opening, BeforeSession, Connected
  <2> QED  BY <1>1, <1>3, <1>4, <2>1 DEF TextInv, FormInv
<1>10. StoredInv'
  <2> SUFFICES ASSUME ~stored
               PROVE  /\ ~answers.answered /\ cancelled = {} /\ \A t \in Texts : got[t] = 0
                      /\ \A r \in 1..n : Unstored(run'[r])
                      /\ Unspoken'
    BY <1>1, <1>5 DEF StoredInv
  <2>1. Unstored(y)
    BY <1>2 DEF Unstored, Blank
  <2>2. Unspoken'
    BY DEF TextInv, StoredInv, Unspoken
  <2> QED  BY <1>1, <1>3, <1>4, <2>1, <2>2 DEF TextInv, StoredInv
<1>11. ToSet(y.unsent) = {}
  BY <1>2 DEF ToSet, Blank
<1>12. FreshInv'
  <2> SUFFICES ASSUME NEW t \in Texts, Fresh(t)', Has(t)' PROVE FALSE
    BY DEF FreshInv
  <2>1. ~Has(t)
    BY DEF TextInv, FreshInv
  <2>2. \A r \in 1..n : t \notin ToSet(run'[r].unsent) \union run'[r].steering
    BY <1>1, <1>2, <1>3, <1>4, <1>11, <2>1 DEF Has, Blank
  <2> QED  BY <1>1, <1>5, <2>1, <2>2 DEF Has
<1>13. OnceInv'
  <2>1. ASSUME NEW i \in 1..Len(writes) PROVE UserFits(writes[i])'
    <3>1. UserFits(writes[i]) /\ writes[i] \in Write
      BY DEF TextInv, OnceInv, CallsOnce, TypeInv, TypeOK
    <3>2. CASE IsCall(writes[i])
      <4>1. writes[i].ev.text[1] \in Texts
        BY <3>1, <3>2 DEF UserFits, Write, Event
      <4>2. msg'[writes[i].ev.text[1]].st = msg[writes[i].ev.text[1]].st
        BY <3>1, <3>2, <4>1 DEF UserFits, CallsStay
      <4>3. writes[i].by \in 1..n
        BY <1>1, <3>1, <3>2 DEF UserFits
      <4> QED  BY <1>1, <3>1, <3>2, <4>2, <4>3 DEF UserFits
    <3>3. CASE ~IsCall(writes[i])
      BY <3>1, <3>3 DEF UserFits
    <3> QED  BY <3>2, <3>3
  <2>2. CallsOnce'
    <3>1. \A i \in 1..Len(writes) : UserFits(writes[i])'
      BY <2>1
    <3> QED  BY <3>1 DEF TextInv, OnceInv, CallsOnce
  <2>3. NoDup(y.unsent)
    BY <1>2 DEF NoDup, Blank
  <2> QED  BY <1>1, <1>3, <1>4, <2>2, <2>3 DEF TextInv, OnceInv, UnsentOnce
<1>14. GotInv'
  <2>1. \A t : Ungot(t)' <=> Ungot(t)
    BY <1>5 DEF Ungot
  <2>2. NoTextTwice'
    BY <1>5 DEF TextInv, GotInv, NoTextTwice
  <2>3. SteersUngot'
    BY <1>1, <1>2, <1>3, <1>4, <2>1 DEF TextInv, GotInv, SteersUngot, Blank
  <2>4. HolderUngot'
    BY <1>1, <1>3, <1>4, <1>7, <1>11, <2>1 DEF TextInv, GotInv, HolderUngot
  <2>5. AnewUngot'
    <3>1. ~Anew(y)
      BY <1>2 DEF Anew, Blank
    <3> QED  BY <1>1, <1>3, <1>4, <1>5, <1>7, <3>1 DEF TextInv, GotInv, AnewUngot
  <2>6. NoneGot'
    <3>1. (\A r \in 1..n : Waits(r)') => \A r \in 1..used : Waits(r)
      BY <1>1, <1>6
    <3> QED  BY <1>1, <1>5, <3>1 DEF TextInv, GotInv, NoneGot, NoCalls
  <2> QED  BY <2>2, <2>3, <2>4, <2>5, <2>6 DEF GotInv
<1> QED  BY <1>8, <1>9, <1>10, <1>12, <1>13, <1>14 DEF TextInv

LEMMA RestartTexts ==
  ASSUME TypeInv, TextInv, NEW t \in Texts, Restart(t) PROVE TextInv'
<1> DEFINE x == Hold(NewRun, t)
<1>1. x \in RunRecord
  BY NewRunType, HoldType
<1>2. Blank(x)
  BY DEF Blank, Hold, NewRun
<1>3. Register(x) /\ cur = NoRun /\ Accepts /\ Sent(t) /\ msg' = HoldCall(t, used + 1, 0)
      /\ answers' = answers /\ stored' = stored /\ history' = history /\ ends' = ends /\ end' = end /\ writes' = writes
  BY DEF Restart, chat
<1> HIDE DEF x
<1>4. CallsStay /\ \A u \in Texts : Fresh(u)' => Fresh(u)
  <2>1. msg' = [msg EXCEPT ![t] = [msg[t] EXCEPT !.st = "wait", !.run = used + 1, !.cancels = 0]]
    BY <1>3 DEF HoldCall
  <2> QED  BY <1>3, <2>1 DEF Sent, CallsStay, Fresh, TypeInv, TypeOK
<1> PICK y : y = x
  OBVIOUS
<1>5. y \in RunRecord /\ Blank(y) /\ Register(y)
  BY <1>1, <1>2, <1>3
<1> QED  BY <1>3, <1>4, <1>5, RegisterTexts

LEMMA PickRelaunchTexts ==
  ASSUME TypeInv, TextInv, PickRelaunches PROVE TextInv'
<1> DEFINE x == [NewRun EXCEPT !.byPick = TRUE, !.pickRelaunch = TRUE]
<1>1. x \in RunRecord
  BY NewRunType DEF RunRecord
<1>2. Blank(x)
  BY DEF Blank, NewRun
<1>3. Register(x) /\ cur = NoRun /\ Accepts /\ msg' = msg
      /\ answers' = answers /\ stored' = stored /\ history' = history /\ ends' = ends /\ end' = end /\ writes' = writes
  BY DEF PickRelaunches, chat
<1>4. CallsStay /\ \A u \in Texts : Fresh(u)' => Fresh(u)
  BY <1>3, MsgStays
<1> QED  BY <1>1, <1>2, <1>3, <1>4, RegisterTexts

-----------------------------------------------------------------------------
(* The first waiting run takes the texts of the run before it. *)

\* No process lives once the wait for the last one is over.
LEMMA NoneLives ==
  ASSUME Base, LineInv, NEW r \in 1..used, Waits(r), EndsResolved(run[r].awaits)
  PROVE  \A s \in 1..used : Dead(run[s])
<1>1. run[r].awaits = ends
  BY DEF LineInv
<1>2. ends # NoRun => run[ends].proc = "ended"
  BY <1>1 DEF EndsResolved
<1> SUFFICES ASSUME NEW s \in 1..used, ~Dead(run[s]) PROVE FALSE
  OBVIOUS
<1>3. s \in Runs /\ run[s].proc \in Live /\ s # NoRun
  BY Registry DEF TypeInv, Base, RunRecord, Processes, Live, Dead, NoRun
<1>4. s = ends
  BY <1>3 DEF Base, StartInv, LiveIsLast
<1> QED  BY <1>2, <1>3, <1>4 DEF Live

\* The record after that step, except for its texts.
Reopened(x, y) ==
  /\ y.pc \in {"interrupt", "over"} /\ y.proc = x.proc /\ y.steering = x.steering /\ y.injected = x.injected
  /\ y.created = x.created /\ y.prev = x.prev /\ y.awaits = x.awaits /\ y.turning = x.turning
  /\ y.reaches = x.reaches /\ y.pickRelaunch = x.pickRelaunch /\ y.session = x.session
  /\ x.quiet => y.quiet
  /\ y.pc = "over" => y.quiet

LEMMA ReopenedFields ==
  ASSUME NEW x \in RunRecord, NEW u
  PROVE  /\ Reopened(x, [[x EXCEPT !.unsent = u] EXCEPT !.pc = "interrupt"])
         /\ Reopened(x, Overtaken([x EXCEPT !.unsent = u]))
         /\ [[x EXCEPT !.unsent = u] EXCEPT !.pc = "interrupt"].unsent = u
         /\ Overtaken([x EXCEPT !.unsent = u]).unsent = u
  BY DEF Reopened, Overtaken, Silence, RunRecord

LEMMA ReopenOn ==
  ASSUME Base, TextInv, NEW r \in 1..used, Waits(r), \A s \in 1..(r - 1) : ~Waits(s),
         \A s \in 1..used : Dead(run[s]),
         NEW y, run' = [run EXCEPT ![r] = y], Reopened(run[r], y), y.unsent \in Seq(Texts),
         y.unsent = <<>> \/ y.unsent = TextsBefore(run[r]),
         used' = used, last' = last, ends' = ends, end' = end, answers' = answers, stored' = stored,
         got' = got, unsure' = unsure, msg' = msg, ~stored => cancelled' = cancelled, Adds,
         cur' = cur \/ (Forget(r) /\ Off(y))
  PROVE  TextInv'
<1>1. /\ TypeInv /\ used \in Nat /\ r \in Nat
      /\ run'[r] = y /\ \A s \in 1..used : s # r => run'[s] = run[s]
  BY Registry DEF Base, TypeInv, TypeOK
<1>2. ~Waits(r)' /\ \A s \in 1..used : s # r => (Waits(s)' <=> Waits(s))
  BY <1>1 DEF Waits, Reopened
<1>3. \A s \in 1..used : s # r => (Waits(s) <=> r < s)
  <2> SUFFICES ASSUME NEW s \in 1..used, s # r PROVE Waits(s) <=> r < s
    OBVIOUS
  <2>1. r < s => Waits(s)
    BY DEF TextInv, LineInv
  <2>2. ~(r < s) => s \in 1..(r - 1)
    BY <1>1
  <2> QED  BY <2>1, <2>2
<1>4. \A s : Holder(s)' => s = r
  <2> SUFFICES ASSUME NEW s, Holder(s)', s # r PROVE FALSE
    OBVIOUS
  <2>1. s \in 1..used /\ ~Waits(s)' /\ \A q \in 1..used : s < q => Waits(q)'
    BY DEF Holder
  <2>2. s < r
    BY <1>1, <1>2, <1>3, <2>1
  <2> QED  BY <1>2, <2>1, <2>2
<1>5. \A s \in 1..used : run'[s].steering = {} /\ run'[s].injected = {}
  <2>1. \A s \in 1..used : run[s].steering = {} /\ run[s].injected = {}
    BY DEF TextInv, FormInv, Form, Connected, Dead
  <2> QED  BY <1>1, <2>1 DEF Reopened
<1>6. LineInv'
  <2>1. \A s \in 1..used : run'[s].prev = s - 1 /\ run'[s].awaits = run[s].awaits
    BY <1>1 DEF Reopened, TextInv, LineInv
  <2>2. \A s \in 1..used : Waits(s)' => run'[s].awaits = ends /\ run'[s].reopened = "wait"
    BY <1>1, <1>2 DEF TextInv, LineInv
  <2>3. \A s, q \in 1..used : s < q /\ Waits(s)' => Waits(q)'
    BY <1>1, <1>2, <1>3
  <2>4. \A s \in 1..used : Dead(run'[s])
    BY <1>1 DEF Reopened, Dead
  <2>5. \A s \in 1..used : s # cur' => Off(run'[s])
    <3> SUFFICES ASSUME NEW s \in 1..used, s # cur' PROVE Off(run'[s])
      OBVIOUS
    <3>1. s # cur => Off(run[s])
      BY DEF TextInv, LineInv
    <3>2. CASE s # r
      BY <1>1, <3>1, <3>2 DEF Forget
    <3>3. CASE s = r
      BY <1>1, <3>1, <3>3 DEF Forget, Off, Reopened
    <3> QED  BY <3>2, <3>3
  <2>6. cur' # NoRun => cur' = last
    BY DEF Forget, TextInv, LineInv
  <2> QED  BY <2>1, <2>2, <2>3, <2>4, <2>5, <2>6 DEF TextInv, LineInv, Waits
<1>7. FormInv'
  <2>1. Form(y)
    <3>1. Form(run[r]) /\ run[r].pc = "reopen" /\ run[r].steering = {}
      BY <1>5, <1>1 DEF TextInv, FormInv, Waits, Reopened
    <3> QED  BY <3>1 DEF Reopened, Form, Opening, BeforeSession, Talking
  <2> QED  BY <1>1, <2>1 DEF TextInv, FormInv
<1>8. StoredInv'
  <2> SUFFICES ASSUME ~stored
               PROVE  /\ ~answers.answered /\ cancelled = {} /\ \A t \in Texts : got[t] = 0
                      /\ \A s \in 1..used : Unstored(run'[s])
                      /\ Unspoken'
    BY DEF StoredInv
  <2>1. Unspoken'
    BY <1>1, UnspokenAdds DEF TextInv, StoredInv
  <2>2. Unstored(y)
    BY DEF TextInv, StoredInv, Unstored, Reopened
  <2> QED  BY <1>1, <2>1, <2>2 DEF TextInv, StoredInv
<1>9. r # 1 => /\ TextsBefore(run[r]) = run[r - 1].unsent /\ r - 1 \in 1..used /\ Holder(r - 1)
  <2> SUFFICES ASSUME r # 1
               PROVE  TextsBefore(run[r]) = run[r - 1].unsent /\ r - 1 \in 1..used /\ Holder(r - 1)
    OBVIOUS
  <2>1. run[r].prev = r - 1 /\ r - 1 \in 1..used /\ r - 1 # NoRun /\ r - 1 # r /\ ~(r < r - 1)
    BY <1>1 DEF TextInv, LineInv, NoRun
  <2>2. \A s \in 1..used : r - 1 < s => s = r \/ r < s
    BY <1>1
  <2> QED  BY <1>3, <2>1, <2>2 DEF TextsBefore, Holder
<1>10. r = 1 => /\ TextsBefore(run[r]) = answers.unanswered /\ answers.unanswered = <<>>
  <2> SUFFICES ASSUME r = 1 PROVE TextsBefore(run[r]) = answers.unanswered /\ answers.unanswered = <<>>
    OBVIOUS
  <2>1. run[r].prev = NoRun
    BY DEF TextInv, LineInv, NoRun
  <2>2. \A s \in 1..used : Waits(s)
    BY <1>1, <1>3
  <2> QED  BY <2>1, <2>2 DEF TextsBefore, TextInv, GotInv, NoneGot
<1>11. ToSet(<<>>) = {} /\ NoDup(<<>>)
  BY DEF ToSet, NoDup
<1>12. y.unsent = <<>> \/ (r - 1 \in 1..used /\ Holder(r - 1) /\ y.unsent = run[r - 1].unsent)
  BY <1>9, <1>10
<1>13. CallsStay /\ (\A t \in Texts : Fresh(t)' => Fresh(t))
  BY MsgStays
<1>14. FreshInv'
  <2> SUFFICES ASSUME NEW t \in Texts, Fresh(t)', Has(t)' PROVE FALSE
    BY DEF FreshInv
  <2>1. ~Has(t)
    BY <1>13 DEF TextInv, FreshInv
  <2>2. t \notin ToSet(y.unsent)
    BY <1>11, <1>12, <2>1 DEF Has
  <2>3. \A s \in 1..used : t \notin ToSet(run'[s].unsent) \union run'[s].steering
    BY <1>1, <1>5, <2>1, <2>2 DEF Has
  <2> QED  BY <2>1, <2>3 DEF Has
<1>15. OnceInv'
  <2>1. CallsOnce'
    BY <1>1, <1>13, CallsAdd DEF TextInv, OnceInv
  <2>2. NoDup(y.unsent)
    BY <1>11, <1>12 DEF TextInv, OnceInv, UnsentOnce
  <2> QED  BY <1>1, <2>1, <2>2 DEF TextInv, OnceInv, UnsentOnce
<1>16. GotInv'
  <2>1. \A t : Ungot(t)' <=> Ungot(t)
    BY DEF Ungot
  <2>2. NoTextTwice'
    BY DEF TextInv, GotInv, NoTextTwice
  <2>3. SteersUngot'
    BY <1>5 DEF SteersUngot
  <2>4. HolderUngot'
    <3> SUFFICES ASSUME NEW t \in ToSet(y.unsent) PROVE Ungot(t)
      BY <1>1, <1>4, <2>1 DEF HolderUngot
    <3>1. r - 1 \in 1..used /\ Holder(r - 1) /\ t \in ToSet(run[r - 1].unsent)
      BY <1>11, <1>12
    <3>2. run[r - 1].injected = {}
      <4>1. r - 1 # r
        BY <1>1
      <4> QED  BY <1>1, <1>5, <3>1, <4>1
    <3> QED  BY <3>1, <3>2 DEF TextInv, GotInv, HolderUngot
  <2>5. AnewUngot'
    <3>1. ~Anew(y)
      <4>1. ~y.created
        BY DEF Reopened, TextInv, FormInv, Form, Waits, BeforeSession
      <4> QED  BY <4>1 DEF Anew, Reopened
    <3> QED  BY <1>1, <1>4, <3>1 DEF AnewUngot
  <2>6. NoneGot'
    BY <1>2 DEF NoneGot
  <2> QED  BY <2>2, <2>3, <2>4, <2>5, <2>6 DEF GotInv
<1> QED  BY <1>6, <1>7, <1>8, <1>14, <1>15, <1>16 DEF TextInv

LEMMA ReopenTexts ==
  ASSUME Base, TextInv, NEW r \in 1..used, Reopen(r) PROVE TextInv'
<1> DEFINE x == run[r]
           before == TextsBefore(x)
           drops == x.earlyCancels > 0 /\ answers.answered
           u == IF drops THEN <<>> ELSE before
<1>1. TypeInv /\ x \in RunRecord /\ r \in 0..MaxRuns /\ used \in 0..MaxRuns
  BY Registry DEF Base, TypeInv
<1>2. Waits(r) /\ (\A s \in 1..(r - 1) : ~Waits(s)) /\ \A s \in 1..used : Dead(run[s])
  <2>1. Waits(r) /\ EndsResolved(run[r].awaits) /\ \A s \in 1..(r - 1) : ~Waits(s)
    BY DEF Reopen, Waits
  <2> QED  BY <2>1, NoneLives DEF TextInv
<1>3. u \in Seq(Texts)
  <2>1. answers.unanswered \in Seq(Texts) /\ <<>> \in Seq(Texts)
    BY <1>1 DEF TypeInv, TypeOK, Answers
  <2>2. x.prev # NoRun => run[x.prev].unsent \in Seq(Texts)
    <3>1. x.prev = r - 1
      BY DEF TextInv, LineInv
    <3>2. x.prev # NoRun => x.prev \in 1..used
      BY <1>1, <3>1 DEF NoRun
    <3> QED  BY <1>1, <3>2, Registry DEF TypeInv, RunRecord
  <2> QED  BY <2>1, <2>2 DEF TextsBefore
<1>4. u = <<>> \/ u = before
  OBVIOUS
<1>5. /\ used' = used /\ last' = last /\ ends' = ends /\ end' = end /\ answers' = answers /\ stored' = stored
      /\ got' = got /\ unsure' = unsure /\ msg' = msg
  BY DEF Reopen, chat, table
<1>6. ~stored => cancelled' = cancelled
  BY DEF Reopen, TextInv, StoredInv
<1> PICK v : v = u
  OBVIOUS
<1>7. CASE stopping \/ x.quiet
  <2>1. run' = [run EXCEPT ![r] = Overtaken([x EXCEPT !.unsent = v])] /\ Forget(r) /\ writes' = writes
    BY <1>7 DEF Reopen
  <2> PICK y : y = Overtaken([x EXCEPT !.unsent = v])
    OBVIOUS
  <2>2. Reopened(x, y) /\ y.unsent = v
    BY <1>1, ReopenedFields
  <2>3. Adds
    BY <1>1, <2>1, AddsNone
  <2>4. Off(y)
    BY <1>1 DEF Off, Overtaken, Silence, RunRecord
  <2>5. y.unsent \in Seq(Texts) /\ (y.unsent = <<>> \/ y.unsent = TextsBefore(run[r])) /\ Reopened(run[r], y)
        /\ run' = [run EXCEPT ![r] = y]
    BY <1>3, <1>4, <2>1, <2>2
  <2> HIDE DEF x, u
  <2> QED  BY <1>2, <1>5, <1>6, <2>1, <2>3, <2>4, <2>5, ReopenOn
<1>8. CASE ~(stopping \/ x.quiet)
  <2> PICK y : y = [[x EXCEPT !.unsent = v] EXCEPT !.pc = "interrupt"]
    OBVIOUS
  <2>1. run' = [run EXCEPT ![r] = y] /\ writes' = Append(writes, WThen(Plain("interrupted"), r, "reopen"))
        /\ cur' = cur
    BY <1>8 DEF Reopen
  <2>2. Reopened(x, y) /\ y.unsent = v
    <3>1. /\ Reopened(x, [[x EXCEPT !.unsent = v] EXCEPT !.pc = "interrupt"])
          /\ [[x EXCEPT !.unsent = v] EXCEPT !.pc = "interrupt"].unsent = v
      BY <1>1, ReopenedFields, Zenon
    <3> QED  BY <3>1, Zenon
  <2>3. Adds
    <3>1. Plain("interrupted") \in SilentEvents
      BY SilentKinds DEF EventKinds
    <3>2. WThen(Plain("interrupted"), r, "reopen") \in Addable
      BY <1>1, <3>1, SilentAdds DEF Conts
    <3> QED  BY <1>1, <2>1, <3>2, AddsOne
  <2>4. y.unsent \in Seq(Texts) /\ (y.unsent = <<>> \/ y.unsent = TextsBefore(run[r])) /\ Reopened(run[r], y)
    BY <1>3, <1>4, <2>2
  <2> HIDE DEF x, u
  <2> QED  BY <1>2, <1>5, <1>6, <2>1, <2>3, <2>4, ReopenOn
<1> QED  BY <1>7, <1>8

-----------------------------------------------------------------------------
(* The next write is done, or fails. *)

HeadLogged ==
  /\ HeadAnswers
  /\ ~IsCall(Head(writes)) => answers'.unanswered \in {answers.unanswered, <<>>}
  /\ ~stored => ~answers'.answered
HeadTold ==
  /\ \A u \in Texts : msg'[u] = msg[u] \/ (IsCall(Head(writes)) /\ u = HeadText)
  /\ IsCall(Head(writes)) => msg'[HeadText].st \in {"done", "halt"}

\* A write that is done puts its text into the log, or ends the texts before it.
LEMMA LoggedHead ==
  ASSUME TypeInv, TextInv, writes # <<>>, Logged(Head(writes).ev) PROVE HeadLogged
<1>1. CallsOnce
  BY DEF TextInv, OnceInv
<1>2. answers.unanswered \in Seq(Texts)
  BY DEF TypeInv, TypeOK, Answers
<1>3. HeadAnswers
  <2>1. NoDup(answers'.unanswered)
    BY <1>1, LoggedAnswers
  <2>2. CASE IsCall(Head(writes))
    <3>1. answers'.unanswered = Append(answers.unanswered, HeadText) /\ HeadText \in Texts
      BY <1>1, <2>2, LoggedAnswers, HeadFits
    <3> QED  BY <1>2, <2>1, <2>2, <3>1, AppendOnce DEF HeadAnswers
  <2>3. CASE ~IsCall(Head(writes))
    <3>1. answers'.unanswered \in {answers.unanswered, <<>>}
      BY <1>1, <2>3, LoggedAnswers
    <3>2. ToSet(<<>>) = {}
      BY DEF ToSet
    <3> QED  BY <2>1, <2>3, <3>1, <3>2 DEF HeadAnswers
  <2> QED  BY <2>2, <2>3
<1>4. ASSUME ~stored PROVE ~answers'.answered
  <2>1. ~answers.answered /\ Unspoken
    BY <1>4 DEF TextInv, StoredInv
  <2>2. ~IsAnswer(Head(writes).ev)
    BY <1>1, <2>1, HeadFits DEF Unspoken
  <2> QED  BY <1>1, <2>1, <2>2, LoggedAnswers
<1> QED  BY <1>1, <1>3, <1>4, LoggedAnswers DEF HeadLogged

\* A write that failed is not in the log.
LEMMA UnloggedHead ==
  ASSUME TypeInv, TextInv, answers' = answers PROVE HeadLogged
<1>1. NoDup(answers.unanswered)
  BY DEF TextInv, OnceInv, CallsOnce
<1>2. ~stored => ~answers.answered
  BY DEF TextInv, StoredInv
<1> QED  BY <1>1, <1>2 DEF HeadLogged, HeadAnswers

LEMMA TailOn ==
  ASSUME TypeInv, TextInv, used' = used, got' = got, unsure' = unsure,
         writes # <<>>, writes' = Tail(writes), HeadLogged, HeadTold,
         RunsLine, RunsLess, LineInv',
         ~stored' => ~stored /\ cancelled' = cancelled /\ \A r \in 1..used : Unstored(run[r]) => Unstored(run'[r])
  PROVE  TextInv'
<1>1. CallsOnce /\ StoredInv /\ NoneGot
  BY DEF TextInv, OnceInv, GotInv
<1>2. HeadMessages
  BY DEF HeadTold, HeadMessages
<1>3. CallsOnce'
  BY <1>1, <1>2, CallsTail DEF HeadLogged
<1>4. Fresher
  <2> SUFFICES ASSUME NEW t \in Texts, Fresh(t)'
               PROVE  Fresh(t) /\ (t \in ToSet(answers'.unanswered) => t \in ToSet(answers.unanswered))
    BY DEF Fresher
  <2>1. ~(IsCall(Head(writes)) /\ t = HeadText)
    BY DEF HeadTold, Fresh
  <2>2. msg'[t] = msg[t]
    BY <2>1 DEF HeadTold
  <2> QED  BY <2>1, <2>2 DEF HeadLogged, HeadAnswers, Fresh
<1>5. StoredInv'
  <2> SUFFICES ASSUME ~stored'
               PROVE  /\ ~answers'.answered /\ cancelled' = {} /\ \A t \in Texts : got'[t] = 0
                      /\ \A r \in 1..used : Unstored(run'[r])
                      /\ Unspoken'
    BY DEF StoredInv
  <2>1. Unspoken'
    BY <1>1, UnspokenTail DEF StoredInv
  <2> QED  BY <1>1, <2>1 DEF StoredInv, HeadLogged
<1>6. NoneGot'
  <2> SUFFICES ASSUME \A r \in 1..used : Waits(r)'
               PROVE  answers'.unanswered = <<>> /\ NoCalls' /\ \A t \in Texts : got'[t] = 0
    BY DEF NoneGot
  <2>1. \A r \in 1..used : Waits(r)
    BY DEF Waits, RunsLine, Lines
  <2>2. answers.unanswered = <<>> /\ NoCalls /\ \A t \in Texts : got[t] = 0
    BY <1>1, <2>1 DEF NoneGot
  <2>3. ~IsCall(Head(writes))
    BY <1>1, <2>2, HeadFits DEF NoCalls
  <2>4. NoCalls'
    <3>1. writes \in Seq(Write)
      BY DEF TypeInv, TypeOK
    <3>2. Len(writes') = Len(writes) - 1 /\ \A i \in 1..Len(writes') : writes'[i] = writes[i + 1] /\ i + 1 \in 1..Len(writes)
      BY <3>1
    <3> QED  BY <2>2, <3>2 DEF NoCalls
  <2> QED  BY <2>2, <2>3, <2>4 DEF HeadLogged
<1>7. unsure \subseteq unsure'
  OBVIOUS
<1> QED  BY <1>3, <1>4, <1>5, <1>6, <1>7, TextOn

\* The runs of a step that glides.
LEMMA GlideLine ==
  ASSUME LineInv, used' = used, last' = last, ends' = ends, cur' \in {cur, NoRun}, cur' # cur => Off(run'[cur]),
         end'.st = "turn" => end' = end, RunsGlide
  PROVE  LineInv' /\ RunsLine /\ RunsLess /\ \A r \in 1..used : Unstored(run[r]) => Unstored(run'[r])
<1>1. \A r \in 1..used : Lines(run[r], run'[r]) /\ Less(run[r], run'[r], unsure') /\ (Off(run[r]) => Off(run'[r]))
                         /\ (Dead(run[r]) => Dead(run'[r]))
  BY GlidesParts DEF RunsGlide
<1>2. RunsLine /\ RunsLess /\ RunsDead
  BY <1>1 DEF RunsLine, RunsLess, RunsDead
<1>3. RunsRest
  BY <1>1 DEF RunsRest, LineInv
<1>4. LineInv'
  <2>1. end'.st = "turn" => end'.run = last
    BY DEF LineInv
  <2> QED  BY <1>2, <1>3, <2>1, LineOn
<1> QED  BY <1>2, <1>4 DEF RunsGlide, Glides

LEMMA TailGlides ==
  ASSUME TypeInv, TextInv, used' = used, last' = last, ends' = ends, cur' \in {cur, NoRun},
         cur' # cur => Off(run'[cur]), end'.st = "turn" => end' = end, RunsGlide,
         got' = got, unsure' = unsure, cancelled' = cancelled, stored' = stored,
         writes # <<>>, writes' = Tail(writes), HeadLogged, HeadTold
  PROVE  TextInv'
<1>1. LineInv' /\ RunsLine /\ RunsLess /\ \A r \in 1..used : Unstored(run[r]) => Unstored(run'[r])
  BY GlideLine DEF TextInv
<1> QED  BY <1>1, TailOn

LEMMA WriteDoneTexts ==
  ASSUME TypeInv, TextInv, WriteDone PROVE TextInv'
<1>1. /\ used' = used /\ last' = last /\ ends' = ends /\ cur' = cur /\ end' = end /\ stored' = stored
      /\ got' = got /\ unsure' = unsure /\ cancelled' = cancelled
      /\ writes # <<>> /\ writes' = Tail(writes) /\ Logged(Head(writes).ev)
      /\ Head(writes).cont \in {"none", "call", "kill", "end", "close"}
      /\ run' = (IF Head(writes).cont = "kill" THEN [run EXCEPT ![Head(writes).by] = EndProcess(@)] ELSE run)
      /\ msg' = (IF Head(writes).cont = "call" THEN [msg EXCEPT ![HeadText].st = "done"] ELSE msg)
  BY DEF WriteDone, HeadText, table, history
<1>2. HeadLogged
  BY <1>1, LoggedHead
<1>3. HeadTold
  <2>1. IsCall(Head(writes)) <=> Head(writes).cont = "call"
    BY <1>1 DEF IsCall
  <2>2. IsCall(Head(writes)) => HeadText \in Texts
    BY <1>1, HeadFits DEF TextInv, OnceInv
  <2> QED  BY <1>1, <2>1, <2>2 DEF HeadTold, TypeInv, TypeOK, Message
<1>4. RunsGlide
  <2>1. CASE Head(writes).cont = "kill"
    <3> PICK r : r = Head(writes).by
      OBVIOUS
    <3>1. run' = [run EXCEPT ![r] = EndProcess(run[r])]
      BY <1>1, <2>1
    <3>2. r \in 1..used => Glides(run[r], EndProcess(run[r]))
      BY Registry, EndProcessSteady, SteadyGlides DEF TypeInv
    <3> QED  BY <3>1, <3>2, GlideOne
  <2>2. CASE Head(writes).cont # "kill"
    BY <1>1, <2>2, GlideNone
  <2> QED  BY <2>1, <2>2
<1> QED  BY <1>1, <1>2, <1>3, <1>4, TailGlides

\* The result of a start.
LEMMA RoundGlides ==
  ASSUME NEW x \in RunRecord, NEW p \in Places, PlaceLeads(x, p), p # "reopen", NEW o
  PROVE  Glides(x, [x EXCEPT !.reopened = o, !.pc = p])
<1> DEFINE y == [x EXCEPT !.pc = p]
           z == [x EXCEPT !.reopened = o, !.pc = p]
<1>1. /\ z.pc = y.pc /\ z.unsent = y.unsent /\ z.steering = y.steering /\ z.injected = y.injected
      /\ z.created = y.created /\ z.earlyCancels = y.earlyCancels
      /\ z.prev = y.prev /\ z.awaits = y.awaits /\ z.quiet = y.quiet /\ z.turning = y.turning
      /\ z.reaches = y.reaches /\ z.pickRelaunch = y.pickRelaunch /\ z.session = y.session
      /\ z.proc = y.proc /\ z.pc = p
  BY DEF RunRecord
<1>2. Glides(x, y)
  BY PlaceGlides
<1> HIDE DEF y, z
<1>3. Connected(z) <=> Connected(y)
  BY <1>1 DEF Connected
<1>4. Form(y) <=> Form(z)
  BY <1>1, <1>3 DEF Form
<1>5. Anew(y) <=> Anew(z)
  BY <1>1 DEF Anew
<1>6. PlaceGoes(x, y) => PlaceGoes(x, z)
  BY <1>1, <1>5 DEF PlaceGoes
<1>7. Unstored(y) <=> Unstored(z)
  BY <1>1 DEF Unstored
<1>8. Glides(x, z)
  BY <1>1, <1>2, <1>3, <1>4, <1>6, <1>7 DEF Glides, Dead
<1> QED  BY <1>8 DEF z

LEMMA OvertakenGlides ==
  ASSUME NEW x \in RunRecord, x.pc = "interrupt" PROVE Glides(x, Overtaken(x)) /\ Overtaken(x).quiet
<1> DEFINE y == Silence(x)
<1>1. y \in RunRecord /\ Steady(x, y)
  BY SilenceType, SilenceSteady
<1>2. y.pc = "interrupt" /\ y.quiet
  BY <1>1 DEF Steady, Silence, RunRecord
<1> HIDE DEF y
<1>3. Glides(y, [y EXCEPT !.reopened = "failed", !.pc = "over"])
  BY <1>1, <1>2, RoundGlides DEF PlaceLeads, Places
<1>4. [y EXCEPT !.reopened = "failed", !.pc = "over"].quiet
  BY <1>1, <1>2 DEF RunRecord
<1>5. Overtaken(x) = [y EXCEPT !.reopened = "failed", !.pc = "over"]
  BY DEF Overtaken, y
<1> QED  BY <1>1, <1>3, <1>4, <1>5, GlidesOn

LEMMA InterruptDoneTexts ==
  ASSUME TypeInv, TextInv, NEW r \in 1..used, InterruptDone(r) PROVE TextInv'
<1>1. /\ used' = used /\ last' = last /\ ends' = ends /\ end' = end /\ stored' = stored
      /\ got' = got /\ unsure' = unsure /\ cancelled' = cancelled /\ msg' = msg
      /\ writes # <<>> /\ writes' = Tail(writes) /\ Logged(Head(writes).ev)
      /\ Head(writes).cont = "reopen" /\ run[r].pc = "interrupt"
  BY DEF InterruptDone, table, history
<1>2. HeadLogged /\ HeadTold
  <2>1. ~IsCall(Head(writes))
    BY <1>1 DEF IsCall
  <2> QED  BY <1>1, <2>1, LoggedHead DEF HeadTold
<1>3. r \in Runs /\ run[r] \in RunRecord /\ run \in [Runs -> RunRecord]
  BY Registry DEF TypeInv, TypeOK
<1>4. CASE stopping \/ run[r].quiet
  <2>1. run' = [run EXCEPT ![r] = Overtaken(run[r])] /\ Forget(r)
    BY <1>4 DEF InterruptDone
  <2>2. Glides(run[r], Overtaken(run[r])) /\ Overtaken(run[r]).quiet
    BY <1>1, <1>3, OvertakenGlides
  <2>3. RunsGlide
    BY <2>1, <2>2, GlideOne
  <2>4. Off(run'[r])
    BY <1>3, <2>1, <2>2 DEF Off
  <2>5. cur' \in {cur, NoRun} /\ (cur' # cur => Off(run'[cur]))
    BY <2>1, <2>4, ForgetOff
  <2> QED  BY <1>1, <1>2, <2>3, <2>5, TailGlides
<1>5. CASE ~(stopping \/ run[r].quiet)
  <2> PICK p : p = IF run[r].byPick THEN "launch" ELSE "hold"
    OBVIOUS
  <2>1. run' = [run EXCEPT ![r] = [run[r] EXCEPT !.reopened = "ok", !.pc = p]] /\ cur' = cur
    BY <1>3, <1>5 DEF InterruptDone
  <2>2. Glides(run[r], [run[r] EXCEPT !.reopened = "ok", !.pc = p])
    <3>1. p \in Places /\ PlaceLeads(run[r], p) /\ p # "reopen"
      BY <1>1 DEF PlaceLeads, Places
    <3> QED  BY <1>3, <3>1, RoundGlides
  <2>3. RunsGlide
    BY <2>1, <2>2, GlideOne
  <2>4. cur' \in {cur, NoRun} /\ (cur' # cur => Off(run'[cur]))
    BY <2>1
  <2> QED  BY <1>1, <1>2, <2>3, <2>4, TailGlides
<1> QED  BY <1>4, <1>5

LEMMA SessionStoredTexts ==
  ASSUME TypeInv, TextInv, NEW r \in 1..used, SessionStored(r) PROVE TextInv'
<1> DEFINE x == run[r]
           y == [x EXCEPT !.pc = "options"]
<1>1. /\ used' = used /\ last' = last /\ ends' = ends /\ cur' = cur /\ end' = end /\ stored' = TRUE
      /\ got' = got /\ unsure' = unsure /\ msg' = msg
      /\ writes # <<>> /\ writes' = Tail(writes) /\ Logged(Head(writes).ev)
      /\ Head(writes).cont = "session" /\ run[r].pc = "store"
      /\ run' = [run EXCEPT ![r] = [run[r] EXCEPT !.pc = "options"]]
  BY DEF SessionStored, table, history
<1>2. HeadLogged /\ HeadTold
  <2>1. ~IsCall(Head(writes))
    BY <1>1 DEF IsCall
  <2> QED  BY <1>1, <2>1, LoggedHead DEF HeadTold
<1>3. x \in RunRecord
  BY Registry DEF TypeInv
<1>4. /\ y.pc = "options" /\ x.pc = "store" /\ y.unsent = x.unsent /\ y.steering = x.steering
      /\ y.injected = x.injected /\ y.created = x.created /\ y.prev = x.prev /\ y.awaits = x.awaits
      /\ y.quiet = x.quiet /\ y.turning = x.turning /\ y.reaches = x.reaches
      /\ y.pickRelaunch = x.pickRelaunch /\ y.session = x.session /\ y.proc = x.proc
  BY <1>1, <1>3 DEF RunRecord
<1>5. run' = [run EXCEPT ![r] = y]
  BY <1>1
<1> HIDE DEF x, y
<1>6. Lines(x, y) /\ (Dead(x) => Dead(y)) /\ (Off(x) => Off(y))
  BY <1>4 DEF Lines, Dead, Off
<1>7. Less(x, y, unsure')
  <2>1. Form(x) => Form(y)
    BY <1>4 DEF Form, Connected, BeforeSession, Opening, Talking
  <2>2. Form(x) /\ Anew(y) => Anew(x)
    BY <1>4 DEF Anew
  <2> QED  BY <1>4, <2>1, <2>2 DEF Less
<1>8. Lines(run[r], y) /\ (Dead(run[r]) => Dead(y)) /\ (Off(run[r]) => Off(y)) /\ Less(run[r], y, unsure')
  BY <1>6, <1>7 DEF x
<1>9. RunsLine /\ RunsLess
  BY <1>5, <1>8, LessOne
<1>10. LineInv'
  <2>1. end'.st = "turn" => end'.run = last
    BY <1>1 DEF TextInv, LineInv
  <2>2. LineInv
    BY DEF TextInv
  <2> QED  BY <1>1, <1>5, <1>8, <2>1, <2>2, LineOne
<1> QED  BY <1>1, <1>2, <1>9, <1>10, TailOn

LEMMA ResumedDoneTexts ==
  ASSUME TypeInv, TextInv, NEW r \in 1..used, ResumedDone(r) PROVE TextInv'
<1>1. /\ used' = used /\ last' = last /\ ends' = ends /\ cur' = cur /\ end' = end /\ stored' = stored
      /\ got' = got /\ unsure' = unsure /\ cancelled' = cancelled /\ msg' = msg
      /\ writes # <<>> /\ writes' = Tail(writes) /\ Logged(Head(writes).ev)
      /\ Head(writes).cont = "resumed" /\ run[r].pc = "resumed" /\ AfterResumed(r)
  BY DEF ResumedDone, table, history
<1>2. HeadLogged /\ HeadTold
  <2>1. ~IsCall(Head(writes))
    BY <1>1 DEF IsCall
  <2> QED  BY <1>1, <2>1, LoggedHead DEF HeadTold
<1>3. r \in Runs /\ run[r] \in RunRecord
  BY Registry DEF TypeInv
<1>4. RunsGlide
  <2>1. CASE run[r].pickRelaunch
    <3>1. run' = [run EXCEPT ![r] = PickRelaunchOver(run[r])]
      BY <1>1, <2>1 DEF AfterResumed
    <3>2. Glides(run[r], PickRelaunchOver(run[r]))
      BY <1>1, <1>3, PickOverGlides
    <3> QED  BY <3>1, <3>2, GlideOne
  <2>2. CASE ~run[r].pickRelaunch
    <3>1. run' = [run EXCEPT ![r] = [run[r] EXCEPT !.pc = "held"]]
      BY <1>1, <2>2 DEF AfterResumed
    <3>2. Glides(run[r], [run[r] EXCEPT !.pc = "held"])
      BY <1>1, <1>3, <2>2, PlaceGlides DEF PlaceLeads, Places
    <3> QED  BY <3>1, <3>2, GlideOne
  <2> QED  BY <2>1, <2>2
<1> QED  BY <1>1, <1>2, <1>4, TailGlides

-----------------------------------------------------------------------------
(* The next write fails. *)

\* What it leaves of the run of the write.
FailedRun(x, cont) ==
  CASE cont = "reopen" -> [Quit(x) EXCEPT !.reopened = "failed", !.pc = "over"]
    [] cont = "session" -> [Quit(x) EXCEPT !.pc = "over"]
    [] cont = "resumed" -> [Quit(x) EXCEPT !.pc = "halted"]
    [] OTHER -> Quit(x)

LEMMA FailedGlides ==
  ASSUME NEW x \in RunRecord, NEW cont, cont \in StepConts => x.pc = StepPlace[cont]
  PROVE  Glides(x, FailedRun(x, cont)) /\ FailedRun(x, cont).quiet
<1> DEFINE y == Quit(x)
<1>1. y \in RunRecord /\ Steady(x, y)
  BY QuitType, QuitSteady
<1>2. y.quiet /\ y.pc = x.pc
  BY <1>1, QuitFields DEF Steady
<1> HIDE DEF y
<1>3. CASE cont = "reopen"
  <2>1. y.pc = "interrupt"
    BY <1>2, <1>3 DEF StepConts, StepPlace
  <2>2. Glides(y, [y EXCEPT !.reopened = "failed", !.pc = "over"])
    BY <1>1, <2>1, RoundGlides DEF PlaceLeads, Places
  <2>3. [y EXCEPT !.reopened = "failed", !.pc = "over"].quiet
    BY <1>1, <1>2 DEF RunRecord
  <2> QED  BY <1>1, <1>3, <2>2, <2>3, GlidesOn DEF FailedRun, y
<1>4. CASE cont = "session"
  <2>1. y.pc = "store"
    BY <1>2, <1>4 DEF StepConts, StepPlace
  <2>2. Glides(y, [y EXCEPT !.pc = "over"])
    BY <1>1, <2>1, PlaceGlides DEF PlaceLeads, Places
  <2>3. [y EXCEPT !.pc = "over"].quiet
    BY <1>1, <1>2 DEF RunRecord
  <2> QED  BY <1>1, <1>4, <2>2, <2>3, GlidesOn DEF FailedRun, y
<1>5. CASE cont = "resumed"
  <2>1. y.pc = "resumed"
    BY <1>2, <1>5 DEF StepConts, StepPlace
  <2>2. Glides(y, [y EXCEPT !.pc = "halted"])
    BY <1>1, <2>1, PlaceGlides DEF PlaceLeads, Places
  <2>3. [y EXCEPT !.pc = "halted"].quiet
    BY <1>1, <1>2 DEF RunRecord
  <2> QED  BY <1>1, <1>5, <2>2, <2>3, GlidesOn DEF FailedRun, y
<1>6. CASE cont \notin {"reopen", "session", "resumed"}
  <2>1. FailedRun(x, cont) = y
    BY <1>6 DEF FailedRun, y
  <2> QED  BY <1>1, <1>2, <2>1, SteadyGlides
<1> QED  BY <1>3, <1>4, <1>5, <1>6

LEMMA WriteFailsTexts ==
  ASSUME TypeInv, PlaceInv, TextInv, WriteFails PROVE TextInv'
<1> DEFINE w == Head(writes)
<1>1. /\ used' = used /\ last' = last /\ ends' = ends /\ stored' = stored /\ answers' = answers
      /\ got' = got /\ unsure' = unsure /\ cancelled' = cancelled
      /\ writes # <<>> /\ writes' = Tail(writes)
  BY DEF WriteFails, table, history
<1>2. HeadLogged
  BY <1>1, UnloggedHead
<1>3. CASE Head(writes).cont = "close"
  <2>1. run' = run /\ cur' = cur /\ msg' = msg /\ end' = end
    BY <1>3 DEF WriteFails
  <2>2. ~IsCall(Head(writes))
    BY <1>3 DEF IsCall
  <2>3. HeadTold /\ RunsGlide
    BY <2>1, <2>2, GlideNone DEF HeadTold
  <2>4. cur' \in {cur, NoRun} /\ (cur' # cur => Off(run'[cur]))
    BY <2>1
  <2> QED  BY <1>1, <1>2, <2>1, <2>3, <2>4, TailGlides
<1>4. CASE Head(writes).cont # "close"
  <2> PICK r, c : r = Head(writes).by /\ c = Head(writes).cont
    OBVIOUS
  <2>1. run' = [run EXCEPT ![r] = FailedRun(run[r], c)]
    BY <1>4 DEF WriteFails, FailedRun
  <2>2. /\ Forget(r)
        /\ msg' = (IF Head(writes).cont \in {"call", "hold"}
                   THEN [msg EXCEPT ![HeadText].st = "halt", ![HeadText].run = r] ELSE msg)
        /\ end' = (IF Head(writes).cont = "end" /\ end.st # "none" THEN [end EXCEPT !.st = "fails"] ELSE end)
    BY <1>4 DEF WriteFails, HeadText
  <2>3. end'.st = "turn" => end' = end
    BY <2>2 DEF TypeInv, TypeOK, End
  <2>4. HeadTold
    <3>1. IsCall(Head(writes)) => HeadText \in Texts
      BY <1>1, HeadFits DEF TextInv, OnceInv
    <3> QED  BY <2>2, <3>1 DEF HeadTold, IsCall, TypeInv, TypeOK, Message
  <2>5. c \in StepConts => run[r].pc = StepPlace[c]
    BY <1>1 DEF PlaceInv, StepFits, TypeInv, TypeOK
  <2>6. ASSUME r \in 1..used PROVE Glides(run[r], FailedRun(run[r], c)) /\ FailedRun(run[r], c).quiet
    BY <2>5, <2>6, Registry, FailedGlides DEF TypeInv
  <2>7. RunsGlide
    BY <2>1, <2>6, GlideOne
  <2>8. cur' \in {cur, NoRun} /\ (cur' # cur => Off(run'[cur]))
    <3>1. CASE r \in 1..used
      <4>1. r \in Runs /\ run \in [Runs -> RunRecord]
        BY <3>1, Registry DEF TypeInv, TypeOK
      <4>2. Off(run'[r])
        BY <2>1, <2>6, <3>1, <4>1 DEF Off
      <4> QED  BY <2>2, <4>2, ForgetOff
    <3>2. CASE r \notin 1..used
      <4>1. cur' = cur
        <5>1. cur # NoRun => cur \in 1..used
          BY DEF TypeInv, TypeOK, NoRun
        <5> QED  BY <2>2, <3>2, <5>1 DEF Forget
      <4> QED  BY <4>1
    <3> QED  BY <3>1, <3>2
  <2> QED  BY <1>1, <1>2, <2>3, <2>4, <2>7, <2>8, TailGlides
<1> QED  BY <1>3, <1>4

\* The text of a message joins the texts of its run.
LEMMA HoldWrittenTexts ==
  ASSUME TypeInv, TextInv, HoldWritten PROVE TextInv'
<1> PICK r, t : r = Head(writes).by /\ t = HeadText
  OBVIOUS
<1> PICK u : u = IF Keeps(r, t) THEN Append(run[r].unsent, t) ELSE run[r].unsent
  OBVIOUS
<1> PICK p : p = IF run[r].pc = "hold" THEN "launch" ELSE run[r].pc
  OBVIOUS
<1>1. /\ used' = used /\ last' = last /\ ends' = ends /\ cur' = cur /\ end' = end /\ stored' = stored
      /\ got' = got /\ unsure' = unsure
      /\ writes # <<>> /\ writes' = Tail(writes) /\ Logged(Head(writes).ev) /\ Head(writes).cont = "hold"
      /\ cancelled' = (IF Keeps(r, t) THEN cancelled ELSE cancelled \union {t})
      /\ msg' = [msg EXCEPT ![t].st = "done", ![t].late = r # last /\ run[last].pc # "reopen"]
  BY DEF HoldWritten, HeadText, table
<1>2. IsCall(Head(writes))
  BY <1>1 DEF IsCall
<1>3. t \in Texts /\ r \in 1..used /\ msg[t].st = "write" /\ Head(writes).ev.kind = "user"
      /\ Head(writes) = writes[1] /\ 1 \in 1..Len(writes)
  <2>1. CallsOnce
    BY DEF TextInv, OnceInv
  <2>2. UserFits(Head(writes)) /\ HeadText \in Texts /\ Head(writes) = writes[1] /\ 1 \in 1..Len(writes)
    BY <1>1, <1>2, <2>1, HeadFits
  <2> QED  BY <1>1, <1>2, <2>2 DEF UserFits, HeadText
<1>4. r \in Runs /\ run[r] \in RunRecord /\ run \in [Runs -> RunRecord] /\ run[r].unsent \in Seq(Texts)
  <2>1. r \in Runs /\ run[r] \in RunRecord
    BY <1>3, Registry DEF TypeInv
  <2> QED  BY <2>1 DEF TypeInv, TypeOK, RunRecord
<1>5. HeadLogged
  BY <1>1, LoggedHead
<1>6. msg'[t].st = "done" /\ \A v \in Texts \ {t} : msg'[v] = msg[v]
  BY <1>1, <1>3 DEF TypeInv, TypeOK, Message
<1>7. /\ got[t] = 0 /\ t \notin ToSet(answers.unanswered)
      /\ \A s \in 1..used : t \notin ToSet(run[s].unsent) \union run[s].steering
  BY <1>3 DEF TextInv, FreshInv, Fresh, Has
<1> DEFINE x == run[r]
           y == [[x EXCEPT !.unsent = u] EXCEPT !.pc = p]
<1>8. /\ y.pc = p /\ y.unsent = u /\ y.steering = x.steering /\ y.injected = x.injected /\ y.created = x.created
      /\ y.prev = x.prev /\ y.awaits = x.awaits /\ y.reopened = x.reopened
      /\ y.quiet = x.quiet /\ y.turning = x.turning /\ y.reaches = x.reaches
      /\ y.pickRelaunch = x.pickRelaunch /\ y.session = x.session /\ y.proc = x.proc
  BY <1>4 DEF RunRecord
<1>9. p = x.pc \/ (x.pc = "hold" /\ p = "launch")
  OBVIOUS
<1>10. run' = [run EXCEPT ![r] = y]
  BY <1>1, <1>4 DEF HoldWritten, HeadText
<1>11. u \in {x.unsent, Append(x.unsent, t)}
  OBVIOUS
<1>12. x = run[r]
  OBVIOUS
<1> HIDE DEF x, y
<1>13. ToSet(u) \subseteq ToSet(x.unsent) \union {t} /\ (NoDup(x.unsent) => NoDup(u))
  <2>1. x.unsent \in Seq(Texts) /\ t \notin ToSet(x.unsent)
    BY <1>3, <1>4, <1>7, <1>12
  <2> QED  BY <1>3, <1>11, <2>1, AppendOnce
<1>14. run'[r] = y /\ \A s \in 1..used : s # r => run'[s] = run[s]
  <2>1. \A s \in 1..used : s \in Runs
    BY Registry DEF TypeInv
  <2> QED  BY <1>4, <1>10, <2>1
<1>15. Lines(x, y) /\ (Dead(x) => Dead(y)) /\ (Off(x) => Off(y))
  BY <1>8, <1>9 DEF Lines, Dead, Off
<1>16. (Form(x) => Form(y)) /\ (Anew(y) => Anew(x)) /\ (Unstored(x) => Unstored(y))
  <2>1. Form(x) => Form(y)
    BY <1>8, <1>9 DEF Form, Connected, BeforeSession, Opening, Talking
  <2>2. Anew(y) => Anew(x)
    BY <1>8, <1>9 DEF Anew
  <2>3. Unstored(x) => Unstored(y)
    BY <1>8, <1>9 DEF Unstored
  <2> QED  BY <2>1, <2>2, <2>3
<1>17. LineInv'
  <2>1. end'.st = "turn" => end'.run = last
    BY <1>1 DEF TextInv, LineInv
  <2>2. Lines(run[r], y) /\ (Dead(run[r]) => Dead(y)) /\ (Off(run[r]) => Off(y))
    BY <1>12, <1>15
  <2>3. LineInv
    BY DEF TextInv
  <2> QED  BY <1>1, <1>3, <1>10, <2>1, <2>2, <2>3, LineOne
<1>18. RunsLine
  BY <1>12, <1>14, <1>15 DEF RunsLine, Lines
<1>19. FormInv'
  BY <1>1, <1>12, <1>14, <1>16 DEF TextInv, FormInv
<1>20. CallsOnce'
  <2>1. HeadMessages
    BY <1>2, <1>6 DEF HeadMessages
  <2>2. CallsOnce /\ HeadAnswers
    BY <1>5 DEF TextInv, OnceInv, HeadLogged
  <2> QED  BY <1>1, <2>1, <2>2, CallsTail
<1>21. StoredInv'
  <2> SUFFICES ASSUME ~stored
               PROVE  /\ ~answers'.answered /\ cancelled' = {} /\ \A v \in Texts : got'[v] = 0
                      /\ \A s \in 1..used : Unstored(run'[s])
                      /\ Unspoken'
    BY <1>1 DEF StoredInv
  <2>1. ~answers.answered /\ cancelled = {} /\ (\A v \in Texts : got[v] = 0) /\ Unspoken
        /\ \A s \in 1..used : Unstored(run[s])
    BY DEF TextInv, StoredInv
  <2>2. Keeps(r, t)
    BY <2>1 DEF Keeps
  <2>3. Unspoken'
    BY <1>1, <2>1, UnspokenTail
  <2>4. \A s \in 1..used : Unstored(run'[s])
    BY <1>12, <1>14, <1>16, <2>1
  <2> QED  BY <1>1, <1>5, <2>1, <2>2, <2>3, <2>4 DEF HeadLogged
<1>22. FreshInv'
  <2> SUFFICES ASSUME NEW v \in Texts, Fresh(v)', Has(v)' PROVE FALSE
    BY DEF FreshInv
  <2>1. v # t
    BY <1>6 DEF Fresh
  <2>2. Fresh(v)
    BY <1>6, <2>1 DEF Fresh
  <2>3. v \in ToSet(answers'.unanswered) => v \in ToSet(answers.unanswered)
    BY <1>2, <1>5, <2>1 DEF HeadLogged, HeadAnswers
  <2>4. \A s \in 1..used : v \in ToSet(run'[s].unsent) \union run'[s].steering =>
                             v \in ToSet(run[s].unsent) \union run[s].steering
    <3> SUFFICES ASSUME NEW s \in 1..used, v \in ToSet(run'[s].unsent) \union run'[s].steering
                 PROVE  v \in ToSet(run[s].unsent) \union run[s].steering
      OBVIOUS
    <3>1. CASE s = r
      BY <1>8, <1>12, <1>13, <1>14, <2>1, <3>1
    <3>2. CASE s # r
      BY <1>14, <3>2
    <3> QED  BY <3>1, <3>2
  <2>5. Has(v)
    BY <1>1, <2>3, <2>4 DEF Has
  <2> QED  BY <2>2, <2>5 DEF TextInv, FreshInv
<1>23. UnsentOnce'
  <2> SUFFICES ASSUME NEW s \in 1..used PROVE NoDup(run'[s].unsent)
    BY <1>1 DEF UnsentOnce
  <2>1. NoDup(run[s].unsent)
    BY DEF TextInv, OnceInv, UnsentOnce
  <2>2. CASE s = r
    BY <1>8, <1>12, <1>13, <1>14, <2>1, <2>2
  <2>3. CASE s # r
    BY <1>14, <2>1, <2>3
  <2> QED  BY <2>2, <2>3
<1>24. \A v : Ungot(v)' <=> Ungot(v)
  BY <1>1 DEF Ungot
<1>25. Ungot(t)
  BY <1>7 DEF Ungot
<1>26. NoTextTwice'
  BY <1>1 DEF TextInv, GotInv, NoTextTwice
<1>27. SteersUngot'
  <2> SUFFICES ASSUME NEW s \in 1..used, NEW v \in run'[s].steering \ run'[s].injected PROVE Ungot(v)'
    BY <1>1 DEF SteersUngot
  <2>1. v \in run[s].steering \ run[s].injected
    BY <1>8, <1>12, <1>14
  <2> QED  BY <1>24, <2>1 DEF TextInv, GotInv, SteersUngot
<1>28. HolderUngot'
  <2> SUFFICES ASSUME NEW s \in 1..used, Holder(s)', NEW v \in ToSet(run'[s].unsent) \ run'[s].injected
               PROVE  Ungot(v)'
    BY <1>1 DEF HolderUngot
  <2>1. Holder(s)
    BY <1>1, <1>18, HolderStays
  <2>2. v = t \/ v \in ToSet(run[s].unsent) \ run[s].injected
    <3>1. CASE s = r
      BY <1>8, <1>12, <1>13, <1>14, <3>1
    <3>2. CASE s # r
      BY <1>14, <3>2
    <3> QED  BY <3>1, <3>2
  <2> QED  BY <1>24, <1>25, <2>1, <2>2 DEF TextInv, GotInv, HolderUngot
<1>29. AnewUngot'
  <2> SUFFICES ASSUME NEW s \in 1..used, Holder(s)', Anew(run'[s]), NEW v \in Texts PROVE got'[v] = 0
    BY <1>1 DEF AnewUngot
  <2>1. Holder(s) /\ Anew(run[s])
    BY <1>1, <1>12, <1>14, <1>16, <1>18, HolderStays
  <2> QED  BY <1>1, <2>1 DEF TextInv, GotInv, AnewUngot
<1>30. NoneGot'
  <2> SUFFICES ASSUME \A s \in 1..used : Waits(s)' PROVE FALSE
    BY <1>1 DEF NoneGot
  <2>1. \A s \in 1..used : Waits(s)
    BY <1>18 DEF Waits, RunsLine, Lines
  <2>2. NoCalls
    BY <2>1 DEF TextInv, GotInv, NoneGot
  <2> QED  BY <1>2, <1>3, <2>2 DEF NoCalls
<1> QED  BY <1>17, <1>19, <1>20, <1>21, <1>22, <1>23, <1>26, <1>27, <1>28, <1>29, <1>30
      DEF TextInv, OnceInv, GotInv

-----------------------------------------------------------------------------
(* Every step. *)

\* The steps that move a text, a run in the line or a write out of the queue.
MessageShifts(t) == Restart(t) \/ JoinStart(t) \/ JoinTurn(t) \/ StartTurn(t)
RunShifts(r) ==
  \/ Reopen(r) \/ Spawn(r) \/ Initialized(r) \/ SessionLost(r) \/ SessionCreated(r)
  \/ OptionsDone(r) \/ HeldOver(r) \/ NextPrompt(r)
  \/ ConnectionCut(r) \/ (\E clean \in BOOLEAN : Exit(r, clean))
  \/ InterruptDone(r) \/ SessionStored(r) \/ ResumedDone(r)
TextShifts(r, t) == HoldWrite(r, t) \/ AgentInjects(r, t) \/ SteerAnswered(r, t)
ChatShifts ==
  \/ PickRelaunches \/ CancelTurn \/ CancelEarly \/ EndCancels
  \/ WriteDone \/ HoldWritten \/ WriteFails
Shifts ==
  \/ ChatShifts
  \/ \E t \in Texts : MessageShifts(t)
  \/ \E r \in 1..used : RunShifts(r) \/ \E t \in Texts : TextShifts(r, t)
Goes == Calm \/ Shifts

LEMMA SameCalm == ASSUME TypeInv, UNCHANGED vars PROVE Calm
<1>1. chat' = chat /\ table' = table /\ history' = history /\ ends' = ends /\ end' = end /\ msg' = msg
      /\ cur' = cur /\ run' = run /\ writes' = writes
  BY DEF vars
<1>2. RunsGlide /\ MsgCalm /\ Adds
  BY <1>1, GlideNone, MsgSame, AddsNone
<1> QED  BY <1>1, <1>2, CalmIs

LEMMA MessageGoes ==
  ASSUME Base, TextInv, NEW t \in Texts, Send(t) \/ MessageStep(t) PROVE Goes
<1>1. TypeInv
  BY DEF Base
<1>2. Send(t) => Goes
  BY <1>1, RefusalCalm DEF Send, Goes, Shifts, MessageShifts
<1>3. MessageFails(t) => Goes
  BY <1>1, RefusalCalm DEF Goes
<1>4. ASSUME NEW r \in 1..used, HoldRefused(r, t) \/ HoldStopping(r, t) \/ HoldAgain(r, t) \/ HoldWrite(r, t)
      PROVE  Goes
  <2>1. HoldRefused(r, t) \/ HoldAgain(r, t) => Calm
    BY <1>1, RefusalCalm
  <2>2. HoldStopping(r, t) => Calm
    BY <1>1, StoppingCalm
  <2>3. HoldWrite(r, t) => Shifts
    BY DEF Shifts, TextShifts
  <2> QED  BY <1>4, <2>1, <2>2, <2>3 DEF Goes
<1> QED  BY <1>2, <1>3, <1>4 DEF MessageStep

LEMMA RunGoes ==
  ASSUME Base, TextInv, NEW r \in 1..used, RunStep(r) \/ CheckStep(r) \/ ExitStep(r) \/ ProcessEnds(r)
  PROVE  Goes
<1>1. TypeInv
  BY DEF Base
<1>2. RunShifts(r) => Goes
  BY DEF Goes, Shifts
<1>3. CASE RunStep(r)
  <2>1. Reopen(r) \/ Spawn(r) \/ OptionsDone(r) \/ HeldOver(r) \/ NextPrompt(r) => RunShifts(r)
    BY DEF RunShifts
  <2>2. StartHalted(r) => Calm
    BY <1>1, PlaceCalm, StartHaltedCalm
  <2>3. LaunchOver(r) \/ OptionSent(r) \/ OptionsQuiet(r) => Calm
    BY <1>1, PlaceCalm
  <2>4. PickOptionsDone(r) => Calm
    BY <1>1, PickOptionsCalm
  <2>5. ASSUME NEW jobs \in BOOLEAN, TurnOver(r, jobs) PROVE Calm
    BY <2>5, TurnOverCalm
  <2> QED  BY <1>2, <1>3, <2>1, <2>2, <2>3, <2>4, <2>5 DEF RunStep, Goes
<1>4. CASE CheckStep(r)
  <2>1. IdleOvertaken(r) => Calm
    BY <1>1, IdleCalm
  <2>2. ASSUME NEW jobs \in BOOLEAN, MarkerChecked(r, jobs) \/ StopChecked(r, jobs) PROVE Calm
    BY <1>1, <2>2, CheckedCalm
  <2> QED  BY <1>4, <2>1, <2>2 DEF CheckStep, Goes
<1>5. CASE ExitStep(r) \/ ProcessEnds(r)
  <2>1. OnExit(r) \/ GroupEnded(r) => Calm
    BY <1>1, ExitHandledCalm, GroupCalm
  <2>2. (\E clean \in BOOLEAN : Exit(r, clean)) => RunShifts(r)
    BY DEF RunShifts
  <2> QED  BY <1>2, <1>5, <2>1, <2>2 DEF ExitStep, ProcessEnds, Goes
<1> QED  BY <1>3, <1>4, <1>5

LEMMA AgentGoes ==
  ASSUME Base, TextInv, NEW r \in 1..used, AgentStep(r) PROVE Goes
<1>1. TypeInv
  BY DEF Base
<1>2. RunShifts(r) => Goes
  BY DEF Goes, Shifts
<1>3. LaunchFails(r) \/ AgentFails(r) => Calm
  BY <1>1, FailCalm
<1>4. SessionResumed(r) \/ OptionAnswered(r) => Calm
  BY <1>1, PlaceCalm
<1>5. Initialized(r) \/ SessionLost(r) \/ SessionCreated(r) \/ ConnectionCut(r)
      \/ (\E clean \in BOOLEAN : Exit(r, clean)) => RunShifts(r)
  BY DEF RunShifts
<1>6. AgentWorks(r) \/ OwnOutput(r) => Calm
  BY WorksCalm, OutputCalm
<1>7. OwnTurnMarker(r) \/ IdleExpires(r) => Calm
  BY <1>1, MarkerCalm, IdleCalm
<1>8. ASSUME NEW reason \in BOOLEAN, PromptReturned(r, reason) PROVE Calm
  BY <1>1, <1>8, ReturnCalm
<1>9. ASSUME NEW t \in Texts, AgentInjects(r, t) \/ SteerAnswered(r, t) PROVE Shifts
  BY <1>9 DEF Shifts, TextShifts
<1>10. ASSUME NEW q \in Requests, Ask(r, q) \/ AgentTakesBack(r, q) PROVE Calm
  BY <1>1, <1>10, AskCalm, ResolveCalm DEF AgentTakesBack
<1>11. ASSUME NEW jobs \in BOOLEAN, NEW ended \in BOOLEAN, NEW recent \in BOOLEAN,
              IdleChecked(r, jobs, ended, recent)
       PROVE  Calm
  BY <1>1, <1>11, IdleCheckedCalm
<1>12. (\E reason \in BOOLEAN : PromptReturned(r, reason)) => Calm
  BY <1>8
<1>13. (\E t \in Texts : AgentInjects(r, t) \/ SteerAnswered(r, t)) => Shifts
  BY <1>9
<1>14. (\E q \in Requests : Ask(r, q) \/ AgentTakesBack(r, q)) => Calm
  BY <1>10
<1>15. (\E jobs, ended, recent \in BOOLEAN : IdleChecked(r, jobs, ended, recent)) => Calm
  BY <1>11
<1> QED  BY <1>2, <1>3, <1>4, <1>5, <1>6, <1>7, <1>12, <1>13, <1>14, <1>15 DEF AgentStep, Goes

LEMMA ClientGoes ==
  ASSUME Base, TextInv, ClientStep \/ PickAnswered \/ PickStep \/ EndStep \/ Close PROVE Goes
<1>1. TypeInv /\ LineInv
  BY DEF Base, TextInv
<1>2. ASSUME NEW q \in Requests, Answer(q) PROVE Calm
  <2>1. cur \in 1..used /\ Resolve(cur, q)
    BY <1>1, <1>2, Registry DEF Answer, TypeInv
  <2>2. PICK r \in 1..used : r = cur
    BY <2>1
  <2>3. Resolve(r, q)
    BY <2>1, <2>2 DEF Resolve
  <2> QED  BY <1>1, <2>3, ResolveCalm
<1>3. SetOption \/ PickAnswered \/ PickRefused \/ PickWaits \/ PickDirect => Calm
  BY <1>1, PickStepCalm
<1>4. CancelOwnTurn \/ Stop => Calm
  BY <1>1, OwnCancelCalm, StopCalm
<1>5. EndAtOnce \/ EndWaited => Calm
  BY <1>1, EndingCalm
<1>6. EndWithNoRun \/ EndRefused \/ EndResolves \/ EndFails => Calm
  BY <1>1, EndStepCalm
<1>7. StopStarts \/ Close => Calm
  BY <1>1, ClosingCalm
<1>8. CancelTurn \/ CancelEarly \/ EndCancels \/ PickRelaunches => Shifts
  BY DEF Shifts, ChatShifts
<1>9. CASE ClientStep
  BY <1>2, <1>3, <1>4, <1>5, <1>6, <1>7, <1>8, <1>9, MessageGoes DEF ClientStep, Goes
<1>10. CASE PickAnswered \/ PickStep
  BY <1>3, <1>8, <1>10 DEF PickStep, Goes
<1>11. CASE EndStep \/ Close
  BY <1>5, <1>6, <1>7, <1>11 DEF EndStep, Goes
<1> QED  BY <1>9, <1>10, <1>11

LEMMA NextGoes ==
  ASSUME Base, TextInv, [Next]_vars PROVE Goes
<1>1. TypeInv
  BY DEF Base
<1>2. UNCHANGED vars => Goes
  BY <1>1, SameCalm DEF Goes
<1>3. WriteFails => Goes
  BY DEF Goes, Shifts, ChatShifts
<1>4. WriteStep => Goes
  BY DEF WriteStep, Goes, Shifts, ChatShifts, RunShifts
<1>5. (\E t \in Texts : MessageStep(t)) => Goes
  BY MessageGoes
<1>6. (\E r \in 1..used : RunStep(r) \/ CheckStep(r) \/ ExitStep(r) \/ Outside(r)) => Goes
  BY RunGoes, AgentGoes DEF Outside
<1> QED  BY <1>2, <1>3, <1>4, <1>5, <1>6, ClientGoes DEF Next

LEMMA ShiftTexts ==
  ASSUME Base, TextInv, Shifts PROVE TextInv'
<1>1. TypeInv /\ PlaceInv
  BY DEF Base
<1>2. ChatShifts => TextInv'
  BY <1>1, PickRelaunchTexts, CancelTexts, WriteDoneTexts, HoldWrittenTexts, WriteFailsTexts DEF ChatShifts
<1>3. ASSUME NEW t \in Texts, MessageShifts(t) PROVE TextInv'
  BY <1>1, <1>3, RestartTexts, JoinStartTexts, JoinTurnTexts, StartTurnTexts DEF MessageShifts
<1>4. ASSUME NEW r \in 1..used, RunShifts(r) PROVE TextInv'
  <2>1. Reopen(r) \/ Spawn(r) \/ Initialized(r) \/ SessionLost(r) \/ SessionCreated(r) => TextInv'
    BY ReopenTexts, SpawnTexts, InitializedTexts, SessionLostTexts, SessionCreatedTexts
  <2>2. OptionsDone(r) \/ HeldOver(r) \/ NextPrompt(r) => TextInv'
    BY OptionsOverTexts, HeldOverTexts, NextPromptTexts
  <2>3. ConnectionCut(r) \/ (\E clean \in BOOLEAN : Exit(r, clean)) => TextInv'
    BY <1>1, ExitTexts
  <2>4. InterruptDone(r) \/ SessionStored(r) \/ ResumedDone(r) => TextInv'
    BY <1>1, InterruptDoneTexts, SessionStoredTexts, ResumedDoneTexts
  <2> QED  BY <1>4, <2>1, <2>2, <2>3, <2>4 DEF RunShifts
<1>5. ASSUME NEW r \in 1..used, NEW t \in Texts, TextShifts(r, t) PROVE TextInv'
  BY <1>1, <1>5, HoldWriteTexts, InjectTexts, SteerTexts DEF TextShifts
<1> QED  BY <1>2, <1>3, <1>4, <1>5 DEF Shifts

LEMMA NextTexts ==
  ASSUME Base, TextInv, [Next]_vars PROVE TextInv'
<1>1. TypeInv
  BY DEF Base
<1> QED  BY <1>1, NextGoes, CalmTexts, ShiftTexts DEF Goes

-----------------------------------------------------------------------------
(* A chat that starts, and one that was loaded. *)

LEMMA StartedTexts ==
  ASSUME Init, NEW t \in Texts, InitStarted(t) PROVE TextInv
<1> PICK x : x = [NewRun EXCEPT !.pc = "init", !.proc = "alive", !.idle = "on"]
  OBVIOUS
<1>1. /\ x.pc = "init" /\ x.unsent = <<>> /\ x.steering = {} /\ x.injected = {} /\ ~x.created
      /\ x.prev = 0 /\ x.turning /\ ~x.reaches /\ ~x.session
  BY DEF NewRun, NoRun
<1>2. run = [r \in Runs |-> IF r = 1 THEN x ELSE NewRun] /\ used = 1 /\ cur = 1 /\ last = 1
  BY DEF InitStarted
<1>3. writes = <<>> /\ end.st = "none" /\ cancelled = {} /\ \A u \in Texts : got[u] = 0
  BY DEF Init, InitCommon, NoEnd
<1>4. 1 \in Runs /\ 1..used = {1} /\ run[1] = x /\ 1..Len(writes) = {}
  BY <1>2, <1>3, RunnerAssumption DEF Runs
<1>5. answers = [answered |-> FALSE, unanswered |-> <<t>>]
  <2>1. UserEvent(t).kind = "user" /\ UserEvent(t).text = <<t>>
    BY DEF UserEvent, Plain
  <2>2. <<>> \o <<t>> = <<t>>
    OBVIOUS
  <2>3. answers = [NoAnswers EXCEPT !.unanswered = NoAnswers.unanswered \o <<t>>]
    BY <2>1 DEF InitStarted, TrackAnswers, IsAnswer
  <2> QED  BY <2>2, <2>3 DEF NoAnswers
<1>6. ~stored /\ \A u \in Texts : msg[u].st = (IF u = t THEN "done" ELSE "new")
  BY DEF InitStarted
<1>7. ToSet(<<t>>) = {t} /\ ToSet(<<>>) = {} /\ NoDup(<<t>>) /\ NoDup(<<>>)
  <2>1. <<t>> \in Seq(Texts) /\ Len(<<t>>) = 1 /\ <<t>>[1] = t /\ 1..1 = {1}
    OBVIOUS
  <2> QED  BY <2>1 DEF ToSet, NoDup
<1>8. LineInv
  BY <1>1, <1>2, <1>3, <1>4 DEF LineInv, Waits
<1>9. FormInv
  BY <1>1, <1>4 DEF FormInv, Form, BeforeSession, Opening, Talking
<1>10. StoredInv
  BY <1>1, <1>3, <1>4, <1>5 DEF StoredInv, Unstored, Unspoken
<1>11. FreshInv
  BY <1>1, <1>3, <1>4, <1>5, <1>6, <1>7 DEF FreshInv, Fresh, Has
<1>12. OnceInv
  <2>1. CallsOnce
    BY <1>4, <1>5, <1>7 DEF CallsOnce
  <2>2. UnsentOnce
    <3>1. run[1].unsent = <<>>
      BY <1>1, <1>4
    <3>2. NoDup(run[1].unsent)
      BY <1>7, <3>1
    <3> QED  BY <1>4, <3>2 DEF UnsentOnce
  <2> QED  BY <2>1, <2>2 DEF OnceInv
<1>13. GotInv
  <2>1. \A u \in Texts : Ungot(u)
    BY <1>3 DEF Ungot
  <2>2. NoTextTwice
    BY <1>3 DEF NoTextTwice
  <2>3. SteersUngot /\ HolderUngot /\ AnewUngot
    BY <1>1, <1>3, <1>4, <1>7, ZenonT(30) DEF SteersUngot, HolderUngot, AnewUngot
  <2>4. NoneGot
    BY <1>1, <1>4 DEF NoneGot, Waits
  <2> QED  BY <2>2, <2>3, <2>4 DEF GotInv
<1> QED  BY <1>8, <1>9, <1>10, <1>11, <1>12, <1>13 DEF TextInv

LEMMA LoadedTexts ==
  ASSUME Init, NEW answered, NEW stopped, InitLoaded(TRUE, answered, stopped) PROVE TextInv
<1>1. used = 0 /\ cur = NoRun /\ last = NoRun /\ stored = TRUE
      /\ answers = [answered |-> answered, unanswered |-> <<>>]
      /\ \A u \in Texts : msg[u].st = "new"
  BY DEF InitLoaded
<1>2. writes = <<>> /\ end.st = "none" /\ \A u \in Texts : got[u] = 0
  BY DEF Init, InitCommon, NoEnd
<1>3. 1..used = {} /\ 1..Len(writes) = {}
  BY <1>1, <1>2
<1>4. ToSet(<<>>) = {} /\ NoDup(<<>>) /\ answers.unanswered = <<>>
  BY <1>1 DEF ToSet, NoDup
<1>5. LineInv
  BY <1>1, <1>2, <1>3 DEF LineInv, NoRun
<1>6. FormInv /\ StoredInv
  BY <1>1, <1>3 DEF FormInv, StoredInv
<1>7. FreshInv
  BY <1>2, <1>3, <1>4 DEF FreshInv, Has
<1>8. OnceInv
  BY <1>3, <1>4 DEF OnceInv, CallsOnce, UnsentOnce
<1>9. GotInv
  BY <1>2, <1>3, <1>4 DEF GotInv, NoTextTwice, SteersUngot, HolderUngot, AnewUngot, NoneGot, NoCalls
<1> QED  BY <1>5, <1>6, <1>7, <1>8, <1>9 DEF TextInv

LEMMA InitTexts == Init => TextInv
  BY StartedTexts, LoadedTexts DEF Init

-----------------------------------------------------------------------------
(* The theorems about what the agent gets. *)

\* In every reachable state the runs stand in a line, one of them at most holds the texts that
\* the agent has still to get, each such text is in one place only, and no text that a run may
\* still send has reached the agent in the session of the chat.
THEOREM TextsHold == Spec => []TextInv
<1>1. TypeInv /\ StartInv /\ PlaceInv /\ EndInv /\ TextInv /\ [Next]_vars => TextInv'
  BY NextTexts DEF Base
<1> QED  BY <1>1, InitTexts, TypesHold, StartsWait, PlacesHold, EndsHold, PTL DEF Spec

\* In every reachable state, the agent got no text of a message twice in one session, over
\* restarts, steers, lost sessions and prompts, unless the answer of a steer was lost.
THEOREM NoTextTwiceHolds == Spec => []NoTextTwice
<1>1. TextInv => NoTextTwice
  BY DEF TextInv, GotInv
<1> QED  BY <1>1, TextsHold, PTL

-----------------------------------------------------------------------------
(* The texts that a cancel took back. *)

\* A message that is in `hold` knows its run, and its write is of that run.
Coming(m) == m.st \in {"wait", "write"}
HoldKnown(w) == msg[w.ev.text[1]].run = w.by /\ ~Waits(w.by)
StartsKnown ==
  \A t \in Texts :
     Coming(msg[t]) => msg[t].run \in 1..used /\ msg[t].cancels <= run[msg[t].run].earlyCancels
HoldsKnown == \A i \in 1..Len(writes) : writes[i].cont = "hold" => HoldKnown(writes[i])
WaitsBlank == \A r \in 1..used : Waits(r) => run[r].unsent = <<>>
KnownInv == StartsKnown /\ HoldsKnown /\ WaitsBlank

\* From the interrupt of a start to its first answer, the agent says nothing, and neither a
\* message to a turn nor an `end` of an earlier run waits for a write.
StillFrom(k, r) ==
  \A i \in k..Len(writes) :
     /\ ~IsAnswer(writes[i].ev) /\ writes[i].cont # "call"
     /\ writes[i].cont = "end" => writes[i].by \in r..used
Still(r) == StillFrom(1, r)
ReopensStill(r) ==
  \E k \in 1..Len(writes) : writes[k].cont = "reopen" /\ writes[k].by = r /\ StillFrom(k, r)
Silent(x) == x.pc \in Silences \/ Anew(x)
SilentInv ==
  \A r \in 1..used : Holder(r) =>
     (Silent(run[r]) => Still(r)) /\ (run[r].pc = "interrupt" => ReopensStill(r))

\* A start in a new session has nothing to hold back, unless it ends before its first prompt.
EndsOver(r) ==
  /\ run[r].pickRelaunch /\ run[r].reaches
  /\ cur # r \/ stopping \/ (end.st = "turn" /\ end.run = r)
AnewFits(r) == ~answers.answered /\ (cancelled = {} \/ EndsOver(r))
AnewInv == \A r \in 1..used : Holder(r) /\ Anew(run[r]) => AnewFits(r)

\* A text that was taken back is with no run that may send it, or its message is dropped once
\* it is written, or starts over.
Passed(t) ==
  Coming(msg[t]) /\ answers.answered /\ run[msg[t].run].earlyCancels > msg[t].cancels
Unheld(t) == \A r \in 1..used : Holder(r) => t \notin ToSet(run[r].unsent)
Dropped(t) == msg[t].restarts \/ Passed(t) \/ (~Fresh(t) /\ Unheld(t))
CancelKept == \A t \in cancelled : Dropped(t)

CancelInv == KnownInv /\ SilentInv /\ AnewInv /\ CancelKept

-----------------------------------------------------------------------------
(* What the steps do, but for the one that takes the texts of the last run. *)

\* The call of a message goes on, starts over or begins.
CallGoes(t) ==
  /\ msg[t].restarts => msg'[t].restarts
  /\ Coming(msg'[t]) =>
       \/ Coming(msg[t]) /\ msg'[t].run = msg[t].run /\ msg'[t].cancels = msg[t].cancels
       \/ /\ Sent(t) /\ msg'[t].st = "wait"
          /\ msg'[t].run \in 1..used' /\ msg'[t].cancels <= run'[msg'[t].run].earlyCancels
  /\ Fresh(t)' => Fresh(t)
  /\ Coming(msg[t]) /\ Fresh(t)' => Coming(msg'[t]) \/ msg'[t].restarts
CallsGo == \A t \in Texts : CallGoes(t)

\* A run goes on in its start, or out of it.
AnewGoes(x, y) ==
  \/ Anew(x) /\ (x.pickRelaunch /\ x.reaches => y.pickRelaunch /\ y.reaches)
  \/ Silent(x) /\ ~answers.answered /\ cancelled' = {}
Flows(x, y) ==
  /\ x.earlyCancels <= y.earlyCancels
  /\ y.pc = "reopen" => x.pc = "reopen" /\ y.unsent \in {x.unsent, <<>>}
  /\ y.pc = "interrupt" => x.pc = "interrupt"
  /\ y.pc \in Silences => x.pc \in Silences \union {"interrupt"}
HolderFlows(x, y) ==
  /\ Anew(y) => AnewGoes(x, y)
  /\ \A t \in cancelled \intersect cancelled' :
       t \in ToSet(y.unsent) => t \in ToSet(x.unsent) \/ msg'[t].restarts
RunsFlow ==
  /\ \A r \in 1..used : Flows(run[r], run'[r]) /\ (Holder(r) => HolderFlows(run[r], run'[r]))
  /\ \A r \in 1..used' : r \in 1..used \/ run'[r].unsent = <<>>

\* The queue gets no word of the agent before the start has one.
Mild(w) ==
  /\ w \in Write
  /\ w.cont = "end" => w.by = last
  /\ IsAnswer(w.ev) \/ w.cont = "call" => MaySpeak
  /\ w.cont = "hold" =>
       /\ msg'[w.ev.text[1]].run = w.by /\ run'[w.by].pc # "reopen"
       /\ ~run[w.by].quiet /\ HoldsNow(w.by, w.ev.text[1]) /\ msg[w.ev.text[1]].st = "wait"
QueueAdds ==
  \E s \in Seq(Write) :
     /\ writes' = writes \o s
     /\ \A i \in 1..Len(s) : Mild(s[i])
QueueShifts ==
  /\ writes # <<>> /\ writes' = Tail(writes)
  /\ Head(writes).cont = "reopen" => run'[Head(writes).by].pc # "interrupt"
QueueGoes == QueueAdds \/ QueueShifts

AnswersGo ==
  /\ answers.answered => answers'.answered
  /\ answers'.answered => answers.answered \/ (QueueShifts /\ IsAnswer(Head(writes).ev))

\* What is cancelled is dropped.
CancelGoes ==
  /\ \A t \in cancelled' : t \in cancelled \/ Dropped(t)'
  /\ \A r \in 1..used : Holder(r) /\ Anew(run[r]) /\ Anew(run'[r]) => cancelled' \subseteq cancelled \/ EndsOver(r)'
EndGoes ==
  /\ stopping => stopping'
  /\ \A r \in 1..used : cur # r => cur' # r
  /\ end.st = "turn" /\ Still(end.run) => end' = end \/ cur' # end.run \/ stopping'

HoldersStay ==
  /\ 1..used \subseteq 1..used' /\ last = used
  /\ \A r : Holder(r)' <=> Holder(r)

Flow == HoldersStay /\ RunsFlow /\ CallsGo /\ QueueGoes /\ AnswersGo /\ CancelGoes /\ EndGoes

-----------------------------------------------------------------------------
(* What these steps keep. *)

LEMMA WritesGo ==
  ASSUME TypeInv, QueueGoes, NEW i \in 1..Len(writes')
  PROVE  \/ \E j \in 1..Len(writes) : writes'[i] = writes[j]
         \/ i > Len(writes) /\ QueueAdds /\ Mild(writes'[i])
<1>1. writes \in Seq(Write)
  BY DEF TypeInv, TypeOK
<1>2. CASE QueueAdds
  <2> PICK s \in Seq(Write) :
         /\ writes' = writes \o s
         /\ \A n \in 1..Len(s) : Mild(s[n])
    BY <1>2 DEF QueueAdds
  <2>1. Len(writes') = Len(writes) + Len(s) /\ Len(writes) \in Nat /\ Len(s) \in Nat
    BY <1>1
  <2>2. CASE i \in 1..Len(writes)
    <3>1. writes'[i] = writes[i]
      BY <1>1, <2>2
    <3> QED  BY <2>2, <3>1
  <2>3. CASE i \notin 1..Len(writes)
    <3>1. i - Len(writes) \in 1..Len(s) /\ writes'[i] = s[i - Len(writes)] /\ i > Len(writes)
      BY <1>1, <2>1, <2>3
    <3>2. PICK w : w = s[i - Len(writes)]
      OBVIOUS
    <3>3. Mild(w) /\ writes'[i] = w
      BY <3>1, <3>2
    <3> QED  BY <1>2, <3>1, <3>3
  <2> QED  BY <2>2, <2>3
<1>3. CASE QueueShifts
  <2>1. i + 1 \in 1..Len(writes) /\ writes'[i] = writes[i + 1]
    BY <1>1, <1>3 DEF QueueShifts
  <2> QED  BY <2>1
<1> QED  BY <1>2, <1>3 DEF QueueGoes

LEMMA KnownOn ==
  ASSUME TypeInv, TypeInv', TextInv, TextInv', KnownInv, Flow PROVE KnownInv'
<1>1. CallsOnce /\ CallsOnce'
  BY DEF TextInv, OnceInv
<1>2. TypeInv /\ QueueGoes /\ 1..used \subseteq 1..used'
      /\ \A r \in 1..used : Flows(run[r], run'[r])
  BY DEF Flow, HoldersStay, RunsFlow
<1>3. \A r \in 1..used : Waits(r)' => Waits(r)
  BY <1>2 DEF Flows, Waits
<1>4. StartsKnown'
  <2> SUFFICES ASSUME NEW t \in Texts, Coming(msg'[t])
               PROVE  msg'[t].run \in 1..used' /\ msg'[t].cancels <= run'[msg'[t].run].earlyCancels
    BY DEF StartsKnown
  <2>1. CASE Coming(msg[t]) /\ msg'[t].run = msg[t].run /\ msg'[t].cancels = msg[t].cancels
    <3>1. msg[t].run \in 1..used /\ msg[t].cancels <= run[msg[t].run].earlyCancels
      BY <2>1 DEF KnownInv, StartsKnown
    <3>2. run[msg[t].run].earlyCancels <= run'[msg[t].run].earlyCancels
      BY <1>2, <3>1 DEF Flows
    <3>3. msg[t].cancels \in Nat /\ run[msg[t].run].earlyCancels \in Nat
      BY <3>1, Registry DEF TypeInv, TypeOK, Message, RunRecord
    <3>4. run'[msg[t].run].earlyCancels \in Nat
      BY <1>2, <3>1, Registry DEF TypeInv, TypeOK, Runs, RunRecord
    <3> DEFINE a == msg[t].cancels
               b == run[msg[t].run].earlyCancels
               e == run'[msg[t].run].earlyCancels
    <3>5. a \in Nat /\ b \in Nat /\ e \in Nat /\ a <= b /\ b <= e
      BY <3>1, <3>2, <3>3, <3>4
    <3>6. msg'[t].cancels = a /\ run'[msg'[t].run].earlyCancels = e
      BY <2>1
    <3>7. a <= e
      <4> HIDE DEF a, b, e
      <4> QED  BY <3>5
    <3>8. msg'[t].run \in 1..used'
      BY <1>2, <2>1, <3>1
    <3> QED  BY <3>6, <3>7, <3>8
  <2> QED  BY <2>1 DEF Flow, CallsGo, CallGoes
<1>5. HoldsKnown'
  <2> SUFFICES ASSUME NEW i \in 1..Len(writes'), writes'[i].cont = "hold"
               PROVE  HoldKnown(writes[i])'
    BY DEF HoldsKnown
  <2>1. CASE \E j \in 1..Len(writes) : writes'[i] = writes[j]
    <3>1. PICK j \in 1..Len(writes) : writes'[i] = writes[j]
      BY <2>1
    <3>2. HoldKnown(writes[j]) /\ UserFits(writes[j]) /\ UserFits(writes[i])' /\ writes[j].cont = "hold"
      BY <1>1, <3>1 DEF KnownInv, HoldsKnown, CallsOnce
    <3>3. writes[j] \in Write
      BY DEF TypeInv, TypeOK
    <3>4. writes[j].by \in 1..used /\ writes[j].ev.text[1] \in Texts /\ msg[writes[j].ev.text[1]].st = "write"
      BY <3>2, <3>3 DEF UserFits, IsCall, Write, Event
    <3>5. msg'[writes[j].ev.text[1]].st = "write"
      BY <3>1, <3>2 DEF UserFits, IsCall
    <3>6. msg'[writes[j].ev.text[1]].run = msg[writes[j].ev.text[1]].run
      BY <3>4, <3>5 DEF Flow, CallsGo, CallGoes, Coming
    <3> QED  BY <1>3, <3>1, <3>2, <3>4, <3>6 DEF HoldKnown
  <2>2. CASE Mild(writes'[i])
    BY <2>2 DEF Mild, HoldKnown, Waits
  <2> QED  BY <1>2, <2>1, <2>2, WritesGo
<1>6. WaitsBlank'
  <2> SUFFICES ASSUME NEW r \in 1..used', Waits(r)' PROVE run'[r].unsent = <<>>
    BY DEF WaitsBlank
  <2>1. CASE r \in 1..used
    BY <1>2, <1>3, <2>1 DEF KnownInv, WaitsBlank, Flows, Waits
  <2> QED  BY <2>1 DEF Flow, RunsFlow
<1> QED  BY <1>4, <1>5, <1>6 DEF KnownInv


\* What the queue gets while the agent says nothing.
LEMMA StillOn ==
  ASSUME TypeInv, TypeInv', HoldersStay, QueueGoes, ~MaySpeak, NEW r \in 1..used,
         NEW k \in 1..Len(writes), StillFrom(k, r)
  PROVE  /\ QueueAdds => StillFrom(k, r)'
         /\ QueueShifts /\ k > 1 => StillFrom(k - 1, r)'
         /\ QueueShifts /\ k = 1 => StillFrom(1, r)'
<1>1. writes \in Seq(Write) /\ used \in Nat /\ used' \in Nat /\ r \in Nat /\ k \in Nat
  BY Registry DEF TypeInv, TypeOK, Runs
<1>0. (QueueAdds => Len(writes') >= Len(writes)) /\ (QueueShifts => Len(writes') < Len(writes))
  <2>1. ASSUME QueueAdds PROVE Len(writes') >= Len(writes)
    <3>1. PICK s \in Seq(Write) : writes' = writes \o s
      BY <2>1 DEF QueueAdds
    <3> QED  BY <1>1, <3>1
  <2>2. ASSUME QueueShifts PROVE Len(writes') < Len(writes)
    <3>1. writes # <<>> /\ writes' = Tail(writes)
      BY <2>2 DEF QueueShifts
    <3>2. Len(writes) # 0 /\ Len(writes) \in Nat
      BY <1>1, <3>1
    <3>3. Len(Tail(writes)) = Len(writes) - 1
      BY <1>1, <3>1
    <3> QED  BY <3>1, <3>2, <3>3
  <2> QED  BY <2>1, <2>2
<1>2. r \in 1..used' /\ used <= used' /\ last = used
  <2>1. used \in 1..used'
    BY <1>1 DEF HoldersStay
  <2> QED  BY <1>1, <2>1 DEF HoldersStay
<1>3. \A b \in r..used : b \in r..used'
  BY <1>1, <1>2
<1>4. last \in r..used'
  BY <1>1, <1>2
<1>5. CASE QueueAdds
  <2> PICK s \in Seq(Write) :
         /\ writes' = writes \o s
         /\ \A n \in 1..Len(s) : Mild(s[n])
    BY <1>5 DEF QueueAdds
  <2>1. StillFrom(k, r)'
    <3> SUFFICES ASSUME NEW i \in k..Len(writes')
                 PROVE  /\ ~IsAnswer(writes'[i].ev) /\ writes'[i].cont # "call"
                        /\ writes'[i].cont = "end" => writes'[i].by \in r..used'
      BY DEF StillFrom
    <3>1. CASE i \in 1..Len(writes)
      <4>1. writes'[i] = writes[i] /\ i \in k..Len(writes)
        BY <1>1, <3>1
      <4> QED  BY <1>3, <4>1 DEF StillFrom
    <3>2. CASE i \notin 1..Len(writes)
      <4>1. i - Len(writes) \in 1..Len(s) /\ writes'[i] = s[i - Len(writes)]
        BY <1>1, <3>2
      <4>2. Mild(writes'[i])
        <5>1. PICK n \in 1..Len(s) : writes'[i] = s[n]
          BY <4>1
        <5> QED  BY <5>1
      <4> QED  BY <1>4, <4>2 DEF Mild
    <3> QED  BY <3>1, <3>2
  <2>2. ~QueueShifts
    BY <1>0, <1>1, <1>5
  <2> QED  BY <2>1, <2>2
<1>6. ASSUME NEW m \in Nat, m >= 1, m >= k - 1, QueueShifts PROVE StillFrom(m, r)'
  <2> SUFFICES ASSUME NEW i \in m..Len(writes')
               PROVE  /\ ~IsAnswer(writes'[i].ev) /\ writes'[i].cont # "call"
                      /\ writes'[i].cont = "end" => writes'[i].by \in r..used'
    BY DEF StillFrom
  <2>1. writes' = Tail(writes) /\ writes # <<>>
    BY <1>6 DEF QueueShifts
  <2>2. i + 1 \in k..Len(writes) /\ writes'[i] = writes[i + 1]
    BY <1>1, <1>6, <2>1
  <2> QED  BY <1>3, <2>2 DEF StillFrom
<1>7. CASE QueueShifts
  <2>1. k > 1 => StillFrom(k - 1, r)'
    BY <1>1, <1>6, <1>7
  <2>2. k = 1 => StillFrom(1, r)'
    BY <1>1, <1>6, <1>7
  <2>3. QueueAdds => StillFrom(k, r)'
    BY <1>0, <1>1, <1>7
  <2> QED  BY <2>1, <2>2, <2>3
<1> QED  BY <1>5, <1>7 DEF QueueGoes

\* The same for the whole queue, which can be empty.
LEMMA AllStillOn ==
  ASSUME TypeInv, TypeInv', HoldersStay, QueueGoes, ~MaySpeak, NEW r \in 1..used, Still(r)
  PROVE  Still(r)'
<1>1. writes \in Seq(Write) /\ Len(writes) \in Nat
  BY DEF TypeInv, TypeOK
<1>2. CASE writes # <<>>
  <2>1. 1 \in 1..Len(writes) /\ StillFrom(1, r)
    BY <1>1, <1>2 DEF Still
  <2> QED  BY <2>1, StillOn DEF Still, QueueGoes
<1>3. CASE writes = <<>>
  <2> SUFFICES ASSUME NEW i \in 1..Len(writes')
               PROVE  /\ ~IsAnswer(writes'[i].ev) /\ writes'[i].cont # "call"
                      /\ writes'[i].cont = "end" => writes'[i].by \in r..used'
    BY DEF Still, StillFrom
  <2>1. Mild(writes'[i])
    <3>1. \A j : j \notin 1..Len(writes)
      BY <1>1, <1>3
    <3> QED  BY <3>1, WritesGo
  <2>2. used \in Nat /\ used' \in Nat /\ used \in 1..used' /\ r \in Nat /\ last = used /\ r <= used
    <3>1. used \in Nat /\ used' \in Nat
      BY RunnerAssumption DEF TypeInv, TypeOK
    <3>2. used \in 1..used
      BY <3>1
    <3> QED  BY <3>1, <3>2 DEF HoldersStay
  <2> QED  BY <2>1, <2>2 DEF Mild
<1> QED  BY <1>2, <1>3

LEMMA SilentIsMute ==
  ASSUME NEW r \in 1..used, Holder(r), Silent(run[r]) \/ run[r].pc = "interrupt" PROVE ~MaySpeak
  BY DEF MaySpeak, Silent

LEMMA SilentOn ==
  ASSUME Base, Base', TextInv, SilentInv, Flow PROVE SilentInv'
<1>1. TypeInv /\ TypeInv' /\ HoldersStay /\ QueueGoes
  BY DEF Base, Flow
<1> SUFFICES ASSUME NEW r \in 1..used', Holder(r)'
             PROVE  (Silent(run'[r]) => Still(r)') /\ (run'[r].pc = "interrupt" => ReopensStill(r)')
  BY DEF SilentInv
<1>2. Holder(r) /\ r \in 1..used
  BY <1>1 DEF HoldersStay, Holder
<1>3. Flows(run[r], run'[r]) /\ HolderFlows(run[r], run'[r])
  BY <1>2 DEF Flow, RunsFlow
<1>4. writes \in Seq(Write) /\ Len(writes) \in Nat
  BY <1>1 DEF TypeInv, TypeOK
<1>5. ASSUME run[r].pc = "interrupt"
      PROVE  /\ run'[r].pc # "interrupt" => Still(r)'
             /\ run'[r].pc = "interrupt" => ReopensStill(r)'
  <2>1. PICK k \in 1..Len(writes) : writes[k].cont = "reopen" /\ writes[k].by = r /\ StillFrom(k, r)
    BY <1>2, <1>5 DEF SilentInv, ReopensStill
  <2>2. ~MaySpeak
    BY <1>2, <1>5, SilentIsMute
  <2>3. /\ QueueAdds => StillFrom(k, r)'
        /\ QueueShifts /\ k > 1 => StillFrom(k - 1, r)'
        /\ QueueShifts /\ k = 1 => StillFrom(1, r)'
    BY <1>1, <1>2, <2>1, <2>2, StillOn
  <2>4. ASSUME NEW j \in 1..Len(writes'), writes'[j] = writes[k], StillFrom(j, r)'
        PROVE  run'[r].pc = "interrupt" /\ ReopensStill(r)'
    <3>1. j \in DOMAIN writes' /\ writes'[j].cont = "reopen" /\ writes'[j].by = r
      BY <1>1, <2>1, <2>4 DEF TypeInv, TypeOK
    <3>2. run'[r].pc = "interrupt"
      BY <3>1 DEF Base, PlaceInv, StepFits, StepConts, StepPlace
    <3> QED  BY <2>4, <3>1, <3>2 DEF ReopensStill
  <2>5. CASE QueueAdds
    <3>1. k \in 1..Len(writes') /\ writes'[k] = writes[k]
      BY <1>4, <2>5 DEF QueueAdds
    <3> QED  BY <2>3, <2>4, <2>5, <3>1
  <2>6. CASE QueueShifts /\ k > 1
    <3>1. k - 1 \in 1..Len(writes') /\ writes'[k - 1] = writes[k]
      BY <1>4, <2>6 DEF QueueShifts
    <3> QED  BY <2>3, <2>4, <2>6, <3>1
  <2>7. CASE QueueShifts /\ k = 1
    <3>1. Head(writes) = writes[k]
      BY <1>4, <2>7
    <3>2. run'[r].pc # "interrupt"
      BY <2>1, <2>7, <3>1 DEF QueueShifts
    <3> QED  BY <2>3, <2>7, <3>2 DEF Still
  <2> QED  BY <1>1, <1>4, <2>5, <2>6, <2>7 DEF QueueGoes
<1>6. Silent(run'[r]) => Still(r)'
  <2>1. Silent(run'[r]) => Silent(run[r]) \/ run[r].pc = "interrupt"
    BY <1>3 DEF Flows, HolderFlows, AnewGoes, Silent
  <2>2. Silent(run[r]) => Still(r)'
    BY <1>1, <1>2, SilentIsMute, AllStillOn DEF SilentInv
  <2>3. Silent(run'[r]) => run'[r].pc # "interrupt"
    BY DEF Silent, Silences, Anew
  <2> QED  BY <1>5, <2>1, <2>2, <2>3
<1>7. run'[r].pc = "interrupt" => ReopensStill(r)'
  BY <1>3, <1>5 DEF Flows
<1> QED  BY <1>6, <1>7

LEMMA AnewOn ==
  ASSUME TypeInv, SilentInv, AnewInv, Flow PROVE AnewInv'
<1> SUFFICES ASSUME NEW r \in 1..used', Holder(r)', Anew(run'[r]) PROVE AnewFits(r)'
  BY DEF AnewInv
<1>1. Holder(r) /\ r \in 1..used
  BY DEF Flow, HoldersStay, Holder
<1>2. AnewGoes(run[r], run'[r])
  BY <1>1 DEF Flow, RunsFlow, HolderFlows
<1>3. Still(r)
  BY <1>1, <1>2 DEF AnewGoes, Silent, SilentInv
<1>4. ~answers.answered => ~answers'.answered
  <2> SUFFICES ASSUME QueueShifts, IsAnswer(Head(writes).ev) PROVE FALSE
    BY DEF Flow, AnswersGo
  <2>1. 1 \in 1..Len(writes) /\ Head(writes) = writes[1]
    BY DEF QueueShifts, TypeInv, TypeOK
  <2> QED  BY <1>3, <2>1 DEF Still, StillFrom
<1>5. CASE Anew(run[r]) /\ (run[r].pickRelaunch /\ run[r].reaches => run'[r].pickRelaunch /\ run'[r].reaches)
  <2>1. ~answers.answered /\ (cancelled = {} \/ EndsOver(r))
    BY <1>1, <1>5 DEF AnewInv, AnewFits
  <2>2. EndsOver(r) => EndsOver(r)'
    BY <1>1, <1>3, <1>5 DEF EndsOver, Flow, EndGoes
  <2>3. cancelled' \subseteq cancelled \/ EndsOver(r)'
    BY <1>1, <1>5 DEF Flow, CancelGoes
  <2> QED  BY <1>4, <2>1, <2>2, <2>3 DEF AnewFits
<1>6. CASE ~answers.answered /\ cancelled' = {}
  BY <1>4, <1>6 DEF AnewFits
<1> QED  BY <1>2, <1>5, <1>6 DEF AnewGoes

LEMMA KeptOn ==
  ASSUME TypeInv, TypeInv', TextInv, KnownInv, CancelKept, Flow PROVE CancelKept'
<1> SUFFICES ASSUME NEW t \in cancelled', t \in cancelled PROVE Dropped(t)'
  BY DEF Flow, CancelGoes, CancelKept
<1>1. t \in Texts
  BY DEF TypeInv, TypeOK
<1>2. CallGoes(t) /\ Dropped(t)
  BY <1>1 DEF Flow, CallsGo, CancelKept
<1>3. Unheld(t) => Unheld(t)' \/ msg'[t].restarts
  <2> SUFFICES ASSUME Unheld(t), ~msg'[t].restarts, NEW r \in 1..used', Holder(r)', t \in ToSet(run'[r].unsent)
               PROVE  FALSE
    BY DEF Unheld
  <2>1. Holder(r) /\ r \in 1..used
    BY DEF Flow, HoldersStay, Holder
  <2>2. t \in ToSet(run[r].unsent)
    BY <2>1 DEF Flow, RunsFlow, HolderFlows
  <2> QED  BY <2>1, <2>2 DEF Unheld
<1>4. CASE msg[t].restarts
  BY <1>2, <1>4 DEF CallGoes, Dropped
<1>5. CASE Passed(t)
  <2>1. Coming(msg[t]) /\ answers.answered /\ run[msg[t].run].earlyCancels > msg[t].cancels
    BY <1>5 DEF Passed
  <2>2. CASE Coming(msg'[t])
    <3>1. msg'[t].run = msg[t].run /\ msg'[t].cancels = msg[t].cancels
      BY <1>2, <2>1, <2>2 DEF CallGoes, Coming, Sent
    <3>2. answers'.answered
      BY <2>1 DEF Flow, AnswersGo
    <3>3. msg[t].run \in 1..used
      BY <1>1, <2>1 DEF KnownInv, StartsKnown
    <3> DEFINE a == msg[t].cancels
               b == run[msg[t].run].earlyCancels
               e == run'[msg[t].run].earlyCancels
    <3>4. b <= e
      BY <3>3 DEF Flow, RunsFlow, Flows
    <3>5. a \in Nat /\ b \in Nat /\ msg[t].run \in 1..used'
      <4>1. a \in Nat
        BY <1>1 DEF TypeInv, TypeOK, Message
      <4>2. b \in Nat
        BY <3>3, Registry DEF TypeInv, RunRecord
      <4>3. 1..used \subseteq 1..used'
        BY DEF Flow, HoldersStay
      <4> QED  BY <3>3, <4>1, <4>2, <4>3
    <3>6. e \in Nat
      <4>1. msg[t].run \in Runs
        BY <3>3, Registry DEF TypeInv
      <4>2. run'[msg[t].run] \in RunRecord
        BY <1>1, <4>1 DEF TypeInv, TypeOK
      <4> QED  BY <4>2 DEF RunRecord
    <3>7. e > a
      <4>1. b > a
        BY <2>1
      <4> HIDE DEF a, b, e
      <4> QED  BY <3>4, <3>5, <3>6, <4>1
    <3>8. run'[msg'[t].run].earlyCancels > msg'[t].cancels
      BY <3>1, <3>7
    <3> QED  BY <2>2, <3>2, <3>8 DEF Dropped, Passed
  <2>3. CASE ~Coming(msg'[t])
    <3>1. Fresh(t)
      BY <2>1 DEF Coming, Fresh
    <3>2. Unheld(t)
      BY <1>1, <3>1 DEF TextInv, FreshInv, Has, Unheld
    <3>3. Fresh(t)' => msg'[t].restarts
      BY <1>2, <2>1, <2>3 DEF CallGoes
    <3> QED  BY <1>3, <3>2, <3>3 DEF Dropped
  <2> QED  BY <2>2, <2>3
<1>6. CASE ~Fresh(t) /\ Unheld(t)
  BY <1>2, <1>3, <1>6 DEF CallGoes, Dropped
<1> QED  BY <1>2, <1>4, <1>5, <1>6 DEF Dropped

LEMMA FlowOn ==
  ASSUME Base, Base', TextInv, TextInv', CancelInv, Flow PROVE CancelInv'
<1>1. TypeInv /\ TypeInv'
  BY DEF Base
<1> QED  BY <1>1, KnownOn, SilentOn, AnewOn, KeptOn DEF CancelInv

-----------------------------------------------------------------------------
(* The parts of these steps. *)

LEMMA HoldersSame ==
  ASSUME LineInv, used' = used, \A r \in 1..used : Waits(r)' <=> Waits(r) PROVE HoldersStay
  BY DEF LineInv, HoldersStay, Holder

LEMMA CallSame == ASSUME NEW t, msg'[t] = msg[t] PROVE CallGoes(t)
  BY DEF CallGoes, Coming, Fresh

LEMMA CallsSame == ASSUME msg' = msg PROVE CallsGo
  BY CallSame DEF CallsGo

LEMMA GlideFlows ==
  ASSUME NEW x, NEW y, Glides(x, y), Form(x), x.earlyCancels \in Nat
  PROVE  Flows(x, y) /\ HolderFlows(x, y)
<1>1. x.earlyCancels <= y.earlyCancels
  BY DEF Glides
<1>2. Flows(x, y)
  BY <1>1 DEF Glides, PlaceGoes, Flows
<1>3. HolderFlows(x, y)
  BY DEF Glides, PlaceGoes, HolderFlows, AnewGoes
<1> QED  BY <1>2, <1>3

LEMMA EarlyNat == ASSUME TypeInv PROVE \A r \in 1..used : run[r].earlyCancels \in Nat
  BY Registry DEF TypeInv, RunRecord

LEMMA RunsSame ==
  ASSUME TypeInv, used' = used, \A r \in 1..used : Flows(run[r], run'[r]) /\ (Holder(r) => HolderFlows(run[r], run'[r]))
  PROVE  RunsFlow
<1>1. \A r \in 1..used' : r \in 1..used \/ run'[r].unsent = <<>>
  OBVIOUS
<1> QED  BY <1>1 DEF RunsFlow

LEMMA GlidesFlow ==
  ASSUME TypeInv, FormInv, used' = used, RunsGlide PROVE RunsFlow
<1>1. ASSUME NEW r \in 1..used PROVE Flows(run[r], run'[r]) /\ HolderFlows(run[r], run'[r])
  <2>1. Glides(run[r], run'[r]) /\ Form(run[r]) /\ run[r].earlyCancels \in Nat
    BY EarlyNat DEF FormInv, RunsGlide
  <2> QED  BY <2>1, GlideFlows
<1>2. \A r \in 1..used : Flows(run[r], run'[r]) /\ (Holder(r) => HolderFlows(run[r], run'[r]))
  BY <1>1
<1> QED  BY <1>2, RunsSame

LEMMA MildSome ==
  ASSUME NEW s \in Seq(Write), writes' = writes \o s, \A i \in 1..Len(s) : Mild(s[i]) PROVE QueueAdds
  BY DEF QueueAdds

LEMMA MildNone == ASSUME TypeInv, writes' = writes PROVE QueueAdds
<1>1. writes \in Seq(Write)
  BY DEF TypeInv, TypeOK
<1>2. PICK s : s = <<>>
  OBVIOUS
<1>3. s \in Seq(Write) /\ writes' = writes \o s
  BY <1>1, <1>2
<1>4. \A i \in 1..Len(s) : Mild(s[i])
  BY <1>2
<1> QED  BY <1>3, <1>4, MildSome

LEMMA MildOne ==
  ASSUME TypeInv, NEW w \in Write, writes' = Append(writes, w), Mild(w) PROVE QueueAdds
<1>1. writes \in Seq(Write)
  BY DEF TypeInv, TypeOK
<1>2. PICK s : s = <<w>>
  OBVIOUS
<1>3. s \in Seq(Write) /\ writes' = writes \o s
  BY <1>1, <1>2
<1>4. \A i \in 1..Len(s) : Mild(s[i])
  BY <1>2
<1> QED  BY <1>3, <1>4, MildSome

LEMMA MildAdds == ASSUME Adds PROVE QueueAdds
<1>1. PICK s \in Seq(Addable) : writes' = writes \o s
  BY DEF Adds
<1>2. Addable \subseteq Write
  BY DEF Addable
<1>3. s \in Seq(Write)
  BY <1>1, <1>2
<1>4. ASSUME NEW i \in 1..Len(s) PROVE Mild(s[i])
  <2>1. s[i] \in Addable
    BY <1>1
  <2> QED  BY <2>1 DEF Addable, Mild, Conts
<1> QED  BY <1>1, <1>3, <1>4, MildSome

LEMMA AnswersSame == ASSUME answers' = answers PROVE AnswersGo
  BY DEF AnswersGo

LEMMA CancelSame == ASSUME cancelled' = cancelled PROVE CancelGoes
  BY DEF CancelGoes

LEMMA EndSame ==
  ASSUME stopping => stopping', end' = end, \A r \in 1..used : cur # r => cur' # r PROVE EndGoes
  BY DEF EndGoes

LEMMA CalmFlow ==
  ASSUME Base, TextInv, Calm, stopping => stopping' PROVE Flow
<1>1. TypeInv /\ LineInv /\ FormInv
  BY DEF Base, TextInv
<1>2. used' = used /\ RunsGlide /\ MsgCalm /\ Adds /\ cur' \in {cur, NoRun}
  BY DEF Calm, LineKept
<1>3. HoldersStay
  BY <1>1, <1>2, HoldersSame DEF RunsGlide, Glides, PlaceGoes, Waits
<1>4. RunsFlow
  BY <1>1, <1>2, GlidesFlow
<1>5. CallsGo
  <2> SUFFICES ASSUME NEW t \in Texts PROVE CallGoes(t)
    BY DEF CallsGo
  <2>1. CASE msg'[t] = msg[t]
    BY <2>1, CallSame
  <2>2. CASE MsgRests(msg[t], msg'[t])
    BY <2>2 DEF MsgRests, CallGoes, Coming, Fresh
  <2> QED  BY <1>2, <2>1, <2>2 DEF MsgCalm
<1>6. QueueGoes /\ AnswersGo /\ CancelGoes
  BY <1>2, MildAdds, AnswersSame, CancelSame DEF Calm, TextsKept, QueueGoes
<1>7. \A r \in 1..used : cur # r => cur' # r
  BY <1>2 DEF NoRun
<1>8. EndGoes
  BY <1>7 DEF EndGoes, Calm, EndKept
<1> QED  BY <1>3, <1>4, <1>5, <1>6, <1>8 DEF Flow

\* A step of a run that stays in its place and its start.
LEMMA StandFlows ==
  ASSUME NEW x, NEW y, y.pc = x.pc, y.created = x.created,
         y.pickRelaunch = x.pickRelaunch, y.reaches = x.reaches,
         x.earlyCancels <= y.earlyCancels, x.pc = "reopen" => y.unsent \in {x.unsent, <<>>},
         \A t \in cancelled \intersect cancelled' :
            t \in ToSet(y.unsent) => t \in ToSet(x.unsent) \/ msg'[t].restarts
  PROVE  Flows(x, y) /\ HolderFlows(x, y)
<1>1. Anew(x) <=> Anew(y)
  BY DEF Anew
<1>2. Flows(x, y)
  BY DEF Flows
<1>3. HolderFlows(x, y)
  BY <1>1 DEF HolderFlows, AnewGoes
<1> QED  BY <1>2, <1>3

\* A step of a run to a place out of the start in a new session.
LEMMA TalkFlows ==
  ASSUME NEW x, NEW y, y.pc \notin {"reopen", "interrupt"}, ~Anew(y),
         y.pc \in Silences => x.pc \in Silences \union {"interrupt"},
         x.earlyCancels <= y.earlyCancels,
         \A t \in cancelled \intersect cancelled' :
            t \in ToSet(y.unsent) => t \in ToSet(x.unsent) \/ msg'[t].restarts
  PROVE  Flows(x, y) /\ HolderFlows(x, y)
  BY DEF Flows, HolderFlows

LEMMA SameFlows == ASSUME TypeInv, NEW r \in 1..used PROVE Flows(run[r], run[r]) /\ HolderFlows(run[r], run[r])
<1>1. run[r].earlyCancels <= run[r].earlyCancels
  <2>1. PICK n : n = run[r].earlyCancels
    OBVIOUS
  <2>2. n \in Nat
    BY <2>1, EarlyNat
  <2>3. n <= n
    BY <2>2
  <2> QED  BY <2>1, <2>3
<1>2. PICK x : x = run[r]
  OBVIOUS
<1>3. x.earlyCancels <= x.earlyCancels
  BY <1>1, <1>2
<1>4. Flows(x, x) /\ HolderFlows(x, x)
  BY <1>3, StandFlows
<1> QED  BY <1>2, <1>4

\* The step of one run.
LEMMA OneFlows ==
  ASSUME TypeInv, LineInv, NEW r \in 1..used, NEW y, run' = [run EXCEPT ![r] = y], used' = used,
         y.pc = "reopen" <=> run[r].pc = "reopen",
         Flows(run[r], y), Holder(r) => HolderFlows(run[r], y)
  PROVE  HoldersStay /\ RunsFlow
<1>1. run'[r] = y /\ \A s \in 1..used : s # r => run'[s] = run[s]
  <2>1. \A s \in 1..used : s \in Runs
    BY Registry DEF TypeInv
  <2> QED  BY <2>1 DEF TypeInv, TypeOK
<1>2. HoldersStay
  <2>1. \A s \in 1..used : Waits(s)' <=> Waits(s)
    BY <1>1 DEF Waits
  <2> QED  BY <2>1, HoldersSame
<1>3. ASSUME NEW s \in 1..used
      PROVE  Flows(run[s], run'[s]) /\ (Holder(s) => HolderFlows(run[s], run'[s]))
  <2>1. CASE s = r
    BY <1>1, <2>1
  <2>2. CASE s # r
    <3>1. run'[s] = run[s]
      BY <1>1, <2>2
    <3> QED  BY <3>1, SameFlows
  <2> QED  BY <2>1, <2>2
<1>4. RunsFlow
  BY <1>3, RunsSame
<1> QED  BY <1>2, <1>4

\* The step of one run with a queue, calls and a chat that stay.
LEMMA RunFlow ==
  ASSUME TypeInv, LineInv, NEW r \in 1..used, NEW y, run' = [run EXCEPT ![r] = y], used' = used,
         y.pc = "reopen" <=> run[r].pc = "reopen",
         Flows(run[r], y), Holder(r) => HolderFlows(run[r], y),
         CallsGo, QueueGoes, AnswersGo, CancelGoes, EndGoes
  PROVE  Flow
  BY OneFlows DEF Flow

LEMMA CurKept == ASSUME cur' = cur, end' = end, stopping' = stopping PROVE EndGoes
  BY DEF EndGoes

-----------------------------------------------------------------------------
(* The shifts of a run. *)

LEMMA ExitFlow ==
  ASSUME TypeInv, TextInv, NEW r \in 1..used,
         ConnectionCut(r) \/ \E clean \in BOOLEAN : Exit(r, clean)
  PROVE  Flow
<1>1. run[r] \in RunRecord /\ run[r].earlyCancels \in Nat /\ LineInv
  BY Registry, EarlyNat DEF TypeInv, TextInv
<1> DEFINE x == ConnectionLost(run[r])
<1>2. /\ x.unsent = run[r].unsent /\ x.created = run[r].created /\ x.earlyCancels = run[r].earlyCancels
      /\ x.reaches = run[r].reaches /\ x.pickRelaunch = run[r].pickRelaunch
      /\ x.pc = run[r].pc \/ (run[r].pc \in AtAgent /\ x.pc = "over")
  BY <1>1 DEF ConnectionLost, RunRecord
<1>3. x \in RunRecord
  BY <1>1, ConnectionLostType
<1> HIDE DEF x
<1>4. \E p, c : run' = [run EXCEPT ![r] = [x EXCEPT !.proc = p, !.clean = c]]
  <2>1. CASE ConnectionCut(r)
    <3>1. [x EXCEPT !.proc = "cut"] = [x EXCEPT !.proc = "cut", !.clean = x.clean]
      BY <1>3 DEF RunRecord
    <3>2. run' = [run EXCEPT ![r] = [x EXCEPT !.proc = "cut"]]
      BY <2>1 DEF ConnectionCut, x
    <3> QED  BY <3>1, <3>2
  <2>2. CASE \E clean \in BOOLEAN : Exit(r, clean)
    <3>1. PICK clean \in BOOLEAN : Exit(r, clean)
      BY <2>2
    <3>2. run' = [run EXCEPT ![r] = [x EXCEPT !.proc = "exited", !.clean = clean]]
      BY <3>1 DEF Exit, x
    <3> QED  BY <3>2
  <2> QED  BY <2>1, <2>2
<1>5. PICK p, c : run' = [run EXCEPT ![r] = [x EXCEPT !.proc = p, !.clean = c]]
  BY <1>4
<1> DEFINE y == [x EXCEPT !.proc = p, !.clean = c]
<1>6. /\ y.unsent = x.unsent /\ y.created = x.created /\ y.earlyCancels = x.earlyCancels
      /\ y.reaches = x.reaches /\ y.pickRelaunch = x.pickRelaunch /\ y.pc = x.pc
  BY <1>3 DEF RunRecord
<1>7. /\ used' = used /\ answers' = answers /\ end' = end /\ cur' = cur /\ msg' = msg /\ writes' = writes
      /\ cancelled' = cancelled /\ stopping' = stopping
  BY DEF ConnectionCut, Exit, chat, table, daemon
<1>8. run' = [run EXCEPT ![r] = y]
  BY <1>5
<1> HIDE DEF y
<1>9. PICK u : u = y
  OBVIOUS
<1>10. /\ u.unsent = run[r].unsent /\ u.created = run[r].created /\ run[r].earlyCancels <= u.earlyCancels
       /\ u.reaches = run[r].reaches /\ u.pickRelaunch = run[r].pickRelaunch
       /\ u.pc = run[r].pc \/ (run[r].pc \in AtAgent /\ u.pc = "over")
  BY <1>1, <1>2, <1>6, <1>9
<1>11. run' = [run EXCEPT ![r] = u]
  BY <1>8, <1>9
<1>12. Flows(run[r], u) /\ HolderFlows(run[r], u)
  <2>1. CASE u.pc = run[r].pc
    BY <1>10, <2>1, StandFlows
  <2>2. CASE u.pc = "over"
    <3>1. ~Anew(u) /\ u.pc \notin Silences
      BY <2>2 DEF Anew, Silences
    <3> QED  BY <1>10, <2>2, <3>1, TalkFlows
  <2> QED  BY <1>10, <2>1, <2>2
<1>13. u.pc = "reopen" <=> run[r].pc = "reopen"
  BY <1>10 DEF AtAgent
<1>14. CallsGo /\ QueueGoes /\ AnswersGo /\ CancelGoes /\ EndGoes
  BY <1>7, CallsSame, MildNone, AnswersSame, CancelSame, CurKept DEF QueueGoes
<1> QED  BY <1>1, <1>7, <1>11, <1>12, <1>13, <1>14, RunFlow

LEMMA SpawnFlow ==
  ASSUME TypeInv, TextInv, NEW r \in 1..used, Spawn(r) PROVE Flow
<1>1. run[r] \in RunRecord /\ run[r].earlyCancels \in Nat /\ LineInv /\ run[r].pc = "launch"
  BY Registry, EarlyNat DEF TypeInv, TextInv, Spawn
<1> DEFINE y == [run[r] EXCEPT !.pc = "init", !.proc = "alive", !.idle = "on"]
<1>2. y.pc = "init" /\ y.unsent = run[r].unsent /\ y.earlyCancels = run[r].earlyCancels
  BY <1>1 DEF RunRecord
<1>3. run' = [run EXCEPT ![r] = y]
  <2>1. r \in Runs
    BY Registry DEF TypeInv
  <2> QED  BY <2>1 DEF Spawn, TypeInv, TypeOK
<1> HIDE DEF y
<1>4. PICK u : u = y
  OBVIOUS
<1>5. u.pc = "init" /\ u.unsent = run[r].unsent /\ run[r].earlyCancels <= u.earlyCancels
      /\ run' = [run EXCEPT ![r] = u]
  BY <1>1, <1>2, <1>3, <1>4
<1>6. /\ used' = used /\ answers' = answers /\ end' = end /\ cur' = cur /\ msg' = msg /\ writes' = writes
      /\ cancelled' = cancelled /\ stopping' = stopping
  BY DEF Spawn, chat, table, daemon, history
<1>7. ~Anew(u) /\ u.pc \notin {"reopen", "interrupt"} /\ run[r].pc \in Silences
  BY <1>1, <1>5 DEF Anew, Silences
<1>8. Flows(run[r], u) /\ HolderFlows(run[r], u)
  BY <1>5, <1>7, TalkFlows
<1>9. CallsGo /\ QueueGoes /\ AnswersGo /\ CancelGoes /\ EndGoes
  BY <1>6, CallsSame, MildNone, AnswersSame, CancelSame, CurKept DEF QueueGoes
<1>10. u.pc = "reopen" <=> run[r].pc = "reopen"
  BY <1>1, <1>5
<1> QED  BY <1>1, <1>5, <1>6, <1>8, <1>9, <1>10, RunFlow

\* A step of a run to a new session, before anything was taken back from it.
LEMMA BeginFlows ==
  ASSUME NEW x, NEW y, y.pc \notin {"reopen", "interrupt"},
         y.pc \in Silences => x.pc \in Silences \union {"interrupt"},
         x.earlyCancels <= y.earlyCancels, Silent(x), ~answers.answered, cancelled' = {}
  PROVE  Flows(x, y) /\ HolderFlows(x, y)
  BY DEF Flows, HolderFlows, AnewGoes

LEMMA InitializedFlow ==
  ASSUME TypeInv, TextInv, NEW r \in 1..used, Initialized(r) PROVE Flow
<1> DEFINE x == run[r]
<1>1. x \in RunRecord /\ x.earlyCancels \in Nat /\ LineInv /\ x.pc = "init" /\ x.earlyCancels <= x.earlyCancels
  BY Registry, EarlyNat DEF TypeInv, TextInv, Initialized
<1>2. /\ used' = used /\ answers' = answers /\ end' = end /\ cur' = cur /\ msg' = msg /\ writes' = writes
      /\ cancelled' = cancelled /\ stopping' = stopping
  BY DEF Initialized, chat, table, daemon, history
<1>3. \E y : /\ run' = [run EXCEPT ![r] = y] /\ y.earlyCancels = x.earlyCancels
             /\ \/ y.pc \in {"over", "open"} /\ y.unsent = x.unsent
                \/ y.pc = "create" /\ ~stored
  <2>1. CASE x.quiet
    <3>1. run' = [run EXCEPT ![r] = [x EXCEPT !.pc = "over"]]
      BY <2>1 DEF Initialized
    <3>2. [x EXCEPT !.pc = "over"].pc = "over" /\ [x EXCEPT !.pc = "over"].unsent = x.unsent
          /\ [x EXCEPT !.pc = "over"].earlyCancels = x.earlyCancels
      BY <1>1 DEF RunRecord
    <3> QED  BY <3>1, <3>2
  <2>2. CASE ~x.quiet /\ stored
    <3>1. run' = [run EXCEPT ![r] = [x EXCEPT !.pc = "open"]]
      BY <2>2 DEF Initialized, OpenSession
    <3>2. [x EXCEPT !.pc = "open"].pc = "open" /\ [x EXCEPT !.pc = "open"].unsent = x.unsent
          /\ [x EXCEPT !.pc = "open"].earlyCancels = x.earlyCancels
      BY <1>1 DEF RunRecord
    <3> QED  BY <3>1, <3>2
  <2>3. CASE ~x.quiet /\ ~stored
    <3> DEFINE y == [x EXCEPT !.pc = "create", !.unsent = answers.unanswered]
    <3>1. run' = [run EXCEPT ![r] = y]
      BY <2>3 DEF Initialized, OpenSession
    <3>2. y.pc = "create" /\ y.earlyCancels = x.earlyCancels
      BY <1>1 DEF RunRecord
    <3> HIDE DEF y
    <3> QED  BY <2>3, <3>1, <3>2
  <2> QED  BY <2>1, <2>2, <2>3
<1>4. PICK y : /\ run' = [run EXCEPT ![r] = y] /\ y.earlyCancels = x.earlyCancels
               /\ \/ y.pc \in {"over", "open"} /\ y.unsent = x.unsent
                  \/ y.pc = "create" /\ ~stored
  BY <1>3
<1>5. x.pc \in Silences /\ y.pc \notin {"reopen", "interrupt"} /\ x.earlyCancels <= y.earlyCancels
  BY <1>1, <1>4 DEF Silences
<1>6. Flows(x, y) /\ HolderFlows(x, y)
  <2>1. CASE y.pc \in {"over", "open"} /\ y.unsent = x.unsent
    <3>1. ~Anew(y)
      BY <2>1 DEF Anew
    <3> QED  BY <1>5, <2>1, <3>1, TalkFlows
  <2>2. CASE y.pc = "create" /\ ~stored
    <3>1. Silent(x) /\ ~answers.answered /\ cancelled' = {}
      BY <1>2, <1>5, <2>2 DEF Silent, TextInv, StoredInv
    <3> QED  BY <1>5, <3>1, BeginFlows
  <2> QED  BY <1>4, <2>1, <2>2
<1>7. CallsGo /\ QueueGoes /\ AnswersGo /\ CancelGoes /\ EndGoes
  BY <1>2, CallsSame, MildNone, AnswersSame, CancelSame, CurKept DEF QueueGoes
<1>8. y.pc = "reopen" <=> run[r].pc = "reopen"
  BY <1>1, <1>5
<1> QED  BY <1>1, <1>2, <1>4, <1>6, <1>7, <1>8, RunFlow

LEMMA CancelNone == ASSUME cancelled' = {} PROVE CancelGoes
  BY DEF CancelGoes

LEMMA SessionLostFlow ==
  ASSUME Base, TextInv, NEW r \in 1..used, SessionLost(r) PROVE Flow
<1> DEFINE x == run[r]
<1>1. x \in RunRecord /\ x.earlyCancels \in Nat /\ LineInv /\ x.pc = "open" /\ TypeInv
      /\ x.earlyCancels <= x.earlyCancels
  BY Registry, EarlyNat DEF TypeInv, TextInv, SessionLost, Base
<1>2. CASE answers.answered
  <2>1. Calm
    BY <1>1, <1>2, FailCalm
  <2>2. stopping' = stopping
    BY DEF SessionLost, daemon
  <2> QED  BY <2>1, <2>2, CalmFlow
<1>3. CASE ~answers.answered
  <2>1. /\ used' = used /\ answers' = answers /\ end' = end /\ cur' = cur /\ msg' = msg /\ writes' = writes
        /\ cancelled' = {} /\ stopping' = stopping
    BY <1>3 DEF SessionLost, chat, table, daemon
  <2> DEFINE y == [x EXCEPT !.pc = "create", !.unsent = answers.unanswered]
  <2>2. run' = [run EXCEPT ![r] = y]
    BY <1>1, <1>3 DEF SessionLost, TypeInv, TypeOK
  <2>3. y.pc = "create" /\ y.earlyCancels = x.earlyCancels
    BY <1>1 DEF RunRecord
  <2> HIDE DEF y
  <2>4. PICK u : u = y
    OBVIOUS
  <2>5. x.pc \in Silences /\ u.pc \notin {"reopen", "interrupt"} /\ x.earlyCancels <= u.earlyCancels /\ Silent(x)
    BY <1>1, <2>3, <2>4 DEF Silences, Silent
  <2>6. Flows(x, u) /\ HolderFlows(x, u)
    BY <1>3, <2>1, <2>5, BeginFlows
  <2>7. CallsGo /\ QueueGoes /\ AnswersGo /\ CancelGoes /\ EndGoes
    BY <1>1, <2>1, CallsSame, MildNone, AnswersSame, CancelNone, CurKept DEF QueueGoes
  <2>8. (u.pc = "reopen" <=> run[r].pc = "reopen") /\ run' = [run EXCEPT ![r] = u]
    BY <1>1, <2>2, <2>4, <2>5
  <2> QED  BY <1>1, <2>1, <2>6, <2>7, <2>8, RunFlow
<1> QED  BY <1>2, <1>3

LEMMA SessionCreatedFlow ==
  ASSUME Base, TextInv, AnewInv, NEW r \in 1..used, SessionCreated(r) PROVE Flow
<1> DEFINE x == run[r]
           y == [x EXCEPT !.pc = "store", !.created = TRUE]
           w == WThen(Plain("other"), r, "session")
<1>1. x \in RunRecord /\ x.earlyCancels \in Nat /\ LineInv /\ TypeInv /\ r \in 0..MaxRuns
      /\ x.earlyCancels <= x.earlyCancels
  BY Registry, EarlyNat DEF TypeInv, TextInv, Base
<1>2. x.pc = "create" /\ Holder(r)
  BY AtPlaceHolds DEF SessionCreated
<1>3. /\ used' = used /\ answers' = answers /\ end' = end /\ cur' = cur /\ msg' = msg
      /\ cancelled' = {} /\ stopping' = stopping
      /\ run' = [run EXCEPT ![r] = y] /\ writes' = Append(writes, w)
  BY <1>1 DEF SessionCreated, chat, table, daemon, TypeInv, TypeOK
<1>4. QueueGoes
  <2>1. Plain("other") \in SilentEvents
    BY SilentKinds DEF EventKinds
  <2>2. w \in Addable
    BY <1>1, <2>1, SilentAdds DEF Conts
  <2>3. Adds
    BY <1>1, <1>3, <2>2, AddsOne
  <2> QED  BY <2>3, MildAdds DEF QueueGoes
<1>5. y.pc = "store" /\ y.earlyCancels = x.earlyCancels
  BY <1>1 DEF RunRecord
<1> HIDE DEF y
<1>6. PICK u : u = y
  OBVIOUS
<1>7. x.pc \in Silences /\ u.pc \notin {"reopen", "interrupt"} /\ x.earlyCancels <= u.earlyCancels /\ Silent(x) /\ Anew(x)
  BY <1>1, <1>2, <1>5, <1>6 DEF Silences, Silent, Anew
<1>8. ~answers.answered
  BY <1>2, <1>7 DEF AnewInv, AnewFits
<1>9. Flows(x, u) /\ HolderFlows(x, u)
  BY <1>3, <1>7, <1>8, BeginFlows
<1>10. CallsGo /\ AnswersGo /\ CancelGoes /\ EndGoes
  BY <1>3, CallsSame, AnswersSame, CancelNone, CurKept
<1>11. (u.pc = "reopen" <=> run[r].pc = "reopen") /\ run' = [run EXCEPT ![r] = u]
  BY <1>2, <1>3, <1>6, <1>7
<1> QED  BY <1>1, <1>3, <1>4, <1>9, <1>10, <1>11, RunFlow

LEMMA EarlyStays ==
  ASSUME NEW x \in RunRecord
  PROVE  /\ Touch(x).earlyCancels = x.earlyCancels /\ EndProcess(x).earlyCancels = x.earlyCancels
         /\ CancelOpen(x).earlyCancels = x.earlyCancels /\ RunTurn(x).earlyCancels = x.earlyCancels
         /\ EndTurn(x).earlyCancels = x.earlyCancels
<1>1. ASSUME NEW z \in RunRecord PROVE Touch(z).earlyCancels = z.earlyCancels
  BY DEF Touch, RunRecord
<1>2. ASSUME NEW z \in RunRecord PROVE EndProcess(z).earlyCancels = z.earlyCancels
  BY DEF EndProcess, RunRecord
<1>3. CancelOpen(x).earlyCancels = x.earlyCancels
  <2>1. [x EXCEPT !.open = {}] \in RunRecord /\ [x EXCEPT !.open = {}].earlyCancels = x.earlyCancels
    BY DEF RunRecord
  <2> QED  BY <1>1, <2>1 DEF CancelOpen
<1>4. RunTurn(x).earlyCancels = x.earlyCancels
  <2> DEFINE y == [x EXCEPT !.unsent = <<>>, !.cancelAsked = FALSE, !.turnCancelled = FALSE]
             z == [y EXCEPT !.pc = "over"]
  <2>1. <<>> \in Seq(Texts) /\ "over" \in Places
    BY DEF Places
  <2>2. y \in RunRecord /\ y.earlyCancels = x.earlyCancels
    BY <2>1 DEF RunRecord
  <2> HIDE DEF y
  <2>3. z \in RunRecord /\ z.earlyCancels = x.earlyCancels /\ [y EXCEPT !.pc = "prompt"].earlyCancels = x.earlyCancels
    BY <2>1, <2>2 DEF RunRecord
  <2> HIDE DEF z
  <2>4. EndProcess(z).earlyCancels = x.earlyCancels
    BY <1>2, <2>3
  <2>5. RunTurn(x) = [y EXCEPT !.pc = "prompt"] \/ RunTurn(x) = EndProcess(z)
    BY DEF RunTurn, y, z
  <2> QED  BY <2>3, <2>4, <2>5
<1>5. EndTurn(x).earlyCancels = x.earlyCancels
  <2> DEFINE y == [x EXCEPT !.turning = FALSE, !.pc = "idle", !.open = {}]
  <2>1. "idle" \in Places
    BY DEF Places
  <2>2. y \in RunRecord /\ y.earlyCancels = x.earlyCancels
    BY <2>1 DEF RunRecord
  <2>3. [x EXCEPT !.turning = FALSE, !.pc = "over"].earlyCancels = x.earlyCancels
    BY DEF RunRecord
  <2> HIDE DEF y
  <2>4. Touch(y).earlyCancels = x.earlyCancels
    BY <1>1, <2>2
  <2>5. EndTurn(x) = [x EXCEPT !.turning = FALSE, !.pc = "over"] \/ EndTurn(x) = Touch(y)
    BY DEF EndTurn, y
  <2> QED  BY <2>3, <2>4, <2>5
<1> QED  BY <1>1, <1>2, <1>3, <1>4, <1>5

LEMMA FirstTurnEarly ==
  ASSUME NEW x \in RunRecord PROVE FirstTurn(x).earlyCancels = x.earlyCancels
<1> DEFINE y == [x EXCEPT !.reaches = TRUE]
           u == IF answers.answered THEN <<>> ELSE x.unsent
           z == [y EXCEPT !.unsent = u, !.turnCancelled = TRUE]
<1>1. <<>> \in Seq(Texts)
  OBVIOUS
<1>2. u \in Seq(Texts)
  BY <1>1 DEF RunRecord
<1>3. y \in RunRecord /\ y.earlyCancels = x.earlyCancels /\ y.unsent = x.unsent
  BY DEF RunRecord
<1>4. FirstTurn(x) = RunTurn(y) \/ FirstTurn(x) = EndTurn([y EXCEPT !.unsent = IF answers.answered THEN <<>> ELSE @, !.turnCancelled = TRUE])
  BY DEF FirstTurn
<1>5. [y EXCEPT !.unsent = IF answers.answered THEN <<>> ELSE @, !.turnCancelled = TRUE] = z
  BY <1>3
<1> HIDE DEF y, u
<1>6. z \in RunRecord /\ z.earlyCancels = y.earlyCancels
  BY <1>2, <1>3 DEF RunRecord
<1> HIDE DEF z
<1>7. RunTurn(y).earlyCancels = x.earlyCancels /\ EndTurn(z).earlyCancels = x.earlyCancels
  BY <1>3, <1>6, EarlyStays
<1> QED  BY <1>4, <1>5, <1>7

\* A written text that the holder drops is with no run.
LEMMA DropsHeld ==
  ASSUME TypeInv, HoldersStay, NEW r \in 1..used, Holder(r), run'[r].unsent = <<>>, msg' = msg,
         NEW t, ~Fresh(t)
  PROVE  Dropped(t)'
<1>1. ~(Fresh(t)')
  BY DEF Fresh
<1>2. ToSet(run'[r].unsent) = {}
  BY DEF ToSet
<1>3. Unheld(t)'
  <2> SUFFICES ASSUME NEW s \in 1..used', Holder(s)' PROVE t \notin ToSet(run'[s].unsent)
    BY DEF Unheld
  <2>1. Holder(s)
    BY DEF HoldersStay
  <2>2. s = r
    BY <2>1, HolderOne
  <2> QED  BY <1>2, <2>2
<1> QED  BY <1>1, <1>3 DEF Dropped

LEMMA FirstTurnFlow ==
  ASSUME Base, TextInv, AnewInv, NEW r \in 1..used, ~run[r].quiet, run[r].pc \in {"options", "held"},
         NEW x \in RunRecord, x.earlyCancels = run[r].earlyCancels,
         \/ x.unsent = run[r].unsent
         \/ x.unsent = answers.unanswered /\ run[r].created /\ run[r].pc = "held",
         ~run[r].pickRelaunch,
         run' = [run EXCEPT ![r] = FirstTurn(x)], writes' = writes \o FirstTurnWrites(x, r),
         cancelled' = FirstTurnCancelled(x), chat' = chat, table' = table, end' = end, cur' = cur,
         msg' = msg, stopping' = stopping
  PROVE  Flow
<1>1. TypeInv /\ LineInv /\ r \in 0..MaxRuns /\ used' = used /\ answers' = answers /\ run[r].earlyCancels \in Nat
  BY Registry, EarlyNat DEF TypeInv, Base, TextInv, chat, table
<1>2. Holder(r)
  BY TurnHolds
<1>3. x.unsent = run[r].unsent \/ cancelled = {}
  <2>1. CASE x.unsent = answers.unanswered /\ run[r].created /\ run[r].pc = "held"
    <3>1. Anew(run[r])
      BY <2>1 DEF Anew
    <3> QED  BY <1>2, <3>1 DEF AnewInv, AnewFits, EndsOver
  <2> QED  BY <2>1
<1>4. PICK y : y = FirstTurn(x)
  OBVIOUS
<1>5. /\ run' = [run EXCEPT ![r] = y] /\ run[r].earlyCancels <= y.earlyCancels
      /\ y.pc \in {"idle", "over", "prompt"} /\ y.unsent \in {x.unsent, <<>>}
      /\ x.cancelledEarly /\ answers.answered => y.unsent = <<>>
  <2>1. y.earlyCancels = run[r].earlyCancels
    BY <1>4, FirstTurnEarly
  <2>2. CASE x.cancelledEarly
    <3>1. y.pc \in {"idle", "over"} /\ y.unsent \in {x.unsent, <<>>}
      BY <1>4, <2>2, CancelledTurnFields
    <3>2. answers.answered => y.unsent = <<>>
      <4> DEFINE v == [x EXCEPT !.reaches = TRUE]
                 z == [v EXCEPT !.unsent = <<>>, !.turnCancelled = TRUE]
      <4>1. answers.answered => y = EndTurn(z)
        BY <1>4, <2>2 DEF FirstTurn
      <4>2. z \in RunRecord /\ z.unsent = <<>>
        <5>1. <<>> \in Seq(Texts)
          OBVIOUS
        <5> QED  BY <5>1 DEF RunRecord
      <4> HIDE DEF z
      <4>3. EndTurn(z).unsent = <<>>
        BY <4>2, EndTurnFields
      <4> QED  BY <4>1, <4>3
    <3> QED  BY <1>1, <1>4, <2>1, <3>1, <3>2
  <2>3. CASE ~x.cancelledEarly
    <3> DEFINE z == [x EXCEPT !.reaches = TRUE]
    <3>1. z \in RunRecord /\ y = RunTurn(z)
      BY <1>4, <2>3 DEF FirstTurn, RunRecord
    <3> HIDE DEF z
    <3>2. y.pc \in {"prompt", "over"} /\ y.unsent = <<>>
      BY <3>1, RunTurnFields
    <3> QED  BY <1>1, <1>4, <2>1, <2>3, <3>2
  <2> QED  BY <2>2, <2>3
<1>6. ~Anew(y) /\ y.pc \notin Silences /\ y.pc \notin {"reopen", "interrupt"}
  BY <1>5 DEF Anew, Silences
<1>7. \A t \in cancelled \intersect cancelled' : t \in ToSet(y.unsent) => t \in ToSet(run[r].unsent) \/ msg'[t].restarts
  <2>1. ToSet(<<>>) = {}
    BY DEF ToSet
  <2> QED  BY <1>3, <1>5, <2>1
<1>8. Flows(run[r], y) /\ HolderFlows(run[r], y)
  BY <1>5, <1>6, <1>7, TalkFlows
<1>9. y.pc = "reopen" <=> run[r].pc = "reopen"
  BY <1>6
<1>10. HoldersStay /\ run'[r] = y
  <2>1. r \in Runs
    BY <1>1, Registry DEF TypeInv
  <2> QED  BY <1>1, <1>5, <1>8, <1>9, <2>1, OneFlows DEF TypeInv, TypeOK
<1>11. QueueGoes
  <2>1. CASE x.cancelledEarly
    <3> DEFINE z == [x EXCEPT !.turnCancelled = TRUE]
    <3>1. z \in RunRecord /\ z.turnCancelled
      BY DEF RunRecord
    <3> HIDE DEF z
    <3>2. EndTurnWrites(z, r) \in Seq(Addable)
      BY <1>1, <3>1, EndTurnAdds
    <3>3. writes' = writes \o EndTurnWrites(z, r)
      BY <2>1 DEF FirstTurnWrites, z
    <3>4. Adds
      BY <3>2, <3>3 DEF Adds
    <3> QED  BY <3>4, MildAdds DEF QueueGoes
  <2>2. CASE ~x.cancelledEarly
    <3>1. writes \in Seq(Write) /\ writes \o <<>> = writes
      BY <1>1 DEF TypeInv, TypeOK
    <3>2. writes' = writes
      BY <2>2, <3>1 DEF FirstTurnWrites
    <3> QED  BY <1>1, <3>2, MildNone DEF QueueGoes
  <2> QED  BY <2>1, <2>2
<1>12. CancelGoes
  <2>1. \A t \in cancelled' : t \in cancelled \/ Dropped(t)'
    <3> SUFFICES ASSUME NEW t \in cancelled', t \notin cancelled PROVE Dropped(t)'
      OBVIOUS
    <3>1. x.cancelledEarly /\ answers.answered /\ t \in ToSet(x.unsent)
      BY DEF FirstTurnCancelled
    <3>2. ~Fresh(t)
      <4>1. t \in Texts /\ (t \in ToSet(run[r].unsent) \/ t \in ToSet(answers.unanswered))
        <5>1. \A s \in Seq(Texts) : ToSet(s) \subseteq Texts
          BY DEF ToSet
        <5> QED  BY <3>1, <5>1 DEF RunRecord
      <4> QED  BY <4>1 DEF TextInv, FreshInv, Has
    <3>3. run'[r].unsent = <<>>
      BY <1>5, <1>10, <3>1
    <3> QED  BY <1>1, <1>2, <1>10, <3>2, <3>3, DropsHeld
  <2>2. ASSUME NEW s \in 1..used, Holder(s), Anew(run'[s]) PROVE FALSE
    <3>1. s = r
      BY <1>1, <1>2, <2>2, HolderOne
    <3> QED  BY <1>6, <1>10, <2>2, <3>1
  <2> QED  BY <2>1, <2>2 DEF CancelGoes
<1>13. CallsGo /\ AnswersGo /\ EndGoes
  BY <1>1, CallsSame, AnswersSame, CurKept
<1> QED  BY <1>1, <1>5, <1>8, <1>9, <1>11, <1>12, <1>13, RunFlow

LEMMA OptionsOverFlow ==
  ASSUME Base, TextInv, AnewInv, NEW r \in 1..used, OptionsDone(r) PROVE Flow
<1>1. TypeInv /\ run[r] \in RunRecord /\ run[r].pc = "options" /\ ~run[r].quiet /\ ~run[r].pickRelaunch
      /\ stopping' = stopping
  BY Registry DEF TypeInv, Base, OptionsDone, daemon
<1>2. CASE run[r].held # <<>>
  <2>1. Calm
    BY <1>1, <1>2, OptionsHeldCalm
  <2> QED  BY <1>1, <2>1, CalmFlow
<1>3. CASE run[r].held = <<>>
  <2> DEFINE x == [run[r] EXCEPT !.session = TRUE]
  <2>1. /\ x \in RunRecord /\ x.earlyCancels = run[r].earlyCancels /\ x.unsent = run[r].unsent
        /\ x.held = run[r].held
    BY <1>1 DEF RunRecord
  <2>2. /\ run' = [run EXCEPT ![r] = FirstTurn(x)] /\ writes' = writes \o FirstTurnWrites(x, r)
        /\ cancelled' = FirstTurnCancelled(x) /\ chat' = chat /\ table' = table /\ end' = end /\ cur' = cur
        /\ msg' = msg
    BY <1>3, <2>1 DEF OptionsDone
  <2> HIDE DEF x
  <2> PICK y : y = x
    OBVIOUS
  <2>3. y \in RunRecord /\ y.earlyCancels = run[r].earlyCancels /\ y.unsent = run[r].unsent
    BY <2>1
  <2>4. run' = [run EXCEPT ![r] = FirstTurn(y)] /\ writes' = writes \o FirstTurnWrites(y, r)
        /\ cancelled' = FirstTurnCancelled(y)
    BY <2>2
  <2> QED  BY <1>1, <2>2, <2>3, <2>4, FirstTurnFlow
<1> QED  BY <1>2, <1>3

LEMMA StoppedFlow ==
  ASSUME Base, TextInv, NEW r \in 1..used,
         (HeldOver(r) /\ (run[r].quiet \/ stopping)) \/ (NextPrompt(r) /\ stopping)
  PROVE  Flow
<1> DEFINE x == run[r]
<1>1. x \in RunRecord /\ TypeInv /\ LineInv /\ x.earlyCancels \in Nat
  BY Registry, EarlyNat DEF TypeInv, Base, TextInv
<1>2. /\ used' = used /\ answers' = answers /\ end' = end /\ cur' = cur /\ msg' = msg /\ writes' = writes
      /\ cancelled' = cancelled /\ stopping' = stopping /\ x.pc \in {"held", "check"}
  BY DEF HeldOver, NextPrompt, chat, table, history, daemon
<1>3. \E y : run' = [run EXCEPT ![r] = y] /\ y.pc = "over" /\ y.unsent = x.unsent /\ y.earlyCancels = x.earlyCancels
  <2>1. CASE HeldOver(r)
    <3>1. run' = [run EXCEPT ![r] = [x EXCEPT !.pc = "over"]]
      BY <1>1, <1>2, <2>1 DEF HeldOver, NextPrompt
    <3>2. [x EXCEPT !.pc = "over"].pc = "over" /\ [x EXCEPT !.pc = "over"].unsent = x.unsent
          /\ [x EXCEPT !.pc = "over"].earlyCancels = x.earlyCancels
      BY <1>1 DEF RunRecord
    <3> QED  BY <3>1, <3>2
  <2>2. CASE NextPrompt(r)
    <3> DEFINE y == [x EXCEPT !.pc = "over", !.endCheck = FALSE]
    <3>1. run' = [run EXCEPT ![r] = y]
      BY <1>1, <1>2, <2>2 DEF HeldOver, NextPrompt
    <3>2. y.pc = "over" /\ y.unsent = x.unsent /\ y.earlyCancels = x.earlyCancels
      BY <1>1 DEF RunRecord
    <3> HIDE DEF y
    <3> QED  BY <3>1, <3>2
  <2> QED  BY <2>1, <2>2
<1>4. PICK y : run' = [run EXCEPT ![r] = y] /\ y.pc = "over" /\ y.unsent = x.unsent /\ y.earlyCancels = x.earlyCancels
  BY <1>3
<1>5. ~Anew(y) /\ y.pc \notin Silences /\ x.earlyCancels <= y.earlyCancels
  BY <1>1, <1>4 DEF Anew, Silences
<1>6. Flows(x, y) /\ HolderFlows(x, y)
  BY <1>4, <1>5, TalkFlows
<1>7. CallsGo /\ QueueGoes /\ AnswersGo /\ CancelGoes /\ EndGoes
  BY <1>1, <1>2, CallsSame, MildNone, AnswersSame, CancelSame, CurKept DEF QueueGoes
<1>8. y.pc = "reopen" <=> run[r].pc = "reopen"
  BY <1>2, <1>4
<1> QED  BY <1>1, <1>2, <1>4, <1>6, <1>7, <1>8, RunFlow

LEMMA HeldOverFlow ==
  ASSUME Base, TextInv, AnewInv, NEW r \in 1..used, HeldOver(r) PROVE Flow
<1>1. TypeInv /\ run[r] \in RunRecord /\ run[r].pc = "held" /\ ~run[r].pickRelaunch
  BY Registry DEF TypeInv, Base, HeldOver, TextInv, FormInv, Form
<1>2. CASE run[r].quiet \/ stopping
  BY <1>2, StoppedFlow
<1>3. CASE ~(run[r].quiet \/ stopping)
  <2> DEFINE u == IF run[r].created THEN answers.unanswered ELSE run[r].unsent
             x == [run[r] EXCEPT !.unsent = u]
  <2>1. u \in Seq(Texts)
    BY <1>1 DEF RunRecord, TypeInv, TypeOK, Answers
  <2>2. u = run[r].unsent \/ (u = answers.unanswered /\ run[r].created /\ run[r].pc = "held")
    BY <1>1
  <2>3. /\ run' = [run EXCEPT ![r] = FirstTurn(x)] /\ writes' = writes \o FirstTurnWrites(x, r)
        /\ cancelled' = FirstTurnCancelled(x) /\ chat' = chat /\ table' = table /\ end' = end /\ cur' = cur
        /\ msg' = msg /\ stopping' = stopping
    BY <1>3 DEF HeldOver, daemon
  <2> HIDE DEF u
  <2>4. x \in RunRecord /\ x.earlyCancels = run[r].earlyCancels /\ x.unsent = u
    BY <1>1, <2>1 DEF RunRecord
  <2> HIDE DEF x
  <2> PICK y : y = x
    OBVIOUS
  <2>5. y \in RunRecord /\ y.earlyCancels = run[r].earlyCancels
    BY <2>4
  <2>6. \/ y.unsent = run[r].unsent
        \/ y.unsent = answers.unanswered /\ run[r].created /\ run[r].pc = "held"
    BY <2>2, <2>4
  <2>7. run' = [run EXCEPT ![r] = FirstTurn(y)] /\ writes' = writes \o FirstTurnWrites(y, r)
        /\ cancelled' = FirstTurnCancelled(y)
    BY <2>3
  <2> QED  BY <1>1, <1>3, <2>3, <2>5, <2>6, <2>7, FirstTurnFlow
<1> QED  BY <1>2, <1>3

LEMMA NextPromptFlow ==
  ASSUME Base, TextInv, NEW r \in 1..used, NextPrompt(r) PROVE Flow
<1>1. CASE stopping
  BY <1>1, StoppedFlow
<1>2. CASE ~stopping
  <2> DEFINE x == [run[r] EXCEPT !.endCheck = FALSE]
  <2>1. /\ run' = [run EXCEPT ![r] = RunTurn(x)] /\ run[r].pc = "check"
        /\ used' = used /\ answers' = answers /\ end' = end /\ cur' = cur /\ msg' = msg /\ writes' = writes
        /\ cancelled' = cancelled /\ stopping' = stopping
    BY <1>2 DEF NextPrompt, chat, table, daemon
  <2>2. TypeInv /\ LineInv /\ run[r] \in RunRecord /\ run[r].earlyCancels \in Nat
    BY Registry, EarlyNat DEF TypeInv, Base, TextInv
  <2>3. x \in RunRecord /\ x.earlyCancels = run[r].earlyCancels
    BY <2>2 DEF RunRecord
  <2> HIDE DEF x
  <2> PICK y : y = RunTurn(x)
    OBVIOUS
  <2>4. y.unsent = <<>> /\ y.pc \in {"prompt", "over"} /\ y.earlyCancels = x.earlyCancels
    BY <2>3, RunTurnFields, EarlyStays
  <2>5. ~Anew(y) /\ y.pc \notin Silences /\ run[r].earlyCancels <= y.earlyCancels /\ ToSet(y.unsent) = {}
    BY <2>2, <2>3, <2>4 DEF Anew, Silences, ToSet
  <2>6. Flows(run[r], y) /\ HolderFlows(run[r], y)
    BY <2>4, <2>5, TalkFlows
  <2>7. CallsGo /\ QueueGoes /\ AnswersGo /\ CancelGoes /\ EndGoes
    BY <2>1, <2>2, CallsSame, MildNone, AnswersSame, CancelSame, CurKept DEF QueueGoes
  <2>8. (y.pc = "reopen" <=> run[r].pc = "reopen") /\ run' = [run EXCEPT ![r] = y]
    BY <2>1, <2>4
  <2> QED  BY <2>1, <2>2, <2>6, <2>7, <2>8, RunFlow
<1> QED  BY <1>1, <1>2

\* The turn of a message comes after the first prompt of its start.
LEMMA TurnMay ==
  ASSUME Base, TextInv, cur # NoRun, ~run[cur].pickRelaunch, run[cur].turning => run[cur].reaches
  PROVE  MaySpeak
<1>1. TypeInv /\ LineInv /\ cur \in 1..used
  BY Registry DEF Base, TextInv, TypeInv, NoRun
<1>2. run[cur].pc \in Talking \union {"idle"}
  BY <1>1 DEF TextInv, FormInv, Form, Talking, Base, PlaceInv, TurnsFit, TurnFits
<1>3. Holder(cur)
  BY <1>1, <1>2, CurIsHolder DEF Talking, Waits
<1>4. stored
  BY <1>1 DEF TextInv, StoredInv, Unstored
<1>5. ~Anew(run[cur]) /\ run[cur].pc \notin Silences \union {"interrupt"}
  BY <1>2 DEF Anew, Silences, Talking
<1> QED  BY <1>1, <1>3, <1>4, <1>5, HolderOne DEF MaySpeak

\* The write of a message to a run.
LEMMA MildCall ==
  ASSUME TypeInv, MaySpeak, NEW t \in Texts, NEW r \in 1..used,
         writes' = Append(writes, WThen(UserEvent(t), r, "call"))
  PROVE  QueueGoes
<1>1. r \in 0..MaxRuns
  BY Registry DEF TypeInv
<1>2. UserEvent(t) \in Event /\ UserEvent(t).kind = "user"
  BY EventType DEF UserEvent, Plain
<1>3. PICK w : w = WThen(UserEvent(t), r, "call")
  OBVIOUS
<1>4. w \in Write /\ w.cont = "call" /\ w.ev.kind = "user"
  BY <1>1, <1>2, <1>3, WriteType DEF WThen, Conts
<1>5. Mild(w)
  BY <1>4 DEF Mild, IsAnswer
<1> QED  BY <1>3, <1>4, <1>5, MildOne DEF QueueGoes

LEMMA CallsCalled ==
  ASSUME TypeInv, NEW t \in Texts, Sent(t), msg' = [msg EXCEPT ![t].st = "call"]
  PROVE  CallsGo /\ msg'[t].restarts = msg[t].restarts
<1>1. msg'[t].st = "call" /\ msg'[t].restarts = msg[t].restarts /\ \A u \in Texts \ {t} : msg'[u] = msg[u]
  BY DEF TypeInv, TypeOK, Message
<1>2. CallGoes(t)
  BY <1>1 DEF CallGoes, Coming, Fresh, Sent
<1>3. \A u \in Texts \ {t} : CallGoes(u)
  BY <1>1, CallSame
<1> QED  BY <1>1, <1>2, <1>3 DEF CallsGo

LEMMA StartTurnFlow ==
  ASSUME Base, TextInv, NEW t \in Texts, StartTurn(t) PROVE Flow
<1> DEFINE v == run[cur]
           z == [v EXCEPT !.turning = TRUE, !.job = FALSE, !.own = FALSE, !.ownStopped = FALSE]
           w == Touch(StaleAll(z))
<1>1. TypeInv /\ LineInv /\ cur \in 1..used /\ v \in RunRecord /\ v.earlyCancels \in Nat
  BY Registry, EarlyNat DEF TypeInv, Base, TextInv, StartTurn
<1>2. /\ run' = [run EXCEPT ![cur] = RunTurn(w)]
      /\ writes' = Append(writes, WThen(UserEvent(t), cur, "call"))
      /\ ~v.turning /\ Sent(t) /\ msg' = [msg EXCEPT ![t].st = "call"]
      /\ answers' = answers /\ used' = used /\ end' = end /\ cur' = cur /\ cancelled' = cancelled
      /\ stopping' = stopping
  BY DEF StartTurn, chat, table, daemon
<1>0. MaySpeak
  BY <1>2, TurnMay DEF StartTurn
<1>3. z \in RunRecord /\ Carries(v, z)
  BY <1>1 DEF RunRecord, Carries, Connected, Dead
<1> HIDE DEF z
<1>4. w \in RunRecord /\ Carries(z, w)
  <2>1. StaleAll(z) \in RunRecord /\ Steady(z, StaleAll(z))
    BY <1>3, StaleType, StaleSteady
  <2>2. w \in RunRecord /\ Steady(StaleAll(z), w)
    BY <2>1, TouchType, TouchSteady
  <2>3. Steady(z, w)
    BY <2>1, <2>2, SteadyOn
  <2> QED  BY <2>2, <2>3, SteadyCarries
<1> HIDE DEF w
<1> PICK y : y = RunTurn(w)
  OBVIOUS
<1>5. Carries(w, y) /\ y.unsent = <<>> /\ y.pc \in {"prompt", "over"}
  BY <1>4, RunTurnFields
<1>6. v.earlyCancels = y.earlyCancels
  BY <1>3, <1>4, <1>5 DEF Carries
<1>7. v.pc \in {"idle", "over"}
  BY <1>1, <1>2 DEF Base, PlaceInv, TurnsFit, TurnFits
<1>8. ~Anew(y) /\ y.pc \notin Silences /\ v.earlyCancels <= y.earlyCancels /\ ToSet(y.unsent) = {}
  BY <1>1, <1>5, <1>6 DEF Anew, Silences, ToSet
<1>9. Flows(v, y) /\ HolderFlows(v, y)
  <2>1. y.pc \notin {"reopen", "interrupt"}
    BY <1>5
  <2> HIDE DEF v
  <2> QED  BY <1>8, <2>1, TalkFlows
<1>10. CallsGo /\ QueueGoes /\ AnswersGo /\ CancelGoes /\ EndGoes
  BY <1>0, <1>1, <1>2, CallsCalled, MildCall, AnswersSame, CancelSame, CurKept
<1>11. (y.pc = "reopen" <=> run[cur].pc = "reopen") /\ run' = [run EXCEPT ![cur] = y]
  BY <1>2, <1>5, <1>7
<1> PICK c : c = cur
  OBVIOUS
<1>12. c \in 1..used /\ run' = [run EXCEPT ![c] = y] /\ (y.pc = "reopen" <=> run[c].pc = "reopen")
       /\ Flows(run[c], y) /\ HolderFlows(run[c], y)
  BY <1>1, <1>9, <1>11
<1> QED  BY <1>1, <1>2, <1>10, <1>12, RunFlow

LEMMA JoinTurnFlow ==
  ASSUME Base, TextInv, CancelKept, NEW t \in Texts, JoinTurn(t) PROVE Flow
<1> DEFINE v == run[cur]
           steers == IF ~v.cancelAsked /\ Connected(v) THEN v.steering \union {t} ELSE v.steering
           taken == Append(v.unsent, t)
           z == [v EXCEPT !.unsent = taken, !.job = FALSE, !.own = FALSE, !.steering = steers]
<1>1. TypeInv /\ LineInv /\ cur \in 1..used /\ v \in RunRecord /\ v.earlyCancels \in Nat /\ Form(v)
  BY Registry, EarlyNat DEF TypeInv, Base, TextInv, FormInv, JoinTurn
<1>2. /\ run' = [run EXCEPT ![cur] = Touch(z)]
      /\ writes' = Append(writes, WThen(UserEvent(t), cur, "call"))
      /\ ~v.pickRelaunch /\ v.turning /\ v.reaches /\ Sent(t) /\ msg' = [msg EXCEPT ![t].st = "call"]
      /\ answers' = answers /\ used' = used /\ end' = end /\ cur' = cur /\ cancelled' = cancelled
      /\ stopping' = stopping
  BY DEF JoinTurn, chat, table, history, daemon
<1>0. MaySpeak
  BY <1>2, TurnMay DEF JoinTurn
<1>3. v.pc \in Talking
  BY <1>1, <1>2 DEF Form
<1>4. taken \in Seq(Texts) /\ ToSet(taken) = ToSet(v.unsent) \union {t}
  BY <1>1, AppendOnce DEF RunRecord
<1>5. steers \in SUBSET Texts
  BY <1>1 DEF RunRecord
<1> HIDE DEF taken, steers
<1>6. z \in RunRecord
  BY <1>1, <1>4, <1>5 DEF RunRecord
<1>7. z.unsent = taken /\ z.created = v.created /\ z.pc = v.pc /\ z.reaches = v.reaches
      /\ z.pickRelaunch = v.pickRelaunch /\ z.earlyCancels = v.earlyCancels
  BY <1>1 DEF RunRecord
<1> HIDE DEF z
<1> PICK y : y = Touch(z)
  OBVIOUS
<1>8. Steady(z, y)
  BY <1>6, TouchSteady
<1>9. /\ y.unsent = taken /\ y.created = v.created /\ y.pc = v.pc /\ y.reaches = v.reaches
      /\ y.pickRelaunch = v.pickRelaunch /\ v.earlyCancels <= y.earlyCancels
  BY <1>1, <1>7, <1>8 DEF Steady
<1>10. CallsGo /\ msg'[t].restarts = msg[t].restarts
  BY <1>1, <1>2, CallsCalled
<1>11. t \in cancelled => msg'[t].restarts
  BY <1>2, <1>10 DEF CancelKept, Dropped, Passed, Coming, Fresh, Sent
<1>12. \A u \in cancelled \intersect cancelled' : u \in ToSet(y.unsent) => u \in ToSet(v.unsent) \/ msg'[u].restarts
  BY <1>4, <1>9, <1>11
<1>13. v.pc # "reopen"
  BY <1>3 DEF Talking
<1> PICK c : c = cur
  OBVIOUS
<1>14. v = run[c] /\ c \in 1..used /\ run' = [run EXCEPT ![c] = y]
  BY <1>1, <1>2
<1> HIDE DEF v
<1>15. Flows(v, y) /\ HolderFlows(v, y)
  BY <1>9, <1>12, <1>13, StandFlows
<1>16. QueueGoes /\ AnswersGo /\ CancelGoes /\ EndGoes
  BY <1>0, <1>1, <1>2, MildCall, AnswersSame, CancelSame, CurKept
<1>17. y.pc = "reopen" <=> run[c].pc = "reopen"
  BY <1>9, <1>14
<1> QED  BY <1>1, <1>2, <1>10, <1>14, <1>15, <1>16, <1>17, RunFlow

LEMMA InjectFlow ==
  ASSUME TypeInv, TextInv, NEW r \in 1..used, NEW t \in Texts, AgentInjects(r, t) PROVE Flow
<1> DEFINE x == run[r]
           y == [x EXCEPT !.injected = x.injected \union {t}]
<1>1. x \in RunRecord /\ x.earlyCancels \in Nat /\ LineInv
  BY Registry, EarlyNat DEF TypeInv, TextInv
<1>2. /\ run' = [run EXCEPT ![r] = y] /\ writes' = writes /\ answers' = answers /\ used' = used /\ end' = end
      /\ cur' = cur /\ msg' = msg /\ cancelled' = cancelled /\ stopping' = stopping
  BY DEF AgentInjects, chat, table, daemon, TypeInv, TypeOK
<1>3. /\ y.created = x.created /\ x.earlyCancels <= y.earlyCancels
      /\ y.reaches = x.reaches /\ y.pickRelaunch = x.pickRelaunch /\ y.pc = x.pc /\ y.unsent = x.unsent
  BY <1>1 DEF RunRecord
<1> HIDE DEF y
<1> PICK u : u = y
  OBVIOUS
<1>4. /\ u.created = x.created /\ x.earlyCancels <= u.earlyCancels
      /\ u.reaches = x.reaches /\ u.pickRelaunch = x.pickRelaunch /\ u.pc = x.pc /\ u.unsent = x.unsent
      /\ run' = [run EXCEPT ![r] = u]
  BY <1>2, <1>3
<1>5. Flows(x, u) /\ HolderFlows(x, u)
  <2> HIDE DEF x
  <2> QED  BY <1>4, StandFlows
<1>6. CallsGo /\ QueueGoes /\ AnswersGo /\ CancelGoes /\ EndGoes
  BY <1>2, CallsSame, MildNone, AnswersSame, CancelSame, CurKept DEF QueueGoes
<1>7. u.pc = "reopen" <=> run[r].pc = "reopen"
  BY <1>4
<1> QED  BY <1>1, <1>2, <1>4, <1>5, <1>6, <1>7, RunFlow

LEMMA SteerFlow ==
  ASSUME TypeInv, TextInv, NEW r \in 1..used, NEW t \in Texts, SteerAnswered(r, t) PROVE Flow
<1> DEFINE x == run[r]
           v == IF t \in x.injected THEN Without(x.unsent, t) ELSE x.unsent
           y == [x EXCEPT !.steering = x.steering \ {t}, !.injected = x.injected \ {t}, !.unsent = v]
<1>1. x \in RunRecord /\ x.earlyCancels \in Nat /\ LineInv /\ Form(x)
  BY Registry, EarlyNat DEF TypeInv, TextInv, FormInv
<1>2. /\ run' = [run EXCEPT ![r] = y] /\ writes' = writes /\ answers' = answers /\ used' = used /\ end' = end
      /\ cur' = cur /\ msg' = msg /\ cancelled' = cancelled /\ stopping' = stopping /\ t \in x.steering
  BY DEF SteerAnswered, chat, table, daemon, history, TypeInv, TypeOK
<1>3. ToSet(v) \subseteq ToSet(x.unsent)
  <2>1. x.unsent \in Seq(Texts) /\ NoDup(x.unsent)
    BY <1>1 DEF RunRecord, TextInv, OnceInv, UnsentOnce
  <2>2. t \in x.injected => ToSet(Without(x.unsent, t)) \subseteq ToSet(x.unsent)
    BY <2>1, WithoutOnce
  <2> QED  BY <2>2
<1> HIDE DEF v
<1>4. /\ y.created = x.created /\ x.earlyCancels <= y.earlyCancels
      /\ y.reaches = x.reaches /\ y.pickRelaunch = x.pickRelaunch /\ y.pc = x.pc /\ y.unsent = v
  BY <1>1 DEF RunRecord
<1> HIDE DEF y
<1> PICK u : u = y
  OBVIOUS
<1>5. /\ u.created = x.created /\ x.earlyCancels <= u.earlyCancels
      /\ u.reaches = x.reaches /\ u.pickRelaunch = x.pickRelaunch /\ u.pc = x.pc /\ ToSet(u.unsent) \subseteq ToSet(x.unsent)
      /\ run' = [run EXCEPT ![r] = u]
  BY <1>2, <1>3, <1>4
<1>6. x.pc # "reopen"
  BY <1>1, <1>2 DEF Form, Talking
<1>7. Flows(x, u) /\ HolderFlows(x, u)
  <2> HIDE DEF x
  <2> QED  BY <1>5, <1>6, StandFlows
<1>8. CallsGo /\ QueueGoes /\ AnswersGo /\ CancelGoes /\ EndGoes
  BY <1>2, CallsSame, MildNone, AnswersSame, CancelSame, CurKept DEF QueueGoes
<1>9. u.pc = "reopen" <=> run[r].pc = "reopen"
  BY <1>5
<1> QED  BY <1>1, <1>2, <1>5, <1>7, <1>8, <1>9, RunFlow

LEMMA StopKept == ASSUME stopping' = stopping, end' = end, cur' \in {cur, NoRun} PROVE EndGoes
<1>1. \A r \in 1..used : cur # r => cur' # r
  BY DEF NoRun
<1> QED  BY <1>1 DEF EndGoes

\* A message that joins a start takes it from its pick.
LEMMA JoinStartFlow ==
  ASSUME TypeInv, TextInv, AnewInv, NEW t \in Texts, JoinStart(t) PROVE Flow
<1> DEFINE x == run[cur]
           z == IF x.pickRelaunch
                THEN [x EXCEPT !.pickRelaunch = FALSE, !.reaches = FALSE, !.earlierPicks = pick.issued]
                ELSE x
           y == Hold(z, t)
<1>1. cur \in 1..used /\ x \in RunRecord /\ x.earlyCancels \in Nat /\ LineInv
  BY Registry, EarlyNat DEF JoinStart, TypeInv, TextInv
<1>2. /\ used' = used /\ end' = end /\ cur' = cur /\ answers' = answers /\ cancelled' = cancelled
      /\ writes' = writes /\ run' = [run EXCEPT ![cur] = y] /\ stopping' = stopping
      /\ Sent(t) /\ Accepts /\ msg' = HoldCall(t, cur, x.earlyCancels)
  BY DEF JoinStart, chat, table, history, daemon
<1>3. /\ z.unsent = x.unsent /\ z.created = x.created /\ z.pc = x.pc /\ z.earlyCancels = x.earlyCancels
      /\ x.pickRelaunch \/ (z.pickRelaunch = x.pickRelaunch /\ z.reaches = x.reaches)
      /\ z \in RunRecord
  <2>1. pick.issued \in 0..MaxPicks
    BY DEF TypeInv, TypeOK, Pick
  <2>2. CASE x.pickRelaunch
    BY <1>1, <2>1, <2>2 DEF RunRecord
  <2>3. CASE ~x.pickRelaunch
    BY <1>1, <2>3
  <2> QED  BY <2>2, <2>3
<1> HIDE DEF z
<1>4. /\ y.unsent = z.unsent /\ y.created = z.created /\ y.pc = z.pc /\ y.earlyCancels = z.earlyCancels
      /\ y.reaches = z.reaches /\ y.pickRelaunch = z.pickRelaunch
  BY <1>3 DEF Hold, RunRecord
<1>5. Holder(cur) /\ Anew(x) => ~answers.answered /\ cancelled = {}
  BY <1>1, <1>2 DEF AnewInv, AnewFits, EndsOver, Accepts
<1> PICK c, u : c = cur /\ u = y
  OBVIOUS
<1>6. c \in 1..used /\ c = cur /\ x = run[c] /\ run' = [run EXCEPT ![c] = u]
  BY <1>1, <1>2
<1>7. /\ u.unsent = x.unsent /\ u.created = x.created /\ u.pc = x.pc /\ u.earlyCancels = x.earlyCancels
      /\ x.earlyCancels <= u.earlyCancels
      /\ x.pickRelaunch \/ (u.pickRelaunch = x.pickRelaunch /\ u.reaches = x.reaches)
  BY <1>1, <1>3, <1>4
<1> HIDE DEF x, y
<1>8. Anew(u) <=> Anew(x)
  BY <1>7 DEF Anew
<1>9. Flows(x, u)
  BY <1>7 DEF Flows
<1>10. Holder(c) => HolderFlows(x, u)
  BY <1>2, <1>5, <1>6, <1>7, <1>8 DEF HolderFlows, AnewGoes, Silent
<1>11. Flows(run[c], u) /\ (Holder(c) => HolderFlows(run[c], u)) /\ (u.pc = "reopen" <=> run[c].pc = "reopen")
  BY <1>6, <1>7, <1>9, <1>10
<1>12. run'[c] = u /\ x.earlyCancels = run'[c].earlyCancels
  <2>1. c \in Runs /\ run \in [Runs -> RunRecord]
    BY <1>6, Registry DEF TypeInv, TypeOK
  <2> QED  BY <1>6, <1>7, <2>1
<1>13. CallsGo
  <2>1. msg' = [msg EXCEPT ![t] = [msg[t] EXCEPT !.st = "wait", !.run = c, !.cancels = x.earlyCancels]]
    BY <1>2, <1>6 DEF HoldCall
  <2>2. msg[t] \in Message /\ \A v \in Texts \ {t} : msg'[v] = msg[v]
    BY <2>1 DEF TypeInv, TypeOK
  <2>3. /\ msg'[t].st = "wait" /\ msg'[t].run = c /\ msg'[t].cancels = x.earlyCancels
        /\ msg'[t].restarts = msg[t].restarts
    BY <2>1, <2>2 DEF Message, TypeInv, TypeOK
  <2>4. Fresh(t) /\ ~Coming(msg[t])
    BY <1>2 DEF Sent, Fresh, Coming
  <2>5. msg'[t].run \in 1..used' /\ msg'[t].cancels <= run'[msg'[t].run].earlyCancels
    BY <1>2, <1>6, <1>7, <1>12, <2>3
  <2>6. CallGoes(t)
    BY <1>2, <2>3, <2>4, <2>5 DEF CallGoes
  <2> QED  BY <2>2, <2>6, CallSame DEF CallsGo
<1>14. QueueGoes /\ AnswersGo /\ CancelGoes /\ EndGoes
  BY <1>2, MildNone, AnswersSame, CancelSame, CurKept DEF QueueGoes
<1> QED  BY <1>1, <1>2, <1>6, <1>11, <1>13, <1>14, RunFlow

-----------------------------------------------------------------------------
(* A new run, at the end of the line. *)

LEMMA RegisterFlow ==
  ASSUME TypeInv, TextInv, cur = NoRun, NEW x \in RunRecord, Blank(x), Register(x),
         answers' = answers, cancelled' = cancelled, end' = end, writes' = writes, stopping' = stopping, CallsGo
  PROVE  Flow
<1> PICK n : n = used + 1
  OBVIOUS
<1> PICK y : y = Registered(x)
  OBVIOUS
<1>1. used \in Nat /\ n = used + 1 /\ used' = n /\ cur' = n /\ n \in Runs /\ run \in [Runs -> RunRecord]
      /\ run' = [run EXCEPT ![n] = y] /\ last = used
  BY RunnerAssumption DEF TypeInv, TypeOK, Register, Runs, TextInv, LineInv
<1>2. y.pc = "reopen" /\ y.unsent = <<>>
  BY <1>1 DEF Registered, RunRecord, Blank
<1>3. run'[n] = y /\ \A r \in 1..used : run'[r] = run[r]
  BY <1>1
<1>4. (\A r \in 1..n : r = n \/ r \in 1..used) /\ n \notin 1..used /\ 1..used \subseteq 1..n
  BY <1>1
<1>5. Waits(n)' /\ (\A r \in 1..used : Waits(r)' <=> Waits(r))
  BY <1>2, <1>3 DEF Waits
<1>6. ASSUME NEW r PROVE Holder(r)' <=> Holder(r)
  <2>1. n \in 1..used' /\ used' = n /\ 1..used \subseteq 1..n /\ \A s \in 1..used : s < n
    BY <1>1
  <2>2. Holder(r)' => Holder(r)
    BY <1>4, <1>5, <2>1 DEF Holder
  <2>3. Holder(r) => Holder(r)'
    BY <1>4, <1>5, <2>1 DEF Holder
  <2> QED  BY <2>2, <2>3
<1>7. HoldersStay
  BY <1>1, <1>4, <1>6 DEF HoldersStay
<1>8. ASSUME NEW r \in 1..used PROVE Flows(run[r], run'[r]) /\ HolderFlows(run[r], run'[r])
  <2>1. run'[r] = run[r]
    BY <1>3
  <2> QED  BY <2>1, SameFlows
<1>9. RunsFlow
  <2>1. \A r \in 1..used' : r \in 1..used \/ run'[r].unsent = <<>>
    BY <1>1, <1>2, <1>3, <1>4
  <2> QED  BY <1>8, <2>1 DEF RunsFlow
<1>10. EndGoes
  BY <1>1, <1>4 DEF EndGoes
<1> QED  BY <1>7, <1>9, <1>10, MildNone, AnswersSame, CancelSame DEF Flow, QueueGoes

LEMMA RestartFlow ==
  ASSUME TypeInv, TextInv, NEW t \in Texts, Restart(t) PROVE Flow
<1> DEFINE x == Hold(NewRun, t)
<1>1. x \in RunRecord
  BY NewRunType, HoldType
<1>2. Blank(x) /\ x.earlyCancels = 0
  BY DEF Blank, Hold, NewRun
<1>3. Register(x) /\ cur = NoRun /\ Sent(t) /\ msg' = HoldCall(t, used + 1, 0)
      /\ answers' = answers /\ cancelled' = cancelled /\ end' = end /\ writes' = writes /\ stopping' = stopping
  BY DEF Restart, chat, history, daemon
<1> HIDE DEF x
<1> PICK n : n = used + 1
  OBVIOUS
<1>4. used \in Nat /\ used' = n /\ n \in Runs /\ n \in 1..used' /\ run'[n].earlyCancels = 0
  <2>1. used \in Nat /\ used' = n /\ n \in Runs /\ run' = [run EXCEPT ![n] = Registered(x)]
    BY <1>3, RunnerAssumption DEF TypeInv, TypeOK, Register, Runs
  <2>2. run'[n] = Registered(x) /\ n \in 1..n
    BY <2>1 DEF TypeInv, TypeOK, Runs
  <2>3. Registered(x).earlyCancels = 0
    BY <1>1, <1>2 DEF Registered, RunRecord
  <2> QED  BY <2>1, <2>2, <2>3
<1>5. CallsGo
  <2>1. msg' = [msg EXCEPT ![t] = [msg[t] EXCEPT !.st = "wait", !.run = n, !.cancels = 0]]
    BY <1>3 DEF HoldCall
  <2>2. msg[t] \in Message /\ \A v \in Texts \ {t} : msg'[v] = msg[v]
    BY <2>1 DEF TypeInv, TypeOK
  <2>3. msg'[t].st = "wait" /\ msg'[t].run = n /\ msg'[t].cancels = 0 /\ msg'[t].restarts = msg[t].restarts
    BY <2>1, <2>2 DEF Message, TypeInv, TypeOK
  <2>4. Fresh(t) /\ ~Coming(msg[t])
    BY <1>3 DEF Sent, Fresh, Coming
  <2>5. msg'[t].run \in 1..used' /\ msg'[t].cancels <= run'[msg'[t].run].earlyCancels
    <3>1. 0 <= 0
      OBVIOUS
    <3> QED  BY <1>4, <2>3, <3>1
  <2>6. CallGoes(t)
    BY <1>3, <2>3, <2>4, <2>5 DEF CallGoes
  <2> QED  BY <2>2, <2>6, CallSame DEF CallsGo
<1> PICK y : y = x
  OBVIOUS
<1>6. y \in RunRecord /\ Blank(y) /\ Register(y)
  BY <1>1, <1>2, <1>3
<1> QED  BY <1>3, <1>5, <1>6, RegisterFlow

LEMMA PickRelaunchFlow ==
  ASSUME TypeInv, TextInv, PickRelaunches PROVE Flow
<1> DEFINE x == [NewRun EXCEPT !.byPick = TRUE, !.pickRelaunch = TRUE]
<1>1. x \in RunRecord
  BY NewRunType DEF RunRecord
<1>2. Blank(x)
  BY DEF Blank, NewRun
<1>3. Register(x) /\ cur = NoRun /\ msg' = msg
      /\ answers' = answers /\ cancelled' = cancelled /\ end' = end /\ writes' = writes /\ stopping' = stopping
  BY DEF PickRelaunches, chat, history, daemon
<1>4. CallsGo
  BY <1>3, CallsSame
<1> QED  BY <1>1, <1>2, <1>3, <1>4, RegisterFlow

-----------------------------------------------------------------------------
(* The next write is done. *)

LEMMA TailFlow ==
  ASSUME TypeInv, TextInv, writes # <<>>, writes' = Tail(writes), Logged(Head(writes).ev),
         Head(writes).cont = "reopen" => run'[Head(writes).by].pc # "interrupt",
         HoldersStay, RunsFlow, CallsGo, CancelGoes, EndGoes
  PROVE  Flow
<1>1. QueueShifts /\ QueueGoes
  BY DEF QueueShifts, QueueGoes
<1>2. AnswersGo
  <2>1. CallsOnce
    BY DEF TextInv, OnceInv
  <2>2. CASE IsCall(Head(writes))
    <3>1. answers'.answered = answers.answered
      BY <2>1, <2>2, LoggedAnswers
    <3> QED  BY <3>1 DEF AnswersGo
  <2>3. CASE ~IsCall(Head(writes))
    <3>1. answers'.answered = (answers.answered \/ IsAnswer(Head(writes).ev))
      BY <2>1, <2>3, LoggedAnswers
    <3> QED  BY <1>1, <3>1 DEF AnswersGo
  <2> QED  BY <2>2, <2>3
<1> QED  BY <1>1, <1>2 DEF Flow

LEMMA GlidesHold ==
  ASSUME LineInv, used' = used, RunsGlide PROVE HoldersStay
  BY HoldersSame DEF RunsGlide, Glides, PlaceGoes, Waits

LEMMA InterruptDoneFlow ==
  ASSUME TypeInv, TextInv, NEW r \in 1..used, InterruptDone(r) PROVE Flow
<1>1. /\ used' = used /\ end' = end /\ cancelled' = cancelled /\ msg' = msg /\ stopping' = stopping
      /\ writes # <<>> /\ writes' = Tail(writes) /\ Logged(Head(writes).ev)
      /\ Head(writes).cont = "reopen" /\ Head(writes).by = r /\ run[r].pc = "interrupt"
  BY DEF InterruptDone, table, history, daemon
<1>2. r \in Runs /\ run[r] \in RunRecord /\ run \in [Runs -> RunRecord] /\ LineInv /\ FormInv
  BY Registry DEF TypeInv, TypeOK, TextInv
<1>3. RunsGlide /\ cur' \in {cur, NoRun} /\ run'[r].pc # "interrupt"
  <2>1. CASE stopping \/ run[r].quiet
    <3>1. run' = [run EXCEPT ![r] = Overtaken(run[r])] /\ Forget(r)
      BY <2>1 DEF InterruptDone
    <3>2. Glides(run[r], Overtaken(run[r])) /\ Overtaken(run[r]).pc = "over"
      <4>1. Glides(run[r], Overtaken(run[r]))
        BY <1>1, <1>2, OvertakenGlides
      <4>2. Overtaken(run[r]).pc = "over"
        BY <1>2 DEF Overtaken, Silence, RunRecord
      <4> QED  BY <4>1, <4>2
    <3>3. RunsGlide
      BY <3>1, <3>2, GlideOne
    <3>4. cur' \in {cur, NoRun}
      BY <3>1 DEF Forget
    <3> QED  BY <1>2, <3>1, <3>2, <3>3, <3>4
  <2>2. CASE ~(stopping \/ run[r].quiet)
    <3> PICK p : p = IF run[r].byPick THEN "launch" ELSE "hold"
      OBVIOUS
    <3> DEFINE y == [run[r] EXCEPT !.reopened = "ok", !.pc = p]
    <3>1. run' = [run EXCEPT ![r] = y] /\ cur' = cur
      BY <1>2, <2>2 DEF InterruptDone
    <3>2. p \in Places /\ PlaceLeads(run[r], p) /\ p # "reopen" /\ p # "interrupt"
      BY <1>1 DEF PlaceLeads, Places
    <3>3. Glides(run[r], y)
      BY <1>2, <3>2, RoundGlides
    <3>4. y.pc = p
      BY <1>2 DEF RunRecord
    <3> HIDE DEF y
    <3>5. RunsGlide
      BY <3>1, <3>3, GlideOne
    <3>6. run'[r] = y
      BY <1>2, <3>1
    <3> QED  BY <3>1, <3>2, <3>4, <3>5, <3>6
  <2> QED  BY <2>1, <2>2
<1>4. HoldersStay /\ RunsFlow
  BY <1>1, <1>2, <1>3, GlidesHold, GlidesFlow
<1>5. CallsGo /\ CancelGoes /\ EndGoes
  BY <1>1, <1>3, CallsSame, CancelSame, StopKept
<1> QED  BY <1>1, <1>3, <1>4, <1>5, TailFlow

LEMMA SessionStoredFlow ==
  ASSUME TypeInv, TextInv, NEW r \in 1..used, SessionStored(r) PROVE Flow
<1> DEFINE x == run[r]
           y == [x EXCEPT !.pc = "options"]
<1>1. /\ used' = used /\ cur' = cur /\ end' = end /\ cancelled' = cancelled /\ msg' = msg /\ stopping' = stopping
      /\ writes # <<>> /\ writes' = Tail(writes) /\ Logged(Head(writes).ev)
      /\ Head(writes).cont = "session" /\ run[r].pc = "store"
      /\ run' = [run EXCEPT ![r] = [run[r] EXCEPT !.pc = "options"]]
  BY DEF SessionStored, table, history, daemon
<1>2. x \in RunRecord /\ x.earlyCancels \in Nat /\ LineInv
  BY Registry, EarlyNat DEF TypeInv, TextInv
<1>3. /\ y.pc = "options" /\ x.pc = "store" /\ y.unsent = x.unsent /\ y.created = x.created
      /\ y.reaches = x.reaches /\ y.pickRelaunch = x.pickRelaunch /\ x.earlyCancels <= y.earlyCancels
  BY <1>1, <1>2 DEF RunRecord
<1> PICK u : u = y
  OBVIOUS
<1>4. /\ u.pc = "options" /\ x.pc = "store" /\ u.unsent = x.unsent /\ u.created = x.created
      /\ u.reaches = x.reaches /\ u.pickRelaunch = x.pickRelaunch /\ x.earlyCancels <= u.earlyCancels
      /\ run' = [run EXCEPT ![r] = u] /\ x = run[r]
  BY <1>1, <1>3
<1> HIDE DEF x, y
<1>5. Flows(x, u)
  BY <1>4 DEF Flows, Silences
<1>6. HolderFlows(x, u)
  BY <1>4 DEF HolderFlows, AnewGoes, Anew
<1>7. Flows(run[r], u) /\ HolderFlows(run[r], u) /\ (u.pc = "reopen" <=> run[r].pc = "reopen")
  BY <1>4, <1>5, <1>6
<1>8. HoldersStay /\ RunsFlow
  BY <1>1, <1>2, <1>4, <1>7, OneFlows
<1>9. CallsGo /\ CancelGoes /\ EndGoes
  BY <1>1, CallsSame, CancelSame, CurKept
<1> QED  BY <1>1, <1>8, <1>9, TailFlow

LEMMA ResumedDoneFlow ==
  ASSUME TypeInv, TextInv, NEW r \in 1..used, ResumedDone(r) PROVE Flow
<1>1. /\ used' = used /\ cur' = cur /\ end' = end /\ cancelled' = cancelled /\ msg' = msg /\ stopping' = stopping
      /\ writes # <<>> /\ writes' = Tail(writes) /\ Logged(Head(writes).ev)
      /\ Head(writes).cont = "resumed" /\ run[r].pc = "resumed" /\ AfterResumed(r)
  BY DEF ResumedDone, table, history, daemon
<1>2. r \in Runs /\ run[r] \in RunRecord /\ LineInv /\ FormInv
  BY Registry DEF TypeInv, TextInv
<1>3. RunsGlide
  <2>1. CASE run[r].pickRelaunch
    <3>1. run' = [run EXCEPT ![r] = PickRelaunchOver(run[r])]
      BY <1>1, <2>1 DEF AfterResumed
    <3>2. Glides(run[r], PickRelaunchOver(run[r]))
      BY <1>1, <1>2, PickOverGlides
    <3> QED  BY <3>1, <3>2, GlideOne
  <2>2. CASE ~run[r].pickRelaunch
    <3>1. run' = [run EXCEPT ![r] = [run[r] EXCEPT !.pc = "held"]]
      BY <1>1, <2>2 DEF AfterResumed
    <3>2. Glides(run[r], [run[r] EXCEPT !.pc = "held"])
      BY <1>1, <1>2, <2>2, PlaceGlides DEF PlaceLeads, Places
    <3> QED  BY <3>1, <3>2, GlideOne
  <2> QED  BY <2>1, <2>2
<1>4. HoldersStay /\ RunsFlow
  BY <1>1, <1>2, <1>3, GlidesHold, GlidesFlow
<1>5. CallsGo /\ CancelGoes /\ EndGoes
  BY <1>1, CallsSame, CancelSame, CurKept
<1> QED  BY <1>1, <1>4, <1>5, TailFlow

LEMMA HoldWriteFlow ==
  ASSUME TypeInv, TextInv, NEW r \in 1..used, NEW t \in Texts, HoldWrite(r, t) PROVE Flow
<1>1. /\ used' = used /\ end' = end /\ cur' = cur /\ run' = run /\ answers' = answers /\ cancelled' = cancelled
      /\ stopping' = stopping
      /\ writes' = Append(writes, WThen(UserEvent(t), r, "hold")) /\ msg[t].st = "wait" /\ msg[t].run = r
      /\ run[r].reopened # "wait" /\ msg' = [msg EXCEPT ![t].st = "write"]
      /\ HoldsNow(r, t) /\ ~run[r].quiet
  BY DEF HoldWrite, HoldsNow, chat, table, history, daemon
<1>2. msg'[t].st = "write" /\ msg'[t].run = r /\ msg'[t].cancels = msg[t].cancels /\ msg'[t].restarts = msg[t].restarts
      /\ \A u \in Texts \ {t} : msg'[u] = msg[u]
  BY <1>1 DEF TypeInv, TypeOK, Message
<1>3. LineInv /\ r \in 0..MaxRuns /\ run[r].pc # "reopen"
  BY <1>1, Registry DEF TypeInv, TextInv, LineInv, Waits
<1>4. HoldersStay
  BY <1>1, <1>3, HoldersSame DEF Waits
<1>5. RunsFlow
  <2>1. ASSUME NEW s \in 1..used PROVE Flows(run[s], run'[s]) /\ (Holder(s) => HolderFlows(run[s], run'[s]))
    <3>1. run'[s] = run[s]
      BY <1>1
    <3> QED  BY <3>1, SameFlows
  <2> QED  BY <1>1, <2>1, RunsSame
<1>6. CallsGo
  <2>1. CallGoes(t)
    BY <1>1, <1>2 DEF CallGoes, Coming, Fresh
  <2> QED  BY <1>2, <2>1, CallSame DEF CallsGo
<1>7. QueueGoes
  <2>1. PICK w : w = WThen(UserEvent(t), r, "hold")
    OBVIOUS
  <2>2. w \in Write /\ w.cont = "hold" /\ w.by = r /\ w.ev.kind = "user" /\ w.ev.text[1] = t
    <3>1. WThen(UserEvent(t), r, "hold") \in Write
      BY <1>3, HoldWriteType
    <3>2. UserEvent(t).kind = "user" /\ UserEvent(t).text = <<t>> /\ <<t>>[1] = t
      BY DEF UserEvent, Plain
    <3> QED  BY <2>1, <3>1, <3>2 DEF WThen
  <2>3. Mild(w)
    BY <1>1, <1>2, <1>3, <2>2 DEF Mild, IsAnswer
  <2> QED  BY <1>1, <2>1, <2>2, <2>3, MildOne DEF QueueGoes
<1>8. AnswersGo /\ CancelGoes /\ EndGoes
  BY <1>1, AnswersSame, CancelSame, CurKept
<1> QED  BY <1>4, <1>5, <1>6, <1>7, <1>8 DEF Flow

\* What a cancel takes from the run that may send it is dropped.
LEMMA TakenBack ==
  ASSUME TypeInv, TextInv, HoldersStay, cur # NoRun, ~Waits(cur), run'[cur].unsent = <<>>, msg' = msg
  PROVE  \A t \in ToSet(run[cur].unsent) : Dropped(t)'
<1>1. LineInv /\ cur \in 1..used
  BY Registry DEF TextInv, TypeInv
<1>2. Holder(cur)
  BY <1>1, CurIsHolder
<1>3. run[cur].unsent \in Seq(Texts)
  BY Registry DEF TypeInv, RunRecord
<1> SUFFICES ASSUME NEW t \in ToSet(run[cur].unsent) PROVE Dropped(t)'
  OBVIOUS
<1>4. t \in Texts
  BY <1>3 DEF ToSet
<1>5. ~Fresh(t)
  BY <1>1, <1>4 DEF TextInv, FreshInv, Has
<1> QED  BY <1>1, <1>2, <1>5, DropsHeld

\* The step of a cancel, apart from what it takes back.
LEMMA CancelOneFlow ==
  ASSUME TypeInv, TextInv, cur # NoRun, NEW y, run' = [run EXCEPT ![cur] = y],
         y.pc = run[cur].pc, y.created = run[cur].created, y.reaches = run[cur].reaches,
         y.pickRelaunch = run[cur].pickRelaunch, y.unsent \in {run[cur].unsent, <<>>},
         run[cur].earlyCancels <= y.earlyCancels, used' = used
  PROVE  HoldersStay /\ RunsFlow
<1>1. LineInv /\ cur \in 1..used
  BY Registry DEF TextInv, TypeInv
<1>2. PICK x : x = run[cur]
  OBVIOUS
<1>3. /\ y.pc = x.pc /\ y.created = x.created /\ y.pickRelaunch = x.pickRelaunch /\ y.reaches = x.reaches
      /\ x.earlyCancels <= y.earlyCancels /\ y.unsent \in {x.unsent, <<>>}
  BY <1>2
<1>4. \A t \in cancelled \intersect cancelled' :
        t \in ToSet(y.unsent) => t \in ToSet(x.unsent) \/ msg'[t].restarts
  BY <1>3 DEF ToSet
<1>5. Flows(x, y) /\ HolderFlows(x, y)
  BY <1>3, <1>4, StandFlows
<1>6. Flows(run[cur], y) /\ HolderFlows(run[cur], y)
  BY <1>2, <1>5
<1>7. y.pc = "reopen" <=> run[cur].pc = "reopen"
  OBVIOUS
<1> QED  BY <1>1, <1>6, <1>7, OneFlows

LEMMA CancelTurnFlow ==
  ASSUME Base, TextInv, CancelTurn \/ EndCancels PROVE Flow
<1>1. cur # NoRun /\ cur \in 1..used /\ cur \in 0..MaxRuns /\ run[cur] \in RunRecord /\ TypeInv /\ cur = last
      /\ run[cur].earlyCancels \in Nat
  BY Registry, EarlyNat DEF CancelTurn, EndCancels, TypeInv, Base, TextInv, LineInv
<1>2. /\ used' = used /\ answers' = answers /\ cur' = cur /\ msg' = msg /\ stopping' = stopping
      /\ cancelled' = cancelled \union ToSet(run[cur].unsent)
  BY DEF CancelTurn, EndCancels, chat, table, daemon
<1>3. run[cur].turning /\ run[cur].reaches /\ Form(run[cur])
  BY <1>1 DEF CancelTurn, EndCancels, TextInv, FormInv
<1> DEFINE x == [run[cur] EXCEPT !.cancelAsked = TRUE, !.unsent = <<>>]
<1>4. /\ x \in RunRecord /\ x.unsent = <<>> /\ x.pc = run[cur].pc /\ x.created = run[cur].created
      /\ x.reaches = run[cur].reaches /\ x.pickRelaunch = run[cur].pickRelaunch
      /\ x.earlyCancels = run[cur].earlyCancels
  <2>0. <<>> \in Seq(Texts)
    OBVIOUS
  <2>1. x \in RunRecord
    BY <1>1, <2>0 DEF RunRecord
  <2>2. /\ x.unsent = <<>> /\ x.pc = run[cur].pc /\ x.created = run[cur].created
        /\ x.reaches = run[cur].reaches
    BY <1>1 DEF RunRecord
  <2>3. x.pickRelaunch = run[cur].pickRelaunch /\ x.earlyCancels = run[cur].earlyCancels
    BY <1>1 DEF RunRecord
  <2> QED  BY <2>1, <2>2, <2>3
<1>5. /\ run' = [run EXCEPT ![cur] = x] \/ run' = [run EXCEPT ![cur] = CancelOpen(x)]
      /\ \/ writes' = writes
         \/ writes' = writes \o CancelOpenWrites(x, cur, "none")
         \/ writes' = writes \o CancelOpenWrites(run[cur], cur, "end")
  BY DEF CancelTurn, EndCancels
<1>6. Adds
  <2>1. CancelOpenWrites(x, cur, "none") \in Seq(Addable) /\ CancelOpenWrites(run[cur], cur, "end") \in Seq(Addable)
    BY <1>1, <1>4, CancelOpenAdds
  <2> QED  BY <1>1, <1>5, <2>1, AddsNone DEF Adds
<1> HIDE DEF x
<1>7. \E y : /\ run' = [run EXCEPT ![cur] = y] /\ y.unsent = <<>> /\ y.pc = run[cur].pc
             /\ y.created = run[cur].created /\ y.reaches = run[cur].reaches
             /\ y.pickRelaunch = run[cur].pickRelaunch /\ y.earlyCancels = run[cur].earlyCancels
  <2>1. CASE run' = [run EXCEPT ![cur] = x]
    BY <1>4, <2>1
  <2>2. CASE run' = [run EXCEPT ![cur] = CancelOpen(x)]
    <3> PICK z : z = CancelOpen(x)
      OBVIOUS
    <3>1. /\ z.unsent = x.unsent /\ z.pc = x.pc /\ z.created = x.created /\ z.reaches = x.reaches
          /\ z.pickRelaunch = x.pickRelaunch /\ z.earlyCancels = x.earlyCancels
      BY <1>4, CancelOpenFields, EarlyStays
    <3> QED  BY <1>4, <2>2, <3>1
  <2> QED  BY <1>5, <2>1, <2>2
<1>8. PICK y : /\ run' = [run EXCEPT ![cur] = y] /\ y.unsent = <<>> /\ y.pc = run[cur].pc
               /\ y.created = run[cur].created /\ y.reaches = run[cur].reaches
               /\ y.pickRelaunch = run[cur].pickRelaunch /\ y.earlyCancels = run[cur].earlyCancels
  BY <1>7
<1>9. run[cur].earlyCancels <= y.earlyCancels
  BY <1>1, <1>8
<1>10. HoldersStay /\ RunsFlow
  BY <1>1, <1>2, <1>8, <1>9, CancelOneFlow
<1>11. run'[cur] = y /\ ~Waits(cur)
  <2>1. run'[cur] = y
    BY <1>1, <1>8, Registry DEF TypeInv, TypeOK
  <2> QED  BY <1>3, <2>1 DEF Form, Opening, BeforeSession, Waits
<1>12. CancelGoes
  <2>1. \A t \in cancelled' : t \in cancelled \/ Dropped(t)'
    BY <1>1, <1>2, <1>8, <1>10, <1>11, TakenBack
  <2>2. ASSUME NEW r \in 1..used, Holder(r), Anew(run[r]) PROVE EndsOver(r)'
    <3>1. Holder(cur)
      BY <1>1, <1>11, CurIsHolder DEF TextInv
    <3>2. r = cur
      BY <1>1, <2>2, <3>1, HolderOne
    <3>3. run[cur].pickRelaunch
      BY <1>3, <2>2, <3>2 DEF Form, Anew, Talking
    <3>4. EndCancels
      BY <3>3 DEF CancelTurn
    <3>5. end'.st = "turn" /\ end'.run = r
      BY <3>2, <3>4 DEF EndCancels
    <3> QED  BY <1>3, <1>8, <1>11, <3>2, <3>3, <3>5 DEF EndsOver
  <2> QED  BY <2>1, <2>2 DEF CancelGoes
<1>13. EndGoes
  <2>1. CASE CancelTurn
    BY <1>2, <2>1, CurKept DEF CancelTurn
  <2>2. CASE EndCancels
    BY <1>2, <2>2 DEF EndCancels, EndGoes
  <2> QED  BY <2>1, <2>2
<1>14. CallsGo /\ QueueGoes /\ AnswersGo
  BY <1>2, <1>6, CallsSame, MildAdds, AnswersSame DEF QueueGoes
<1> QED  BY <1>10, <1>12, <1>13, <1>14 DEF Flow

LEMMA CancelEarlyFlow ==
  ASSUME Base, TextInv, KnownInv, AnewInv, CancelEarly PROVE Flow
<1>1. cur # NoRun /\ cur \in 1..used /\ cur \in 0..MaxRuns /\ run[cur] \in RunRecord /\ TypeInv
      /\ run[cur].earlyCancels \in Nat
  BY Registry, EarlyNat DEF CancelEarly, TypeInv, Base
<1>2. /\ used' = used /\ answers' = answers /\ cur' = cur /\ msg' = msg /\ stopping' = stopping /\ end' = end
      /\ cancelled' = IF answers.answered
                      THEN cancelled \union ToSet(run[cur].unsent) \union Joining(cur)
                      ELSE cancelled
  BY DEF CancelEarly, chat, table, daemon
<1> DEFINE x == [run[cur] EXCEPT !.cancelledEarly = TRUE, !.earlyCancels = @ + 1,
                                 !.unsent = IF answers.answered THEN <<>> ELSE @]
           u == IF answers.answered THEN <<>> ELSE run[cur].unsent
           n == run[cur].earlyCancels + 1
<1>3. u \in Seq(Texts) /\ u \in {<<>>, run[cur].unsent} /\ n \in Nat /\ (answers.answered => u = <<>>)
      /\ run[cur].earlyCancels <= n /\ n > run[cur].earlyCancels
  <2>1. <<>> \in Seq(Texts)
    OBVIOUS
  <2>2. run[cur].unsent \in Seq(Texts)
    BY <1>1 DEF RunRecord
  <2>3. n \in Nat /\ run[cur].earlyCancels <= n /\ n > run[cur].earlyCancels
    <3> DEFINE m == run[cur].earlyCancels
    <3>1. m \in Nat
      BY <1>1
    <3> HIDE DEF m
    <3>2. m + 1 \in Nat /\ m <= m + 1 /\ m + 1 > m
      BY <3>1
    <3> QED  BY <3>2 DEF m
  <2> QED  BY <2>1, <2>2, <2>3
<1>4. x = [run[cur] EXCEPT !.cancelledEarly = TRUE, !.earlyCancels = n, !.unsent = u]
  BY <1>1 DEF RunRecord
<1>5. run' = [run EXCEPT ![cur] = CancelOpen(x)] /\ writes' = writes \o CancelOpenWrites(run[cur], cur, "none")
  BY DEF CancelEarly
<1>6. QueueGoes
  <2>1. CancelOpenWrites(run[cur], cur, "none") \in Seq(Addable)
    BY <1>1, CancelOpenAdds
  <2> QED  BY <1>5, <2>1, MildAdds DEF Adds, QueueGoes
<1> HIDE DEF x, u, n
<1>7. /\ x \in RunRecord /\ x.unsent = u /\ x.pc = run[cur].pc /\ x.created = run[cur].created
      /\ x.reaches = run[cur].reaches /\ x.pickRelaunch = run[cur].pickRelaunch /\ x.earlyCancels = n
  <2>1. x \in RunRecord
    BY <1>1, <1>3, <1>4 DEF RunRecord
  <2>2. x.unsent = u /\ x.pc = run[cur].pc /\ x.created = run[cur].created
    BY <1>1, <1>4 DEF RunRecord
  <2>3. x.reaches = run[cur].reaches /\ x.pickRelaunch = run[cur].pickRelaunch /\ x.earlyCancels = n
    BY <1>1, <1>4 DEF RunRecord
  <2> QED  BY <2>1, <2>2, <2>3
<1> PICK y : y = CancelOpen(x)
  OBVIOUS
<1>8. /\ y.unsent = u /\ y.pc = run[cur].pc /\ y.created = run[cur].created
      /\ y.reaches = run[cur].reaches /\ y.pickRelaunch = run[cur].pickRelaunch /\ y.earlyCancels = n
  BY <1>7, CancelOpenFields, EarlyStays
<1>9. run' = [run EXCEPT ![cur] = y] /\ y.unsent \in {run[cur].unsent, <<>>} /\ run[cur].earlyCancels <= y.earlyCancels
  BY <1>3, <1>5, <1>8
<1>10. HoldersStay /\ RunsFlow
  BY <1>1, <1>2, <1>8, <1>9, CancelOneFlow
<1>11. run'[cur] = y
  BY <1>1, <1>9, Registry DEF TypeInv, TypeOK
<1>12. CancelGoes
  <2>1. CASE ~answers.answered
    BY <1>2, <2>1, CancelSame
  <2>2. CASE answers.answered
    <3>1. ASSUME NEW t \in ToSet(run[cur].unsent) PROVE Dropped(t)'
      <4>1. CASE Waits(cur)
        BY <1>1, <3>1, <4>1 DEF KnownInv, WaitsBlank, ToSet
      <4>2. CASE ~Waits(cur)
        <5>1. run'[cur].unsent = <<>>
          BY <1>3, <1>8, <1>11, <2>2
        <5> QED  BY <1>1, <1>2, <1>10, <3>1, <4>2, <5>1, TakenBack
      <4> QED  BY <4>1, <4>2
    <3>2. ASSUME NEW t \in Joining(cur) PROVE Dropped(t)'
      <4>1. t \in ToSet(run[cur].held) /\ msg[t].run = cur /\ msg[t].st \in {"wait", "write"}
        BY <3>2 DEF Joining
      <4>2. t \in Texts
        BY <1>1, <4>1 DEF RunRecord, ToSet
      <4> DEFINE a == msg[t].cancels
                 b == run[cur].earlyCancels
      <4>3. a <= b
        BY <4>1, <4>2 DEF KnownInv, StartsKnown, Coming
      <4>4. a \in Nat /\ b \in Nat
        BY <1>1, <4>2 DEF TypeInv, TypeOK, Message
      <4>5. n > b /\ n \in Nat
        BY <1>3
      <4>6. n > a
        <5> HIDE DEF a, b
        <5> QED  BY <4>3, <4>4, <4>5
      <4>7. run'[msg'[t].run].earlyCancels > msg'[t].cancels
        BY <1>2, <1>8, <1>11, <4>1, <4>6
      <4>8. Coming(msg'[t]) /\ answers'.answered
        BY <1>2, <2>2, <4>1 DEF Coming
      <4> QED  BY <4>7, <4>8 DEF Dropped, Passed
    <3>3. \A r \in 1..used : ~(Holder(r) /\ Anew(run[r]))
      BY <2>2 DEF AnewInv, AnewFits
    <3> QED  BY <1>2, <2>2, <3>1, <3>2, <3>3 DEF CancelGoes
  <2> QED  BY <2>1, <2>2
<1>13. CallsGo /\ AnswersGo /\ EndGoes
  BY <1>2, CallsSame, AnswersSame, CurKept
<1> QED  BY <1>6, <1>10, <1>12, <1>13 DEF Flow

LEMMA WriteDoneFlow ==
  ASSUME TypeInv, TextInv, WriteDone PROVE Flow
<1>1. /\ used' = used /\ cur' = cur /\ end' = end /\ cancelled' = cancelled /\ stopping' = stopping
      /\ writes # <<>> /\ writes' = Tail(writes) /\ Logged(Head(writes).ev)
      /\ Head(writes).cont \in {"none", "call", "kill", "end", "close"}
      /\ run' = (IF Head(writes).cont = "kill" THEN [run EXCEPT ![Head(writes).by] = EndProcess(@)] ELSE run)
      /\ msg' = (IF Head(writes).cont = "call" THEN [msg EXCEPT ![HeadText].st = "done"] ELSE msg)
  BY DEF WriteDone, HeadText, table, history, daemon
<1>2. RunsGlide
  <2>1. CASE Head(writes).cont = "kill"
    <3> PICK r : r = Head(writes).by
      OBVIOUS
    <3>1. run' = [run EXCEPT ![r] = EndProcess(run[r])]
      BY <1>1, <2>1
    <3>2. r \in 1..used => Glides(run[r], EndProcess(run[r]))
      BY Registry, EndProcessSteady, SteadyGlides DEF TypeInv
    <3> QED  BY <3>1, <3>2, GlideOne
  <2>2. CASE Head(writes).cont # "kill"
    BY <1>1, <2>2, GlideNone
  <2> QED  BY <2>1, <2>2
<1>3. HoldersStay /\ RunsFlow
  BY <1>1, <1>2, GlidesHold, GlidesFlow DEF TextInv
<1>4. CallsGo
  <2> SUFFICES ASSUME NEW t \in Texts PROVE CallGoes(t)
    BY DEF CallsGo
  <2>1. CASE msg'[t] = msg[t]
    BY <2>1, CallSame
  <2>2. CASE msg'[t] # msg[t]
    <3>1. Head(writes).cont = "call" /\ t = HeadText /\ msg' = [msg EXCEPT ![t].st = "done"]
      BY <1>1, <2>2 DEF TypeInv, TypeOK
    <3>2. msg[t].st = "call"
      <4>1. UserFits(Head(writes)) /\ IsCall(Head(writes))
        BY <1>1, <3>1, HeadFits DEF TextInv, OnceInv, IsCall
      <4> QED  BY <3>1, <4>1 DEF UserFits, HeadText
    <3>3. msg'[t].st = "done" /\ msg'[t].restarts = msg[t].restarts
      BY <3>1 DEF TypeInv, TypeOK, Message
    <3> QED  BY <3>2, <3>3 DEF CallGoes, Coming, Fresh
  <2> QED  BY <2>1, <2>2
<1>5. CancelGoes /\ EndGoes
  BY <1>1, CancelSame, CurKept
<1> QED  BY <1>1, <1>3, <1>4, <1>5, TailFlow

LEMMA FailedOver ==
  ASSUME NEW x \in RunRecord PROVE FailedRun(x, "reopen").pc = "over"
<1> DEFINE y == Quit(x)
<1>1. y \in RunRecord
  BY QuitType
<1>2. FailedRun(x, "reopen") = [y EXCEPT !.reopened = "failed", !.pc = "over"]
  BY DEF FailedRun
<1> HIDE DEF y
<1> QED  BY <1>1, <1>2 DEF RunRecord

LEMMA WriteFailsFlow ==
  ASSUME Base, TextInv, WriteFails PROVE Flow
<1>1. /\ used' = used /\ answers' = answers /\ cancelled' = cancelled /\ stopping' = stopping
      /\ writes # <<>> /\ writes' = Tail(writes) /\ TypeInv
  BY DEF WriteFails, table, history, daemon, Base
<1>2. AnswersGo /\ CancelGoes /\ LineInv /\ FormInv
  BY <1>1, AnswersSame, CancelSame DEF TextInv
<1>3. CASE Head(writes).cont = "close"
  <2>1. run' = run /\ cur' = cur /\ msg' = msg /\ end' = end
    BY <1>3 DEF WriteFails
  <2>2. HoldersStay /\ RunsFlow
    BY <1>1, <1>2, <2>1, GlideNone, GlidesHold, GlidesFlow
  <2>3. QueueGoes
    BY <1>1, <1>3 DEF QueueGoes, QueueShifts
  <2> QED  BY <1>1, <1>2, <2>1, <2>2, <2>3, CallsSame, CurKept DEF Flow
<1>4. CASE Head(writes).cont # "close"
  <2> PICK r, c : r = Head(writes).by /\ c = Head(writes).cont
    OBVIOUS
  <2>1. run' = [run EXCEPT ![r] = FailedRun(run[r], c)]
    BY <1>4 DEF WriteFails, FailedRun
  <2>2. /\ Forget(r)
        /\ msg' = (IF Head(writes).cont \in {"call", "hold"}
                   THEN [msg EXCEPT ![HeadText].st = "halt", ![HeadText].run = r] ELSE msg)
        /\ end' = (IF Head(writes).cont = "end" /\ end.st # "none" THEN [end EXCEPT !.st = "fails"] ELSE end)
    BY <1>4 DEF WriteFails, HeadText
  <2>3. c \in StepConts => r \in 1..used /\ run[r].pc = StepPlace[c]
    BY <1>1 DEF Base, PlaceInv, StepFits, TypeInv, TypeOK
  <2>4. ASSUME r \in 1..used PROVE Glides(run[r], FailedRun(run[r], c))
    BY <1>1, <2>3, <2>4, Registry, FailedGlides DEF TypeInv
  <2>5. RunsGlide
    BY <1>1, <2>1, <2>4, GlideOne
  <2>6. HoldersStay /\ RunsFlow
    BY <1>1, <1>2, <2>5, GlidesHold, GlidesFlow
  <2>7. CallsGo
    <3> SUFFICES ASSUME NEW t \in Texts PROVE CallGoes(t)
      BY DEF CallsGo
    <3>1. CASE msg'[t] = msg[t]
      BY <3>1, CallSame
    <3>2. CASE msg'[t] # msg[t]
      <4>1. t = HeadText /\ msg' = [msg EXCEPT ![HeadText].st = "halt", ![HeadText].run = r]
        BY <1>1, <2>2, <3>2 DEF TypeInv, TypeOK
      <4>2. msg'[t].st = "halt" /\ msg'[t].restarts = msg[t].restarts
        BY <1>1, <4>1 DEF TypeInv, TypeOK, Message
      <4> QED  BY <4>2 DEF CallGoes, Coming, Fresh
    <3> QED  BY <3>1, <3>2
  <2>8. QueueGoes
    <3>1. ASSUME c = "reopen" PROVE run'[r].pc # "interrupt"
      <4>1. r \in 1..used /\ r \in Runs /\ run[r] \in RunRecord
        BY <1>1, <2>3, <3>1, Registry DEF StepConts, TypeInv
      <4>2. FailedRun(run[r], c).pc = "over"
        BY <3>1, <4>1, FailedOver
      <4> QED  BY <1>1, <2>1, <4>1, <4>2 DEF TypeInv, TypeOK
    <3> QED  BY <1>1, <3>1 DEF QueueGoes, QueueShifts
  <2>9. EndGoes
    <3>1. \A s \in 1..used : cur # s => cur' # s
      BY <2>2 DEF Forget, NoRun
    <3>2. ASSUME end.st = "turn", Still(end.run), end' # end PROVE cur' # end.run
      <4>1. Head(writes).cont = "end"
        BY <2>2, <3>2
      <4>2. 1 \in 1..Len(writes) /\ Head(writes) = writes[1]
        BY <1>1 DEF TypeInv, TypeOK
      <4>3. r \in end.run..used
        BY <3>2, <4>1, <4>2 DEF Still, StillFrom
      <4>4. end.run = used
        BY <1>2, <3>2 DEF LineInv
      <4>5. used \in Nat
        BY <1>1, RunnerAssumption DEF TypeInv, TypeOK
      <4>6. r = end.run
        BY <4>3, <4>4, <4>5
      <4>7. cur # NoRun => cur # 0
        BY DEF NoRun
      <4>8. r # NoRun
        <5>1. end.run \in 1..used
          BY <3>2 DEF Base, EndInv, EndHasItsRun
        <5> QED  BY <4>6, <5>1 DEF NoRun
      <4> QED  BY <2>2, <4>6, <4>8 DEF Forget
    <3> QED  BY <1>1, <3>1, <3>2 DEF EndGoes
  <2> QED  BY <1>2, <2>6, <2>7, <2>8, <2>9 DEF Flow
<1> QED  BY <1>3, <1>4

\* The text of a message joins the texts of its run, or is dropped.
LEMMA HoldWrittenFlow ==
  ASSUME TypeInv, TextInv, KnownInv, AnewInv, CancelKept, HoldWritten PROVE Flow
<1> PICK r, t : r = Head(writes).by /\ t = HeadText
  OBVIOUS
<1> PICK u : u = IF Keeps(r, t) THEN Append(run[r].unsent, t) ELSE run[r].unsent
  OBVIOUS
<1> PICK p : p = IF run[r].pc = "hold" THEN "launch" ELSE run[r].pc
  OBVIOUS
<1>1. /\ used' = used /\ cur' = cur /\ end' = end /\ stopping' = stopping
      /\ writes # <<>> /\ writes' = Tail(writes) /\ Logged(Head(writes).ev) /\ Head(writes).cont = "hold"
      /\ cancelled' = (IF Keeps(r, t) THEN cancelled ELSE cancelled \union {t})
      /\ msg' = [msg EXCEPT ![t].st = "done", ![t].late = r # last /\ run[last].pc # "reopen"]
  BY DEF HoldWritten, HeadText, table, daemon
<1>2. IsCall(Head(writes))
  BY <1>1 DEF IsCall
<1>3. t \in Texts /\ r \in 1..used /\ msg[t].st = "write"
      /\ Head(writes) = writes[1] /\ 1 \in 1..Len(writes)
  <2>1. CallsOnce
    BY DEF TextInv, OnceInv
  <2>2. UserFits(Head(writes)) /\ HeadText \in Texts /\ Head(writes) = writes[1] /\ 1 \in 1..Len(writes)
    BY <1>1, <1>2, <2>1, HeadFits
  <2> QED  BY <1>1, <1>2, <2>2 DEF UserFits, HeadText
<1>4. msg[t].run = r /\ ~Waits(r)
  <2>1. HoldKnown(writes[1])
    BY <1>1, <1>3 DEF KnownInv, HoldsKnown
  <2> QED  BY <1>3, <2>1 DEF HoldKnown, HeadText
<1>5. r \in Runs /\ run[r] \in RunRecord /\ run \in [Runs -> RunRecord] /\ run[r].unsent \in Seq(Texts)
      /\ run[r].earlyCancels \in Nat /\ LineInv
  <2>1. r \in Runs /\ run[r] \in RunRecord
    BY <1>3, Registry DEF TypeInv
  <2> QED  BY <1>3, <2>1, EarlyNat DEF TypeInv, TypeOK, RunRecord, TextInv
<1>6. msg'[t].st = "done" /\ msg'[t].restarts = msg[t].restarts /\ \A v \in Texts \ {t} : msg'[v] = msg[v]
  BY <1>1, <1>3 DEF TypeInv, TypeOK, Message
<1>7. \A s \in 1..used : t \notin ToSet(run[s].unsent)
  BY <1>3 DEF TextInv, FreshInv, Fresh, Has
<1> DEFINE x == run[r]
           y == [[x EXCEPT !.unsent = u] EXCEPT !.pc = p]
<1>8. /\ y.pc = p /\ y.unsent = u /\ y.created = x.created /\ y.earlyCancels = x.earlyCancels
      /\ y.reaches = x.reaches /\ y.pickRelaunch = x.pickRelaunch
  BY <1>5 DEF RunRecord
<1>9. p = x.pc \/ (x.pc = "hold" /\ p = "launch")
  OBVIOUS
<1>10. run' = [run EXCEPT ![r] = y]
  BY <1>1, <1>5 DEF HoldWritten, HeadText
<1>11. u \in {x.unsent, Append(x.unsent, t)} /\ (~Keeps(r, t) => u = x.unsent) /\ x = run[r]
  OBVIOUS
<1> HIDE DEF x, y
<1>12. ToSet(u) \subseteq ToSet(x.unsent) \union {t}
  <2>1. x.unsent \in Seq(Texts)
    BY <1>5, <1>11
  <2> QED  BY <1>3, <1>11, <2>1, AppendOnce
<1>13. run'[r] = y /\ \A s \in 1..used : s # r => run'[s] = run[s]
  <2>1. \A s \in 1..used : s \in Runs
    BY Registry DEF TypeInv
  <2> QED  BY <1>5, <1>10, <2>1
<1>14. \A v \in cancelled \intersect cancelled' :
         v \in ToSet(y.unsent) => v \in ToSet(x.unsent) \/ msg'[v].restarts
  <2> SUFFICES ASSUME t \in cancelled, Keeps(r, t) PROVE msg'[t].restarts
    BY <1>8, <1>11, <1>12
  <2>1. Dropped(t)
    BY DEF CancelKept
  <2>2. ~Passed(t)
    <3> SUFFICES ASSUME answers.answered, run[r].earlyCancels > msg[t].cancels PROVE FALSE
      BY <1>4 DEF Passed
    <3> DEFINE a == run[r].earlyCancels
               b == msg[t].cancels
    <3>1. a \in Nat /\ b \in Nat /\ a = b /\ a > b
      BY <1>3, <1>5 DEF TypeInv, TypeOK, Message, Keeps
    <3> HIDE DEF a, b
    <3> QED  BY <3>1
  <2>3. Fresh(t)
    BY <1>3 DEF Fresh
  <2> QED  BY <1>6, <2>1, <2>2, <2>3 DEF Dropped
<1>15. x.earlyCancels <= y.earlyCancels
  <2> PICK n : n = x.earlyCancels
    OBVIOUS
  <2>1. n \in Nat
    BY <1>5, <1>11
  <2>2. n <= n
    BY <2>1
  <2> QED  BY <1>8, <2>2
<1>16. Anew(y) => Anew(x) /\ (x.pickRelaunch /\ x.reaches => y.pickRelaunch /\ y.reaches)
  BY <1>8, <1>9 DEF Anew
<1>17. x.pc # "reopen"
  BY <1>4, <1>11 DEF Waits
<1>18. Flows(x, y)
  BY <1>8, <1>9, <1>15, <1>17 DEF Flows, Silences
<1>19. HolderFlows(x, y)
  BY <1>14, <1>16 DEF HolderFlows, AnewGoes
<1>20. HoldersStay /\ RunsFlow
  <2>1. y.pc = "reopen" <=> run[r].pc = "reopen"
    BY <1>8, <1>9, <1>11
  <2>2. Flows(run[r], y) /\ HolderFlows(run[r], y)
    BY <1>11, <1>18, <1>19
  <2> QED  BY <1>1, <1>3, <1>5, <1>10, <2>1, <2>2, OneFlows
<1>21. CallsGo
  <2>1. CallGoes(t)
    BY <1>6 DEF CallGoes, Coming, Fresh
  <2> QED  BY <1>6, <2>1, CallSame DEF CallsGo
<1>22. CancelGoes
  <2>1. CASE Keeps(r, t)
    BY <1>1, <2>1, CancelSame
  <2>2. CASE ~Keeps(r, t)
    <3>1. answers.answered
      BY <2>2 DEF Keeps
    <3>2. \A s \in 1..used : ~(Holder(s) /\ Anew(run[s]))
      BY <3>1 DEF AnewInv, AnewFits
    <3>3. Unheld(t)'
      <4> SUFFICES ASSUME NEW s \in 1..used PROVE t \notin ToSet(run'[s].unsent)
        BY <1>1 DEF Unheld
      <4>1. CASE s = r
        BY <1>7, <1>8, <1>11, <1>13, <2>2, <4>1
      <4>2. CASE s # r
        BY <1>7, <1>13, <4>2
      <4> QED  BY <4>1, <4>2
    <3>4. Dropped(t)'
      BY <1>6, <3>3 DEF Dropped, Fresh
    <3> QED  BY <1>1, <3>2, <3>4 DEF CancelGoes
  <2> QED  BY <2>1, <2>2
<1>23. EndGoes
  BY <1>1, CurKept
<1> QED  BY <1>1, <1>20, <1>21, <1>22, <1>23, TailFlow

\* The texts that the first waiting run takes are those of the holder, or none.
LEMMA BeforeHeld ==
  ASSUME TypeInv, TextInv, NEW r \in 1..used, Waits(r), \A s \in 1..(r - 1) : ~Waits(s)
  PROVE  /\ \A s \in 1..used : s # r => (Waits(s) <=> r < s)
         /\ \/ TextsBefore(run[r]) = <<>>
            \/ r - 1 \in 1..used /\ Holder(r - 1) /\ TextsBefore(run[r]) = run[r - 1].unsent
<1>1. used \in Nat /\ r \in Nat /\ LineInv
  BY Registry DEF TypeInv, TextInv
<1>2. \A s \in 1..used : s # r => (Waits(s) <=> r < s)
  <2> SUFFICES ASSUME NEW s \in 1..used, s # r PROVE Waits(s) <=> r < s
    OBVIOUS
  <2>1. r < s => Waits(s)
    BY <1>1 DEF LineInv
  <2>2. ~(r < s) => s \in 1..(r - 1)
    BY <1>1
  <2> QED  BY <2>1, <2>2
<1>3. CASE r # 1
  <2>1. run[r].prev = r - 1 /\ r - 1 \in 1..used /\ r - 1 # NoRun /\ r - 1 # r /\ ~(r < r - 1)
    BY <1>1, <1>3 DEF LineInv, NoRun
  <2>2. \A s \in 1..used : r - 1 < s => s = r \/ r < s
    BY <1>1
  <2>3. Holder(r - 1)
    BY <1>2, <2>1, <2>2 DEF Holder
  <2> QED  BY <1>2, <2>1, <2>3 DEF TextsBefore
<1>4. CASE r = 1
  <2>1. run[r].prev = NoRun
    BY <1>1, <1>4 DEF LineInv, NoRun
  <2>2. \A s \in 1..used : Waits(s)
    BY <1>1, <1>2, <1>4
  <2> QED  BY <1>2, <2>1, <2>2 DEF TextsBefore, TextInv, GotInv, NoneGot
<1> QED  BY <1>3, <1>4

\* The record of the run that took them.
LEMMA ReopenedKeeps ==
  ASSUME NEW x \in RunRecord, NEW u
  PROVE  /\ [[x EXCEPT !.unsent = u] EXCEPT !.pc = "interrupt"].earlyCancels = x.earlyCancels
         /\ Overtaken([x EXCEPT !.unsent = u]).earlyCancels = x.earlyCancels
         /\ Overtaken([x EXCEPT !.unsent = u]).pc = "over"
  BY DEF Overtaken, Silence, RunRecord

\* That step keeps what is known of the texts that were taken back.
ReopensAs(r, y) ==
  /\ run' = [run EXCEPT ![r] = y]
  /\ y.pc \in {"interrupt", "over"} /\ y.created = run[r].created /\ y.earlyCancels = run[r].earlyCancels
  /\ y.unsent = <<>> \/ y.unsent = TextsBefore(run[r])
  /\ IF y.pc = "interrupt"
     THEN writes' = Append(writes, WThen(Plain("interrupted"), r, "reopen"))
     ELSE writes' = writes
  /\ \A t \in cancelled' : t \in cancelled \/ (y.unsent = <<>> /\ t \in ToSet(TextsBefore(run[r])))
  /\ used' = used /\ answers' = answers /\ msg' = msg

LEMMA ReopenCancels ==
  ASSUME TypeInv, TypeInv', TextInv, CancelInv, NEW r \in 1..used, Waits(r), \A s \in 1..(r - 1) : ~Waits(s),
         NEW y, ReopensAs(r, y)
  PROVE  CancelInv'
<1>1. /\ used' = used /\ answers' = answers /\ msg' = msg
      /\ run'[r] = y /\ (\A s \in 1..used : s # r => run'[s] = run[s])
      /\ used \in Nat /\ r \in Nat
  <2>1. \A s \in 1..used : s \in Runs
    BY Registry DEF TypeInv
  <2> QED  BY <2>1, Registry DEF ReopensAs, TypeInv, TypeOK
<1>2. ~Waits(r)' /\ \A s \in 1..used : s # r => (Waits(s)' <=> Waits(s))
  BY <1>1 DEF Waits, ReopensAs
<1>3. \A s \in 1..used : s # r => (Waits(s) <=> r < s)
  BY BeforeHeld
<1>4. \A s : Holder(s)' => s = r
  <2> SUFFICES ASSUME NEW s, Holder(s)', s # r PROVE FALSE
    OBVIOUS
  <2>1. s \in 1..used /\ ~Waits(s)' /\ \A q \in 1..used : s < q => Waits(q)'
    BY <1>1 DEF Holder
  <2>2. s < r
    BY <1>1, <1>2, <1>3, <2>1
  <2> QED  BY <1>2, <2>1, <2>2
<1>5. \A s \in 1..used : run'[s].earlyCancels = run[s].earlyCancels
  <2> SUFFICES ASSUME NEW s \in 1..used PROVE run'[s].earlyCancels = run[s].earlyCancels
    OBVIOUS
  <2>1. CASE s = r
    BY <1>1, <2>1 DEF ReopensAs
  <2>2. CASE s # r
    BY <1>1, <2>2
  <2> QED  BY <2>1, <2>2
<1>6. writes \in Seq(Write) /\ Len(writes) \in Nat
  BY DEF TypeInv, TypeOK
<1>7. StartsKnown'
  <2> SUFFICES ASSUME NEW t \in Texts, Coming(msg[t])
               PROVE  msg[t].run \in 1..used /\ msg[t].cancels <= run'[msg[t].run].earlyCancels
    BY <1>1 DEF StartsKnown
  <2>1. msg[t].run \in 1..used /\ msg[t].cancels <= run[msg[t].run].earlyCancels
    BY DEF CancelInv, KnownInv, StartsKnown
  <2>2. run'[msg[t].run].earlyCancels = run[msg[t].run].earlyCancels
    BY <1>5, <2>1
  <2> QED  BY <2>1, <2>2
<1>8. HoldsKnown'
  <2> SUFFICES ASSUME NEW i \in 1..Len(writes'), writes'[i].cont = "hold" PROVE HoldKnown(writes[i])'
    BY DEF HoldsKnown
  <2>1. i \in 1..Len(writes) /\ writes'[i] = writes[i]
    <3>1. CASE writes' = writes
      BY <3>1
    <3>2. CASE writes' = Append(writes, WThen(Plain("interrupted"), r, "reopen"))
      <4>1. WThen(Plain("interrupted"), r, "reopen").cont = "reopen"
        BY DEF WThen
      <4> QED  BY <1>6, <3>2, <4>1
    <3> QED  BY <3>1, <3>2 DEF ReopensAs
  <2>2. HoldKnown(writes[i]) /\ UserFits(writes[i])
    BY <2>1 DEF CancelInv, KnownInv, HoldsKnown, TextInv, OnceInv, CallsOnce
  <2>3. writes[i].by \in 1..used
    BY <2>1, <2>2 DEF UserFits, IsCall
  <2> PICK q : q = writes[i].by
    OBVIOUS
  <2>4. run'[q].pc # "reopen"
    BY <1>2, <2>2, <2>3 DEF HoldKnown, Waits
  <2>5. writes'[i].by = q /\ msg'[writes'[i].ev.text[1]].run = q
    BY <1>1, <2>1, <2>2 DEF HoldKnown
  <2> QED  BY <2>4, <2>5 DEF HoldKnown, Waits
<1>9. WaitsBlank'
  <2> SUFFICES ASSUME NEW s \in 1..used, Waits(s)' PROVE run'[s].unsent = <<>>
    BY <1>1 DEF WaitsBlank
  <2>1. s # r
    BY <1>2
  <2> QED  BY <1>1, <1>2, <2>1 DEF CancelInv, KnownInv, WaitsBlank
<1>10. ~Anew(y) /\ y.pc \notin Silences
  <2>1. ~y.created
    BY DEF ReopensAs, TextInv, FormInv, Form, Waits, BeforeSession
  <2> QED  BY <2>1 DEF Anew, ReopensAs, Silences
<1>11. SilentInv'
  <2>0. ~Silent(run'[r])
    BY <1>1, <1>10 DEF Silent
  <2> SUFFICES ASSUME run'[r].pc = "interrupt" PROVE ReopensStill(r)'
    BY <1>4, <2>0 DEF SilentInv
  <2>1. writes' = Append(writes, WThen(Plain("interrupted"), r, "reopen"))
    BY <1>1 DEF ReopensAs
  <2> PICK w : w = WThen(Plain("interrupted"), r, "reopen")
    OBVIOUS
  <2>2. w.cont = "reopen" /\ w.by = r /\ ~IsAnswer(w.ev)
    BY DEF WThen, IsAnswer, Plain
  <2> PICK k : k = Len(writes) + 1
    OBVIOUS
  <2>3. k \in 1..Len(writes') /\ writes'[k] = w /\ \A i \in k..Len(writes') : i = k
    BY <1>6, <2>1
  <2>4. StillFrom(k, r)'
    BY <2>2, <2>3 DEF StillFrom
  <2> QED  BY <2>2, <2>3, <2>4 DEF ReopensStill
<1>12. AnewInv'
  <2> SUFFICES ASSUME Anew(run'[r]) PROVE FALSE
    BY <1>4 DEF AnewInv
  <2> QED  BY <1>1, <1>10
<1>13. CancelKept'
  <2> SUFFICES ASSUME NEW t \in cancelled' PROVE Dropped(t)'
    BY DEF CancelKept
  <2>1. t \in Texts
    BY DEF TypeInv, TypeOK
  <2>2. Fresh(t)' <=> Fresh(t)
    BY <1>1 DEF Fresh
  <2>3. ASSUME t \notin ToSet(y.unsent), ~Fresh(t) PROVE Dropped(t)'
    <3>1. Unheld(t)'
      BY <1>1, <1>4, <2>3 DEF Unheld
    <3> QED  BY <2>2, <2>3, <3>1 DEF Dropped
  <2>4. CASE t \notin cancelled
    <3>1. y.unsent = <<>> /\ t \in ToSet(TextsBefore(run[r]))
      BY <2>4 DEF ReopensAs
    <3>2. t \notin ToSet(y.unsent) /\ TextsBefore(run[r]) # <<>>
      BY <3>1 DEF ToSet
    <3>3. r - 1 \in 1..used /\ t \in ToSet(run[r - 1].unsent)
      BY <3>1, <3>2, BeforeHeld
    <3>4. ~Fresh(t)
      BY <2>1, <3>3 DEF TextInv, FreshInv, Has
    <3> QED  BY <2>3, <3>2, <3>4
  <2>5. CASE t \in cancelled
    <3>1. CASE msg[t].restarts
      BY <1>1, <3>1 DEF Dropped
    <3>2. CASE Passed(t)
      <4>1. msg[t].run \in 1..used
        BY <2>1, <3>2 DEF Passed, CancelInv, KnownInv, StartsKnown
      <4>2. run'[msg[t].run].earlyCancels = run[msg[t].run].earlyCancels
        BY <1>5, <4>1
      <4> QED  BY <1>1, <3>2, <4>2 DEF Passed, Dropped
    <3>3. CASE ~Fresh(t) /\ Unheld(t)
      <4>1. t \notin ToSet(y.unsent)
        <5>1. CASE y.unsent = <<>>
          BY <5>1 DEF ToSet
        <5>2. CASE y.unsent # <<>>
          <6>1. y.unsent = TextsBefore(run[r])
            BY <5>2 DEF ReopensAs
          <6>2. r - 1 \in 1..used /\ Holder(r - 1) /\ y.unsent = run[r - 1].unsent
            BY <5>2, <6>1, BeforeHeld
          <6> QED  BY <3>3, <6>2 DEF Unheld
        <5> QED  BY <5>1, <5>2
      <4> QED  BY <2>3, <3>3, <4>1
    <3>4. Dropped(t)
      BY <2>5 DEF CancelInv, CancelKept
    <3> QED  BY <3>1, <3>2, <3>3, <3>4 DEF Dropped
  <2> QED  BY <2>4, <2>5
<1> QED  BY <1>7, <1>8, <1>9, <1>11, <1>12, <1>13 DEF CancelInv, KnownInv

LEMMA ReopenKeepsCancels ==
  ASSUME TypeInv, TypeInv', TextInv, CancelInv, NEW r \in 1..used, Reopen(r) PROVE CancelInv'
<1> DEFINE x == run[r]
           before == TextsBefore(x)
           drops == x.earlyCancels > 0 /\ answers.answered
           u == IF drops THEN <<>> ELSE before
<1>1. x \in RunRecord
  BY Registry DEF TypeInv
<1>2. Waits(r) /\ \A s \in 1..(r - 1) : ~Waits(s)
  BY DEF Reopen, Waits
<1>3. u = <<>> \/ u = before
  OBVIOUS
<1>4. used' = used /\ answers' = answers /\ msg' = msg
  BY DEF Reopen, chat, table
<1>5. \A t \in cancelled' : t \in cancelled \/ (u = <<>> /\ t \in ToSet(before))
  BY DEF Reopen
<1> PICK v : v = u
  OBVIOUS
<1>6. \E y : ReopensAs(r, y)
  <2>1. CASE stopping \/ x.quiet
    <3>1. run' = [run EXCEPT ![r] = Overtaken([x EXCEPT !.unsent = v])] /\ writes' = writes
      BY <2>1 DEF Reopen
    <3> PICK y : y = Overtaken([x EXCEPT !.unsent = v])
      OBVIOUS
    <3>2. Reopened(x, y) /\ y.unsent = v /\ y.earlyCancels = x.earlyCancels /\ y.pc = "over"
      BY <1>1, ReopenedFields, ReopenedKeeps
    <3>3. run' = [run EXCEPT ![r] = y] /\ y.created = x.created
      BY <3>1, <3>2 DEF Reopened
    <3> HIDE DEF u, before, drops
    <3>4. ReopensAs(r, y)
      BY <1>3, <1>4, <1>5, <3>1, <3>2, <3>3 DEF ReopensAs, before
    <3> QED  BY <3>4
  <2>2. CASE ~(stopping \/ x.quiet)
    <3> PICK y : y = [[x EXCEPT !.unsent = v] EXCEPT !.pc = "interrupt"]
      OBVIOUS
    <3>1. run' = [run EXCEPT ![r] = y] /\ writes' = Append(writes, WThen(Plain("interrupted"), r, "reopen"))
      BY <2>2 DEF Reopen
    <3>2. y.unsent = v /\ y.earlyCancels = x.earlyCancels /\ y.pc = "interrupt" /\ y.created = x.created
      BY <1>1 DEF RunRecord
    <3> HIDE DEF u, before, drops
    <3>4. ReopensAs(r, y)
      BY <1>3, <1>4, <1>5, <3>1, <3>2 DEF ReopensAs, before
    <3> QED  BY <3>4
  <2> QED  BY <2>1, <2>2
<1>7. PICK y : ReopensAs(r, y)
  BY <1>6
<1> QED  BY <1>2, <1>7, ReopenCancels

\* A chat that starts, or was loaded, cancelled nothing.
LEMMA InitCancels == Init => CancelInv
<1> SUFFICES ASSUME Init PROVE CancelInv
  OBVIOUS
<1>1. writes = <<>> /\ cancelled = {} /\ 1..Len(writes) = {}
  BY DEF Init, InitCommon
<1>2. \A t \in Texts : ~Coming(msg[t])
  <2>1. ASSUME NEW t \in Texts, InitStarted(t) PROVE \A u \in Texts : ~Coming(msg[u])
    <3>1. \A u \in Texts : msg[u].st \in {"done", "new"}
      BY <2>1 DEF InitStarted
    <3> QED  BY <3>1 DEF Coming
  <2>2. ASSUME NEW a, NEW s, InitLoaded(TRUE, a, s) PROVE \A u \in Texts : ~Coming(msg[u])
    <3>1. \A u \in Texts : msg[u].st = "new"
      BY <2>2 DEF InitLoaded
    <3> QED  BY <3>1 DEF Coming
  <2> QED  BY <2>1, <2>2 DEF Init
<1>3. \A r \in 1..used : run[r].pc = "init"
  <2>1. ASSUME NEW t \in Texts, InitStarted(t) PROVE \A r \in 1..used : run[r].pc = "init"
    <3> PICK x : x = [NewRun EXCEPT !.pc = "init", !.proc = "alive", !.idle = "on"]
      OBVIOUS
    <3>1. x.pc = "init"
      BY DEF NewRun
    <3>2. run = [r \in Runs |-> IF r = 1 THEN x ELSE NewRun] /\ used = 1
      BY <2>1 DEF InitStarted
    <3> QED  BY <3>1, <3>2, RunnerAssumption DEF Runs
  <2>2. ASSUME NEW a, NEW s, InitLoaded(TRUE, a, s) PROVE \A r \in 1..used : run[r].pc = "init"
    BY <2>2 DEF InitLoaded
  <2> QED  BY <2>1, <2>2 DEF Init
<1>4. KnownInv
  BY <1>1, <1>2, <1>3 DEF KnownInv, StartsKnown, HoldsKnown, WaitsBlank, Waits
<1>5. SilentInv
  BY <1>1, <1>3 DEF SilentInv, Still, StillFrom
<1>6. AnewInv
  BY <1>3 DEF AnewInv, Anew
<1> QED  BY <1>1, <1>4, <1>5, <1>6 DEF CancelInv, CancelKept

-----------------------------------------------------------------------------
(* Every step. *)

LEMMA ShiftFlows ==
  ASSUME Base, TextInv, CancelInv, Shifts PROVE Flow \/ \E r \in 1..used : Reopen(r)
<1>1. TypeInv /\ KnownInv /\ AnewInv /\ CancelKept
  BY DEF Base, CancelInv
<1>2. ASSUME ChatShifts PROVE Flow
  <2>1. PickRelaunches => Flow
    BY <1>1, PickRelaunchFlow
  <2>2. CancelTurn \/ EndCancels => Flow
    BY CancelTurnFlow
  <2>3. CancelEarly => Flow
    BY <1>1, CancelEarlyFlow
  <2>4. WriteDone => Flow
    BY <1>1, WriteDoneFlow
  <2>5. HoldWritten => Flow
    BY <1>1, HoldWrittenFlow
  <2>6. WriteFails => Flow
    BY WriteFailsFlow
  <2> QED  BY <1>2, <2>1, <2>2, <2>3, <2>4, <2>5, <2>6 DEF ChatShifts
<1>3. ASSUME NEW t \in Texts, MessageShifts(t) PROVE Flow
  <2>1. Restart(t) \/ JoinStart(t) => Flow
    BY <1>1, RestartFlow, JoinStartFlow
  <2>2. JoinTurn(t) \/ StartTurn(t) => Flow
    BY <1>1, JoinTurnFlow, StartTurnFlow
  <2> QED  BY <1>3, <2>1, <2>2 DEF MessageShifts
<1>4. ASSUME NEW r \in 1..used, RunShifts(r), ~Reopen(r) PROVE Flow
  <2>1. Spawn(r) \/ Initialized(r) => Flow
    BY <1>1, SpawnFlow, InitializedFlow
  <2>2. SessionLost(r) \/ SessionCreated(r) => Flow
    BY <1>1, SessionLostFlow, SessionCreatedFlow
  <2>3. OptionsDone(r) \/ HeldOver(r) \/ NextPrompt(r) => Flow
    BY <1>1, OptionsOverFlow, HeldOverFlow, NextPromptFlow
  <2>4. ConnectionCut(r) \/ (\E clean \in BOOLEAN : Exit(r, clean)) => Flow
    BY <1>1, ExitFlow
  <2>5. InterruptDone(r) \/ SessionStored(r) \/ ResumedDone(r) => Flow
    BY <1>1, InterruptDoneFlow, SessionStoredFlow, ResumedDoneFlow
  <2> QED  BY <1>4, <2>1, <2>2, <2>3, <2>4, <2>5 DEF RunShifts
<1>5. ASSUME NEW r \in 1..used, NEW t \in Texts, TextShifts(r, t) PROVE Flow
  BY <1>1, <1>5, HoldWriteFlow, InjectFlow, SteerFlow DEF TextShifts
<1>6. ASSUME NEW r \in 1..used, RunShifts(r) \/ \E t \in Texts : TextShifts(r, t)
      PROVE  Flow \/ \E s \in 1..used : Reopen(s)
  BY <1>4, <1>5, <1>6
<1> QED  BY <1>2, <1>3, <1>6 DEF Shifts

LEMMA NextCancels ==
  ASSUME Base, Base', TextInv, TextInv', CancelInv, [Next]_vars PROVE CancelInv'
<1>1. TypeInv /\ TypeInv' /\ (stopping => stopping')
  BY StoppingStays DEF Base
<1>2. Goes
  BY NextGoes
<1>3. CASE Calm
  BY <1>1, <1>3, CalmFlow, FlowOn
<1>4. CASE Shifts
  <2>1. CASE Flow
    BY <2>1, FlowOn
  <2>2. ASSUME NEW r \in 1..used, Reopen(r) PROVE CancelInv'
    BY <1>1, <2>2, ReopenKeepsCancels
  <2> QED  BY <1>4, <2>1, <2>2, ShiftFlows
<1> QED  BY <1>2, <1>3, <1>4 DEF Goes

-----------------------------------------------------------------------------
(* What the agent gets. *)

\* Only a text of the batch is given.
LEMMA GivesBatch ==
  ASSUME TypeInv, NEW batch \in Seq(Texts), NEW t \in Texts, GotBy(batch)[t] > got[t]
  PROVE  t \in ToSet(batch)
<1> SUFFICES ASSUME t \notin ToSet(batch) PROVE FALSE
  OBVIOUS
<1> DEFINE S == {i \in DOMAIN batch : batch[i] = t}
<1>1. GotBy(batch)[t] = got[t] + Cardinality(S) /\ got[t] \in Nat
  BY DEF GotBy, TypeInv, TypeOK
<1>2. S = {}
  BY DEF ToSet
<1>3. Cardinality(S) = 0
  BY <1>2, FS_EmptySet
<1> HIDE DEF S
<1> PICK g : g = got[t]
  OBVIOUS
<1>4. g \in Nat /\ g + 0 > g
  BY <1>1, <1>3
<1> QED  BY <1>4

\* A cancelled text that a run may still send starts over.
LEMMA TakenRestarts ==
  ASSUME TypeInv, TextInv, CancelKept, NEW r \in 1..used, Holder(r), NEW t \in cancelled, t \in ToSet(run[r].unsent)
  PROVE  msg[t].restarts
<1>1. t \in Texts
  BY DEF TypeInv, TypeOK
<1>2. ~Fresh(t)
  BY <1>1 DEF TextInv, FreshInv, Has
<1>3. Dropped(t) /\ ~Unheld(t) /\ ~Passed(t)
  BY <1>2 DEF CancelKept, Unheld, Passed, Coming, Fresh
<1> QED  BY <1>3 DEF Dropped

\* What gives a text of a message to the agent.
LEMMA GivenBy ==
  ASSUME Base, TextInv, [Next]_vars, NEW t \in Texts, got'[t] > got[t]
  PROVE  \/ \E u \in Texts : StartTurn(u)
         \/ \E r \in 1..used : OptionsDone(r) \/ HeldOver(r) \/ NextPrompt(r)
         \/ \E r \in 1..used : \E u \in Texts : AgentInjects(r, u)
<1>1. got[t] \in Nat /\ got' # got
  <2>1. got[t] \in Nat
    BY DEF Base, TypeInv, TypeOK
  <2>2. PICK g : g = got[t]
    OBVIOUS
  <2>3. ~(g > g)
    BY <2>1, <2>2
  <2> QED  BY <2>1, <2>2, <2>3
<1>2. Shifts
  BY <1>1, NextGoes DEF Goes, Calm, TextsKept
<1>3. ~ChatShifts
  BY <1>1 DEF ChatShifts, PickRelaunches, CancelTurn, CancelEarly, EndCancels, WriteDone, HoldWritten, WriteFails, history
<1>4. ASSUME NEW u \in Texts, MessageShifts(u) PROVE StartTurn(u)
  BY <1>1, <1>4 DEF MessageShifts, Restart, JoinStart, JoinTurn, history
<1>5. ASSUME NEW r \in 1..used, RunShifts(r) PROVE OptionsDone(r) \/ HeldOver(r) \/ NextPrompt(r)
  <2>1. ~SessionLost(r) /\ ~SessionCreated(r)
    <3>1. got' # [u \in Texts |-> 0]
      <4> SUFFICES ASSUME got' = [u \in Texts |-> 0] PROVE FALSE
        OBVIOUS
      <4> PICK g : g = got[t]
        OBVIOUS
      <4>1. g \in Nat /\ 0 > g
        BY <1>1
      <4> QED  BY <4>1
    <3> QED  BY <1>1, <3>1 DEF SessionLost, SessionCreated, history
  <2>2. ~(Reopen(r) \/ Spawn(r) \/ Initialized(r))
    BY <1>1 DEF Reopen, Spawn, Initialized, history
  <2>3. ~(ConnectionCut(r) \/ (\E clean \in BOOLEAN : Exit(r, clean)))
    BY <1>1 DEF ConnectionCut, Exit
  <2>4. ~(InterruptDone(r) \/ SessionStored(r) \/ ResumedDone(r))
    BY <1>1 DEF InterruptDone, SessionStored, ResumedDone, history
  <2> QED  BY <1>5, <2>1, <2>2, <2>3, <2>4 DEF RunShifts
<1>6. ASSUME NEW r \in 1..used, NEW u \in Texts, TextShifts(r, u) PROVE AgentInjects(r, u)
  BY <1>1, <1>6 DEF TextShifts, HoldWrite, SteerAnswered, history
<1> QED  BY <1>2, <1>3, <1>4, <1>5, <1>6 DEF Shifts

\* A prompt that starts a session or a turn of a run.
LEMMA FirstGiven ==
  ASSUME Base, TextInv, CancelInv, NEW r \in 1..used, OptionsDone(r) \/ HeldOver(r) \/ NextPrompt(r),
         NEW t \in cancelled, got'[t] > got[t]
  PROVE  msg[t].restarts
<1>1. TypeInv /\ CancelKept /\ t \in Texts /\ run[r] \in RunRecord
  BY Registry DEF Base, CancelInv, TypeInv, TypeOK
<1>2. got' # got
  <2>1. PICK g : g = got[t]
    OBVIOUS
  <2>2. ~(g > g)
    BY <1>1, <2>1 DEF TypeInv, TypeOK
  <2> QED  BY <2>1, <2>2
<1>3. run[r].unsent \in Seq(Texts)
  BY <1>1 DEF RunRecord
<1>4. ~run[r].quiet /\ run[r].pc \in {"options", "held", "check"}
  BY <1>2 DEF OptionsDone, HeldOver, NextPrompt
<1>5. Holder(r)
  BY <1>4, TurnHolds
<1>6. ASSUME got' = GotBy(run[r].unsent) PROVE msg[t].restarts
  <2>1. t \in ToSet(run[r].unsent)
    BY <1>1, <1>3, <1>6, GivesBatch
  <2> QED  BY <1>1, <1>5, <2>1, TakenRestarts
<1>7. CASE OptionsDone(r)
  <2>1. got' = FirstTurnGot([run[r] EXCEPT !.session = TRUE])
    BY <1>2, <1>7 DEF OptionsDone
  <2>2. [run[r] EXCEPT !.session = TRUE].unsent = run[r].unsent
    BY <1>1 DEF RunRecord
  <2>3. got' = GotBy(run[r].unsent)
    BY <1>2, <2>1, <2>2 DEF FirstTurnGot, PromptGot
  <2> QED  BY <1>6, <2>3
<1>8. CASE HeldOver(r)
  <2> DEFINE u == IF run[r].created THEN answers.unanswered ELSE run[r].unsent
             x == [run[r] EXCEPT !.unsent = u]
  <2>1. got' = FirstTurnGot(x)
    BY <1>2, <1>8 DEF HeldOver
  <2>2. x.unsent = u
    BY <1>1 DEF RunRecord
  <2> HIDE DEF x
  <2>3. got' = GotBy(u)
    BY <1>2, <2>1, <2>2 DEF FirstTurnGot, PromptGot
  <2>4. ~run[r].created
    <3> SUFFICES ASSUME run[r].created PROVE FALSE
      OBVIOUS
    <3>1. Anew(run[r]) /\ ~run[r].pickRelaunch
      BY <1>8 DEF HeldOver, Anew, TextInv, FormInv, Form
    <3>2. cancelled = {}
      BY <1>5, <3>1 DEF CancelInv, AnewInv, AnewFits, EndsOver
    <3> QED  BY <3>2
  <2> QED  BY <1>6, <2>3, <2>4
<1>9. CASE NextPrompt(r)
  BY <1>2, <1>6, <1>9 DEF NextPrompt, PromptGot
<1> QED  BY <1>7, <1>8, <1>9

LEMMA StartGiven ==
  ASSUME Base, TextInv, CancelInv, NEW u \in Texts, StartTurn(u), NEW t \in cancelled, got'[t] > got[t]
  PROVE  msg[t].restarts
<1>1. TypeInv /\ CancelKept /\ t \in Texts /\ cur # NoRun /\ cur \in 1..used /\ run[cur] \in RunRecord /\ LineInv
  BY Registry DEF Base, CancelInv, TypeInv, TypeOK, StartTurn, TextInv
<1>2. run[cur].unsent \in Seq(Texts)
  BY <1>1 DEF RunRecord
<1>0. got' # got
  <2>1. PICK g : g = got[t]
    OBVIOUS
  <2>2. ~(g > g)
    BY <1>1, <2>1 DEF TypeInv, TypeOK
  <2> QED  BY <2>1, <2>2
<1>3. got' = GotBy(Append(run[cur].unsent, u)) /\ Append(run[cur].unsent, u) \in Seq(Texts) /\ Sent(u)
  BY <1>0, <1>2 DEF StartTurn, PromptGot
<1>4. t \in ToSet(run[cur].unsent) \union {u}
  <2>1. t \in ToSet(Append(run[cur].unsent, u))
    BY <1>1, <1>3, GivesBatch
  <2> QED  BY <1>2, <2>1, AppendOnce
<1>5. CASE t = u
  <2>1. Dropped(t)
    BY <1>1 DEF CancelKept
  <2> QED  BY <1>3, <1>5, <2>1 DEF Dropped, Passed, Coming, Fresh, Sent
<1>6. CASE t \in ToSet(run[cur].unsent)
  <2>1. ~Waits(cur)
    BY <1>1, <1>6 DEF CancelInv, KnownInv, WaitsBlank, ToSet
  <2>2. Holder(cur)
    BY <1>1, <2>1, CurIsHolder
  <2> QED  BY <1>1, <1>6, <2>2, TakenRestarts
<1> QED  BY <1>4, <1>5, <1>6

LEMMA CancelStep ==
  ASSUME Base, TextInv, CancelInv, [Next]_vars, NEW t \in Texts, SentAfterCancel(t) PROVE msg[t].restarts
<1>1. t \in cancelled /\ got'[t] > got[t] /\ \A r \in Runs : t \notin run[r].steering
  BY DEF SentAfterCancel
<1>2. ASSUME NEW r \in 1..used, NEW u \in Texts, AgentInjects(r, u) PROVE FALSE
  <2>1. TypeInv /\ r \in Runs /\ <<u>> \in Seq(Texts)
    BY Registry DEF Base, TypeInv
  <2>2. got' = GotBy(<<u>>) /\ u \in run[r].steering
    BY <1>2 DEF AgentInjects
  <2>3. t \in ToSet(<<u>>)
    BY <1>1, <2>1, <2>2, GivesBatch
  <2>4. t = u
    <3>1. Len(<<u>>) = 1 /\ <<u>>[1] = u
      OBVIOUS
    <3> QED  BY <2>3, <3>1 DEF ToSet
  <2> QED  BY <1>1, <2>1, <2>2, <2>4
<1>3. \/ \E u \in Texts : StartTurn(u)
      \/ \E r \in 1..used : OptionsDone(r) \/ HeldOver(r) \/ NextPrompt(r)
  BY <1>1, <1>2, GivenBy
<1> QED  BY <1>1, <1>3, FirstGiven, StartGiven

-----------------------------------------------------------------------------
(* The theorems about what a cancel takes back. *)

\* In every reachable state, a text that a cancel took back is with no run that may send it: its
\* message is written and held by none, or is dropped once it is written, or starts over.  A start
\* in a new session, which sends the texts of the log, has nothing to hold back.
THEOREM CancelsHold == Spec => []CancelInv
<1>1. /\ TypeInv /\ StartInv /\ PlaceInv /\ EndInv /\ TypeInv' /\ StartInv' /\ PlaceInv' /\ EndInv'
      /\ TextInv /\ TextInv' /\ CancelInv /\ [Next]_vars
      => CancelInv'
  BY NextCancels DEF Base
<1> QED  BY <1>1, InitCancels, TypesHold, StartsWait, PlacesHold, EndsHold, TextsHold, PTL DEF Spec

\* No step gives the agent a text that a cancel took back before, but in an answer to a steer
\* that was on its way, or of a message that starts over.
THEOREM CancelIsKept == Spec => CancelHolds
<1>1. /\ TypeInv /\ StartInv /\ PlaceInv /\ EndInv /\ TextInv /\ CancelInv /\ [Next]_vars
      => [\A t \in Texts : SentAfterCancel(t) => msg[t].restarts]_vars
  BY CancelStep DEF Base
<1> QED  BY <1>1, TypesHold, StartsWait, PlacesHold, EndsHold, TextsHold, CancelsHold, PTL DEF Spec, CancelHolds

-----------------------------------------------------------------------------
(* The starts that wait, and the held messages of the run before. *)

\* An `end` or the daemon stop overtakes a start.
Overtakes == end.st = "ends" \/ stopping

\* Only the last run waits to start, and it is the current one until something overtakes it.
BeforeInv == \A r \in 1..used : run[r].pc \in Before => r = last /\ (cur = r \/ Overtakes)

\* A held message in the queue is of the last run, or of the one before: while the last one waits,
\* before its interrupt is written, or when it was overtaken.
HoldLast(w) ==
  \/ w.by = last
  \/ Waits(last) /\ w.by = last - 1
  \/ ~Waits(last) /\ (Overtakes \/ run[last].pc = "interrupt")
HoldsLast == \A i \in 1..Len(writes) : writes[i].cont = "hold" => HoldLast(writes[i])

StartsInv == ~faulted => BeforeInv /\ HoldsLast

\* What ends the start of the current run.
Yields == cur' = cur \/ cur = NoRun \/ Overtakes' \/ faulted' \/ run[cur].pc \notin Before

LEMMA CurYields == cur' = cur \/ cur = NoRun \/ end'.st = "ends" \/ stopping' \/ faulted' => Yields
  BY DEF Yields, Overtakes

\* A run before its interrupt is written has no process, and is in a turn.
LEMMA BeforeTurns ==
  ASSUME Base, NEW r \in 1..used, run[r].pc \in Before
  PROVE  run[r].proc = "none" /\ run[r].turning /\ run[r].pc \in {"reopen", "interrupt"}
<1>1. r \in Runs
  BY Registry DEF Base, TypeInv
<1>2. run[r].proc = "none"
  BY <1>1 DEF Base, StartInv, Unspawned, Early, Before
<1>3. TurnFits(run[r])
  BY DEF Base, PlaceInv, TurnsFit
<1> QED  BY <1>2, <1>3 DEF TurnFits, Before

LEMMA MessagesYield ==
  ASSUME Base, MirrorInv, NEW t \in Texts, Send(t) \/ MessageStep(t) PROVE Yields
<1>1. RefuseMessage(t) \/ JoinStart(t) \/ JoinTurn(t) \/ StartTurn(t) => cur' = cur
  BY DEF RefuseMessage, JoinStart, JoinTurn, StartTurn
<1>2. Restart(t) => cur = NoRun
  BY DEF Restart
<1>3. MessageFails(t) => cur' = cur
  BY DEF MessageFails
<1>4. ASSUME NEW r, HoldRefused(r, t) \/ HoldAgain(r, t) \/ HoldWrite(r, t) PROVE cur' = cur
  BY <1>4 DEF HoldRefused, HoldAgain, HoldWrite
<1>5. ASSUME NEW r, HoldStopping(r, t) PROVE stopping'
  BY <1>5 DEF HoldStopping, daemon
<1> QED  BY <1>1, <1>2, <1>3, <1>4, <1>5, CurYields DEF MessageStep, Send

LEMMA WritesYield ==
  ASSUME Base, MirrorInv, WriteStep \/ WriteFails PROVE Yields
<1>1. WriteFails => faulted'
  BY DEF WriteFails
<1>2. WriteDone \/ HoldWritten => cur' = cur
  BY DEF WriteDone, HoldWritten
<1>3. ASSUME NEW r \in 1..used, SessionStored(r) \/ ResumedDone(r) PROVE cur' = cur
  BY <1>3 DEF SessionStored, ResumedDone
<1>4. ASSUME NEW r \in 1..used, InterruptDone(r) PROVE cur' = cur \/ stopping'
  <2>1. stopping' = stopping
    BY <1>4 DEF InterruptDone, daemon
  <2>2. cur = r /\ cur # NoRun => ~run[r].quiet
    BY DEF MirrorInv, Mutes
  <2>3. r # NoRun
    BY DEF NoRun
  <2> QED  BY <1>4, <2>1, <2>2, <2>3 DEF InterruptDone, Forget
<1> QED  BY <1>1, <1>2, <1>3, <1>4, CurYields DEF WriteStep

LEMMA ClientsYield ==
  ASSUME Base, MirrorInv,
         \/ SetOption \/ CancelOwnTurn \/ CancelTurn \/ CancelEarly
         \/ Stop \/ EndCancels \/ EndAtOnce \/ EndWithNoRun \/ StopStarts
         \/ PickAnswered \/ PickStep \/ EndStep \/ Close
  PROVE  Yields
<1>1. SetOption \/ PickAnswered \/ PickRefused \/ PickWaits \/ PickDirect => cur' = cur
  BY DEF SetOption, PickAnswered, PickRefused, PickWaits, PickDirect
<1>2. PickRelaunches => cur = NoRun
  BY DEF PickRelaunches
<1>3. CancelOwnTurn \/ CancelTurn \/ CancelEarly \/ EndCancels \/ StopStarts => cur' = cur
  BY DEF CancelOwnTurn, CancelTurn, CancelEarly, EndCancels, StopStarts
<1>4. ASSUME Stop PROVE Yields
  <2>1. cur # NoRun /\ ~run[cur].turning
    BY <1>4 DEF Stop
  <2>2. cur \in 1..used
    BY <2>1, Registry DEF Base, TypeInv
  <2> QED  BY <2>1, <2>2, BeforeTurns DEF Yields
<1>5. EndAtOnce \/ EndWaited => end'.st = "ends"
  <2>1. ASSUME NEW r, EndNow(r) PROVE end'.st = "ends"
    BY <2>1 DEF EndNow
  <2> QED  BY <2>1 DEF EndAtOnce, EndWaited
<1>6. EndWithNoRun \/ EndRefused \/ EndResolves \/ EndFails => cur' = cur
  BY DEF EndWithNoRun, EndRefused, EndResolves, EndFails
<1>7. Close => stopping'
  BY DEF Close
<1> QED  BY <1>1, <1>2, <1>3, <1>4, <1>5, <1>6, <1>7, CurYields DEF PickStep, EndStep

LEMMA RunsYield ==
  ASSUME Base, MirrorInv, NEW r \in 1..used, RunStep(r) \/ CheckStep(r) \/ ExitStep(r) \/ ProcessEnds(r)
  PROVE  Yields
<1> DEFINE Kept == cur' = cur
<1>1. CASE RunStep(r)
  <2>1. ASSUME Reopen(r) PROVE cur' = cur \/ stopping'
    <3>1. stopping' = stopping
      BY <2>1 DEF Reopen, daemon
    <3>2. cur = r /\ cur # NoRun => ~run[r].quiet
      BY DEF MirrorInv, Mutes
    <3>3. r # NoRun
      BY DEF NoRun
    <3> QED  BY <2>1, <3>1, <3>2, <3>3 DEF Reopen, Forget
  <2>2. LaunchOver(r) \/ Spawn(r) \/ StartHalted(r) => Kept
    BY DEF LaunchOver, Spawn, StartHalted
  <2>3. OptionSent(r) \/ OptionsQuiet(r) \/ OptionsDone(r) => Kept
    BY DEF OptionSent, OptionsQuiet, OptionsDone
  <2>4. PickOptionsDone(r) \/ HeldOver(r) => Kept
    BY DEF PickOptionsDone, HeldOver
  <2>5. NextPrompt(r) => Kept
    BY DEF NextPrompt
  <2>6. ASSUME NEW jobs \in BOOLEAN, TurnOver(r, jobs) PROVE Kept
    BY <2>6 DEF TurnOver
  <2> QED  BY <1>1, <2>1, <2>2, <2>3, <2>4, <2>5, <2>6, CurYields DEF RunStep
<1>2. CASE CheckStep(r)
  <2>1. IdleOvertaken(r) => Kept
    BY DEF IdleOvertaken
  <2>2. ASSUME NEW jobs \in BOOLEAN, MarkerChecked(r, jobs) PROVE Kept
    BY <2>2 DEF MarkerChecked
  <2>3. ASSUME NEW jobs \in BOOLEAN, StopChecked(r, jobs) PROVE Kept
    BY <2>3 DEF StopChecked
  <2> QED  BY <1>2, <2>1, <2>2, <2>3, CurYields DEF CheckStep
<1>3. CASE ExitStep(r) \/ ProcessEnds(r)
  <2>1. ASSUME OnExit(r) PROVE Yields
    <3>1. run[r].proc # "none"
      BY <2>1 DEF OnExit
    <3>2. run[r].pc \notin Before
      BY <3>1, BeforeTurns
    <3>3. cur' = cur \/ cur = r
      BY <2>1 DEF OnExit, Forget
    <3> QED  BY <3>2, <3>3 DEF Yields
  <2>2. GroupEnded(r) => Kept
    BY DEF GroupEnded
  <2>3. ASSUME NEW clean, Exit(r, clean) PROVE Kept
    BY <2>3 DEF Exit
  <2> QED  BY <1>3, <2>1, <2>2, <2>3, CurYields DEF ExitStep, ProcessEnds
<1> QED  BY <1>1, <1>2, <1>3

LEMMA AgentsYield ==
  ASSUME Base, MirrorInv, NEW r \in 1..used, AgentStep(r) PROVE Yields
<1> DEFINE Kept == cur' = cur
<1>1. ASSUME cur' = cur \/ cur = r, run[r].pc \notin Before PROVE Yields
  BY <1>1 DEF Yields
<1>2. LaunchFails(r) => Yields
  BY <1>1 DEF LaunchFails, Forget, Before
<1>3. Initialized(r) \/ SessionResumed(r) \/ SessionCreated(r) \/ OptionAnswered(r) => Kept
  BY DEF Initialized, SessionResumed, SessionCreated, OptionAnswered
<1>4. SessionLost(r) => Yields
  BY <1>1 DEF SessionLost, Forget, Before
<1>5. AgentFails(r) => Yields
  BY <1>1 DEF AgentFails, Forget, AtAgent, Before
<1>6. AgentWorks(r) \/ OwnTurnMarker(r) \/ ConnectionCut(r) \/ OwnOutput(r) => Kept
  BY DEF AgentWorks, OwnTurnMarker, ConnectionCut, OwnOutput
<1>7. IdleExpires(r) => Yields
  BY <1>1, BeforeTurns DEF IdleExpires, Forget
<1>8. ASSUME NEW flag \in BOOLEAN, PromptReturned(r, flag) \/ Exit(r, flag) PROVE Kept
  BY <1>8 DEF PromptReturned, Exit
<1>9. ASSUME NEW t \in Texts, AgentInjects(r, t) \/ SteerAnswered(r, t) PROVE Kept
  BY <1>9 DEF AgentInjects, SteerAnswered
<1>10. ASSUME NEW q \in Requests, Ask(r, q) \/ Resolve(r, q) PROVE Kept
  BY <1>10 DEF Ask, Resolve
<1>11. ASSUME NEW jobs \in BOOLEAN, NEW ended \in BOOLEAN, NEW recent \in BOOLEAN,
              IdleChecked(r, jobs, ended, recent)
       PROVE  Yields
  <2>1. UNCHANGED <<cur, pick>> \/ Forget(r)
    BY <1>11 DEF IdleChecked
  <2>2. ~run[r].turning
    BY <1>11 DEF IdleChecked
  <2> QED  BY <1>1, <2>1, <2>2, BeforeTurns DEF Forget
<1> QED  BY <1>2, <1>3, <1>4, <1>5, <1>6, <1>7, <1>8, <1>9, <1>10, <1>11, CurYields
         DEF AgentStep, AgentTakesBack

\* Until a write fails, the current run gives its start up only for an `end` or for the daemon stop.
LEMMA NextYields == ASSUME Base, MirrorInv, [Next]_vars PROVE Yields
<1>1. CASE UNCHANGED vars
  BY <1>1, CurYields DEF vars
<1>2. CASE ClientStep
  <2>1. ASSUME NEW q \in Requests, Answer(q) PROVE Yields
    BY <2>1, CurYields DEF Answer, Resolve
  <2>2. ASSUME NEW t \in Texts, Send(t) PROVE Yields
    BY <2>2, MessagesYield
  <2> QED  BY <1>2, <2>1, <2>2, ClientsYield DEF ClientStep
<1> QED  BY <1>1, <1>2, MessagesYield, WritesYield, ClientsYield, RunsYield, AgentsYield
         DEF Next, Outside

-----------------------------------------------------------------------------
\* While no write fails, what overtakes a start stays until `end` resolves.
LEMMA OvertakesStay ==
  ASSUME TypeInv, [Next]_vars, ~faulted', LogInv, LogInv', Overtakes
  PROVE  Overtakes' \/ (EndResolves /\ writes = <<>> /\ run' = run /\ \A r \in 1..used : ~Waits(r))
<1>1. Onward /\ ~faulted /\ end.st # "fails" /\ end'.st # "fails"
  BY NextOnward DEF Onward, LogInv, MirrorInv, NoFaults
<1>2. CASE stopping
  BY <1>2, StoppingStays DEF Overtakes
<1>3. CASE ~stopping /\ end.st = "ends"
  <2>1. ~EndRefused /\ ~EndFails /\ ~EndWaited /\ ~EndCancels /\ ~EndAtOnce /\ ~EndWithNoRun
    BY <1>3 DEF EndRefused, EndFails, EndWaited, EndCancels, EndAtOnce, EndWithNoRun
  <2>2. end' = end \/ EndResolves
    BY <1>1, <2>1 DEF Onward
  <2>3. ASSUME EndResolves PROVE writes = <<>> /\ run' = run /\ \A r \in 1..used : ~Waits(r)
    <3>1. \A r \in 1..used : r \in Runs /\ r <= used
      BY Registry DEF TypeInv
    <3> QED  BY <2>3, <3>1 DEF EndResolves, Waits
  <2> QED  BY <1>3, <2>2, <2>3 DEF Overtakes
<1> QED  BY <1>2, <1>3 DEF Overtakes

\* Every step but the end of the wait of a start lets the texts flow.
LEMMA NextFlows ==
  ASSUME Base, TextInv, CancelInv, [Next]_vars PROVE Flow \/ \E r \in 1..used : Reopen(r)
<1>1. stopping => stopping'
  BY StoppingStays
<1>2. Goes
  BY NextGoes
<1> QED  BY <1>1, <1>2, CalmFlow, ShiftFlows DEF Goes

\* A write that is not the first one stays in the queue, and so does that one until it is done.
LEMMA QueuedStays ==
  ASSUME TypeInv, [Next]_vars, ~faulted', NEW i \in 1..Len(writes)
  PROVE  \/ \E j \in 1..Len(writes') : writes'[j] = writes[i]
         \/ i = 1 /\ WriteStep
<1>1. writes \in Seq(Write)
  BY DEF TypeInv, TypeOK
<1>2. ~WriteFails
  BY DEF WriteFails
<1>3. ASSUME NEW s \in Seq(Write), writes' = writes \o s PROVE i \in 1..Len(writes') /\ writes'[i] = writes[i]
  BY <1>1, <1>3
<1>4. CASE Grows
  <2> PICK s \in Seq(Aside) : writes' = writes \o s
    BY <1>4 DEF Grows
  <2>1. i \in 1..Len(writes') /\ writes'[i] = writes[i]
    BY <1>1
  <2> QED  BY <2>1
<1>5. CASE StepWrite
  <2>1. ASSUME NEW w, writes' = Append(writes, w) PROVE i \in 1..Len(writes') /\ writes'[i] = writes[i]
    BY <1>1, <2>1
  <2>2. writes' = writes \/ \E w : writes' = Append(writes, w)
    BY <1>5 DEF StepWrite, Reopen, SessionCreated, PickOptionsDone
  <2>3. CASE writes' = writes
    BY <2>3
  <2> QED  BY <2>1, <2>2, <2>3
<1>6. CASE WriteStep
  <2>1. writes # <<>> /\ writes' = Tail(writes)
    BY <1>6 DEF WriteStep, WriteDone, HoldWritten, InterruptDone, SessionStored, ResumedDone
  <2>2. CASE i # 1
    <3>1. i - 1 \in 1..Len(writes') /\ writes'[i - 1] = writes[i]
      BY <1>1, <2>1, <2>2
    <3> QED  BY <3>1
  <2> QED  BY <1>6, <2>2
<1> QED  BY <1>2, <1>4, <1>5, <1>6, NextQueue

\* A start that interrupts goes on only with the end of that write.
LEMMA InterruptLeft ==
  ASSUME Base, PlaceInv', SilentInv, [Next]_vars, ~faulted', NEW r \in 1..used, run[r].pc = "interrupt", Holder(r)
  PROVE  run'[r].pc = "interrupt" \/ InterruptDone(r)
<1>1. PICK k \in 1..Len(writes) : writes[k].cont = "reopen" /\ writes[k].by = r
  BY DEF SilentInv, ReopensStill
<1>2. CASE \E j \in 1..Len(writes') : writes'[j] = writes[k]
  <2> PICK j \in 1..Len(writes') : writes'[j] = writes[k]
    BY <1>2
  <2>1. j \in DOMAIN writes' /\ writes'[j].cont = "reopen" /\ writes'[j].by = r
    <3>1. writes' \in Seq(Write)
      BY NextType DEF Base, TypeInv, TypeOK
    <3> QED  BY <1>1, <3>1
  <2>2. run'[r].pc = StepPlace["reopen"]
    BY <2>1 DEF PlaceInv, StepFits, StepConts
  <2> QED  BY <2>2 DEF StepPlace
<1>3. CASE k = 1 /\ WriteStep
  <2>1. Head(writes).cont = "reopen" /\ Head(writes).by = r
    BY <1>1, <1>3 DEF Base, TypeInv, TypeOK
  <2>2. ~WriteDone /\ ~HoldWritten
    BY <2>1 DEF WriteDone, HoldWritten
  <2>3. \A s \in 1..used : ~SessionStored(s) /\ ~ResumedDone(s) /\ (InterruptDone(s) => s = r)
    BY <2>1 DEF SessionStored, ResumedDone, InterruptDone
  <2> QED  BY <1>3, <2>2, <2>3 DEF WriteStep
<1> QED  BY <1>1, <1>2, <1>3, QueuedStays DEF Base

\* A start that goes on after a wait is the last one.
LEMMA ReopenLeads ==
  ASSUME Base, TextInv, MirrorInv, BeforeInv, NEW r \in 1..used, Reopen(r)
  PROVE  /\ r = last /\ used' = used /\ last' = last /\ end' = end /\ stopping' = stopping
         /\ \E y : run' = [run EXCEPT ![r] = y] /\ y.pc \in {"interrupt", "over"}
         /\ run'[r].pc = "interrupt" => cur' = cur
         /\ cur' = cur \/ cur = r
         /\ run'[r].pc = "interrupt" \/ Overtakes'
         /\ ~Waits(r)'
<1>1. /\ used' = used /\ last' = last /\ end' = end /\ stopping' = stopping
      /\ run[r].pc = "reopen" /\ (cur' = cur \/ cur = r)
  BY DEF Reopen, table, daemon, Forget
<1>2. r \in Runs /\ run[r] \in RunRecord /\ run \in [Runs -> RunRecord]
  BY Registry DEF Base, TypeInv, TypeOK
<1>3. r = last /\ (cur = r \/ Overtakes) /\ r # NoRun
  BY <1>1 DEF BeforeInv, Before, NoRun
<1> PICK u : u = IF run[r].earlyCancels > 0 /\ answers.answered THEN <<>> ELSE TextsBefore(run[r])
  OBVIOUS
<1> DEFINE x == [run[r] EXCEPT !.unsent = u]
<1>4. CASE stopping \/ run[r].quiet
  <2>1. run' = [run EXCEPT ![r] = Overtaken(x)]
    BY <1>4 DEF Reopen
  <2>2. Overtaken(x).pc = "over"
    BY <1>2 DEF Overtaken, Silence, RunRecord
  <2>3. run[r].quiet => cur # r
    BY <1>3 DEF MirrorInv, Mutes
  <2>4. Overtakes'
    BY <1>1, <1>3, <1>4, <2>3 DEF Overtakes
  <2>5. run'[r] = Overtaken(x)
    BY <1>2, <2>1
  <2> HIDE DEF x
  <2> QED  BY <1>1, <1>3, <2>1, <2>2, <2>4, <2>5 DEF Waits
<1>5. CASE ~(stopping \/ run[r].quiet)
  <2>1. run' = [run EXCEPT ![r] = [x EXCEPT !.pc = "interrupt"]] /\ cur' = cur
    BY <1>5 DEF Reopen
  <2>2. [x EXCEPT !.pc = "interrupt"].pc = "interrupt"
    BY <1>2 DEF RunRecord
  <2>3. run'[r] = [x EXCEPT !.pc = "interrupt"]
    BY <1>2, <2>1
  <2> HIDE DEF x
  <2> QED  BY <1>1, <1>3, <2>1, <2>2, <2>3 DEF Waits
<1> QED  BY <1>4, <1>5

\* Only the last run waits to start.
LEMMA BeforeOn ==
  ASSUME Base, TextInv, TextInv', CancelInv, LogInv, LogInv', BeforeInv, [Next]_vars, ~faulted'
  PROVE  BeforeInv'
<1>1. ~faulted /\ Onward /\ MirrorInv
  BY NextOnward DEF Onward, LogInv, Base
<1>2. used \in Nat /\ last = used /\ last' = used' /\ \A r \in 1..used : r # NoRun
  BY Registry, RunnerAssumption DEF Base, TypeInv, TypeOK, TextInv, LineInv, NoRun
<1>3. CASE Flow
  <2> SUFFICES ASSUME NEW r \in 1..used', run'[r].pc \in Before PROVE (r = last /\ (cur = r \/ Overtakes))'
    BY DEF BeforeInv
  <2>1. ASSUME r \in 1..used PROVE run[r].pc \in Before /\ r = last /\ (cur = r \/ Overtakes)
    <3>1. run[r].pc \in Before
      BY <1>3, <2>1 DEF Flow, RunsFlow, Flows, Before
    <3> QED  BY <2>1, <3>1 DEF BeforeInv
  <2>2. CASE Registers
    <3>1. r \notin 1..used
      BY <1>2, <2>1, <2>2 DEF Registers, Overtakes, Accepts
    <3> QED  BY <1>2, <2>2, <3>1 DEF Registers
  <2>3. CASE cur' \in {cur, NoRun} /\ used' = used
    <3>1. run[r].pc \in Before /\ r = last' /\ (cur = r \/ Overtakes) /\ r \in 1..used
      BY <1>2, <2>1, <2>3
    <3>2. CASE Overtakes
      <4>1. ~EndResolves \/ ~(writes = <<>> /\ run' = run /\ \A s \in 1..used : ~Waits(s))
        <5> SUFFICES ASSUME writes = <<>>, \A s \in 1..used : ~Waits(s) PROVE FALSE
          OBVIOUS
        <5>1. Holder(r) /\ run[r].pc = "interrupt"
          BY <1>2, <2>1, <3>1 DEF Holder, Waits, Before
        <5>2. PICK k \in 1..Len(writes) : TRUE
          BY <3>1, <5>1 DEF CancelInv, SilentInv, ReopensStill
        <5> QED  BY <5>2
      <4> QED  BY <1>1, <3>1, <3>2, <4>1, OvertakesStay DEF Base
    <3>3. CASE cur = r
      BY <1>1, <1>2, <3>1, <3>3, NextYields DEF Yields
    <3> QED  BY <3>1, <3>2, <3>3
  <2> QED  BY <1>1, <2>2, <2>3 DEF Onward
<1>4. ASSUME NEW r \in 1..used, Reopen(r) PROVE BeforeInv'
  <2>1. /\ r = last /\ used' = used /\ last' = last /\ (run'[r].pc = "interrupt" => cur' = cur)
        /\ end' = end /\ stopping' = stopping
        /\ \E y : run' = [run EXCEPT ![r] = y] /\ y.pc \in {"interrupt", "over"}
    BY <1>1, <1>4, ReopenLeads
  <2>2. run[r].pc \in Before /\ (cur = r \/ Overtakes)
    BY <1>4 DEF Reopen, Before, BeforeInv
  <2> PICK y : run' = [run EXCEPT ![r] = y] /\ y.pc \in {"interrupt", "over"}
    BY <2>1
  <2>3. ASSUME NEW s \in 1..used, run'[s].pc \in Before PROVE (s = last /\ (cur = s \/ Overtakes))'
    <3>1. run \in [Runs -> RunRecord] /\ s \in Runs /\ r \in Runs
      BY Registry DEF Base, TypeInv, TypeOK
    <3>2. s = r
      <4>1. s # r => run'[s] = run[s]
        BY <3>1
      <4> QED  BY <2>1, <2>3, <4>1 DEF BeforeInv
    <3>3. run'[s].pc = "interrupt"
      BY <2>3, <3>1, <3>2 DEF Before
    <3> QED  BY <2>1, <2>2, <3>2, <3>3 DEF Overtakes
  <2> QED  BY <2>1, <2>3 DEF BeforeInv
<1> QED  BY <1>3, <1>4, NextFlows

-----------------------------------------------------------------------------
\* A held message in the queue is a `user` event of a known run.
LEMMA HoldFirst ==
  ASSUME TypeInv, TextInv, KnownInv, NEW i \in 1..Len(writes), writes[i].cont = "hold"
  PROVE  /\ writes[i].by \in 1..used /\ writes[i].ev.kind = "user" /\ writes[i].ev.text[1] \in Texts
         /\ msg[writes[i].ev.text[1]].run = writes[i].by /\ msg[writes[i].ev.text[1]].st = "write"
<1>1. UserFits(writes[i]) /\ IsCall(writes[i])
  BY DEF TextInv, OnceInv, CallsOnce, IsCall
<1>2. writes[i].ev.text \in Seq(Texts) /\ Len(writes[i].ev.text) = 1
  BY <1>1 DEF UserFits, TypeInv, TypeOK, Write, Event
<1>3. HoldKnown(writes[i])
  BY DEF KnownInv, HoldsKnown
<1> QED  BY <1>1, <1>2, <1>3 DEF UserFits, HoldKnown

\* The current run, once it is past its interrupt, wrote every held message of the queue.
LEMMA StartHolds ==
  ASSUME TypeInv', TextInv', KnownInv', MirrorInv', cur' # NoRun, InStart(run[cur])', run'[cur'].pc \notin Before,
         NEW i \in 1..Len(writes'), writes'[i].cont = "hold"
  PROVE  writes'[i].by = cur'
<1> PICK t : t = writes'[i].ev.text[1]
  OBVIOUS
<1> PICK c : c = cur'
  OBVIOUS
<1>1. UserFits(writes[i])' /\ IsCall(writes[i])'
  BY DEF TextInv, OnceInv, CallsOnce, IsCall
<1>2. HoldKnown(writes[i])'
  BY DEF KnownInv, HoldsKnown
<1>3. writes'[i].ev.kind = "user" /\ msg'[t].run = writes'[i].by
  BY <1>1, <1>2 DEF UserFits, HoldKnown
<1>4. HeldUser(run[cur], writes[i])'
  BY DEF MirrorInv, UsersFit
<1>5. PICK k \in 1..Len(run'[c].held) : run'[c].held[k] = t
  BY <1>3, <1>4 DEF HeldUser
<1>6. c \in 1..used' /\ ~run'[c].quiet
  <2>1. c \in 1..used'
    BY RunnerAssumption DEF TypeInv, TypeOK, NoRun
  <2> QED  BY <2>1 DEF MirrorInv, Mutes
<1>7. HeldFits(c, k)'
  BY <1>5, <1>6 DEF MirrorInv, HeldsFit
<1> QED  BY <1>3, <1>5, <1>7 DEF HeldFits

\* The end of the interrupt of the last run leaves no held message of another run behind.
LEMMA InterruptLeads ==
  ASSUME Base, TextInv', TypeInv', KnownInv', MirrorInv, MirrorInv', BeforeInv, InterruptDone(last),
         last \in 1..used,
         NEW i \in 1..Len(writes'), writes'[i].cont = "hold"
  PROVE  Overtakes' \/ writes'[i].by = last
<1>1. end' = end /\ stopping' = stopping /\ run[last].pc = "interrupt"
  BY DEF InterruptDone, daemon
<1>2. cur = last \/ Overtakes
  BY <1>1 DEF BeforeInv, Before
<1>3. CASE Overtakes
  BY <1>1, <1>3 DEF Overtakes
<1>4. CASE ~Overtakes
  <2>1. cur = last /\ cur # NoRun /\ ~run[cur].quiet /\ ~stopping
    BY <1>2, <1>4 DEF NoRun, MirrorInv, Mutes, Overtakes
  <2>2. last \in Runs /\ run[last] \in RunRecord /\ run \in [Runs -> RunRecord]
    BY Registry DEF Base, TypeInv, TypeOK
  <2> PICK p : p = IF run[last].byPick THEN "launch" ELSE "hold"
    OBVIOUS
  <2> DEFINE y == [run[last] EXCEPT !.reopened = "ok", !.pc = p]
  <2>3. run' = [run EXCEPT ![last] = y] /\ cur' = cur
    BY <2>1, <2>2 DEF InterruptDone
  <2>4. run'[last] = y
    BY <2>2, <2>3
  <2>5. /\ y.pc = p /\ y.turning = run[last].turning /\ y.reaches = run[last].reaches
        /\ y.pickRelaunch = run[last].pickRelaunch
    BY <2>2 DEF RunRecord
  <2> HIDE DEF y
  <2>6. InStart(run[cur])
    BY <1>1, <2>1 DEF MirrorInv, LogFits, LogOf, Shape, Before
  <2>7. InStart(y) /\ y.pc \notin Before
    BY <2>1, <2>5, <2>6 DEF InStart, Before
  <2>8. cur' # NoRun /\ InStart(run'[cur']) /\ run'[cur'].pc \notin Before
    BY <2>1, <2>3, <2>4, <2>7
  <2>9. writes'[i].by = cur'
    BY <2>8, StartHolds DEF Base
  <2> QED  BY <2>1, <2>3, <2>9
<1> QED  BY <1>3, <1>4

\* What a step leaves of the place of a held message.
LEMMA HoldsOn ==
  ASSUME Base, Base', TextInv, TextInv', CancelInv, CancelInv', LogInv, LogInv', BeforeInv, HoldsLast, [Next]_vars, ~faulted'
  PROVE  HoldsLast'
<1>1. ~faulted /\ Onward /\ MirrorInv /\ MirrorInv' /\ TypeInv /\ TypeInv' /\ KnownInv /\ KnownInv' /\ PlaceInv'
  BY NextOnward DEF Onward, LogInv, Base, CancelInv
<1>2. used \in Nat /\ last = used /\ last' = used' /\ \A r \in 1..used : r # NoRun
  BY Registry, RunnerAssumption DEF Base, TypeInv, TypeOK, TextInv, LineInv, NoRun
<1> SUFFICES ASSUME NEW i \in 1..Len(writes'), writes'[i].cont = "hold" PROVE HoldLast(writes[i])'
  BY DEF HoldsLast
<1>3. ASSUME NEW j \in 1..Len(writes), writes'[i] = writes[j]
      PROVE  /\ HoldLast(writes[j]) /\ last \in 1..used
             /\ Waits(last) => cur = last \/ Overtakes
             /\ run[last].pc = "interrupt" => cur = last \/ Overtakes
  <2>1. HoldLast(writes[j]) /\ writes[j].by \in 1..used
    BY <1>1, <1>3, HoldFirst DEF HoldsLast
  <2>2. last \in 1..used
    BY <1>2, <2>1
  <2> QED  BY <2>1, <2>2 DEF BeforeInv, Before, Waits
<1>4. CASE Flow
  <2>1. HoldersStay /\ QueueGoes
    BY <1>4 DEF Flow
  <2>2. CASE i > Len(writes) /\ QueueAdds /\ Mild(writes'[i])
    <3> PICK w : w = writes'[i]
      OBVIOUS
    <3> PICK t : t = w.ev.text[1]
      OBVIOUS
    <3>1. w \in Write /\ ~run[w.by].quiet /\ HoldsNow(w.by, t) /\ msg[t].st = "wait"
      BY <2>2 DEF Mild
    <3>2. t \in Texts
      <4>1. writes' \in Seq(Write) /\ UserFits(writes[i])' /\ IsCall(writes[i])'
        BY <1>1 DEF TypeInv, TypeOK, TextInv, OnceInv, CallsOnce, IsCall
      <4>2. Len(w.ev.text) = 1 /\ w.ev.text \in Seq(Texts)
        BY <3>1, <4>1 DEF UserFits, Write, Event
      <4> QED  BY <4>2
    <3>3. msg[t].run = w.by /\ w.by \in 1..used
      BY <1>1, <3>1, <3>2 DEF HoldsNow, KnownInv, StartsKnown, Coming
    <3>4. cur = w.by /\ cur # NoRun
      BY <1>1, <3>1, <3>2, <3>3, HoldFacts
    <3>5. cur = last
      BY <3>4 DEF TextInv, LineInv
    <3>6. last' = last
      BY <1>1, <1>2, <3>4 DEF Onward, Registers
    <3> QED  BY <3>4, <3>5, <3>6 DEF HoldLast
  <2>3. ASSUME NEW j \in 1..Len(writes), writes'[i] = writes[j] PROVE HoldLast(writes[i])'
    <3> PICK w : w = writes[j]
      OBVIOUS
    <3>1. HoldLast(w) /\ writes'[i] = w /\ last \in 1..used
      BY <1>3, <2>3
    <3>2. CASE Registers
      <4>1. cur = NoRun /\ ~Overtakes /\ last' = last + 1
        BY <1>2, <3>2 DEF Registers, Accepts, Overtakes
      <4>2. w.by = last
        BY <1>2, <1>3, <2>3, <3>1, <4>1 DEF HoldLast
      <4>3. Waits(last)'
        <5> PICK n : n = used + 1
          OBVIOUS
        <5>1. ~Holder(n)'
          BY <1>2, <2>1 DEF HoldersStay, Holder
        <5>2. n = last' /\ n \in 1..used' /\ \A s \in 1..used' : ~(n < s)
          BY <1>2, <3>2 DEF Registers
        <5>3. Waits(n)'
          BY <5>1, <5>2 DEF Holder
        <5> QED  BY <5>2, <5>3 DEF Waits
      <4> QED  BY <1>2, <3>1, <4>1, <4>2, <4>3 DEF HoldLast
    <3>3. CASE cur' \in {cur, NoRun} /\ used' = used
      <4>1. last' = last
        BY <1>2, <3>3
      <4>2. Waits(last)' <=> Waits(last)
        <5> PICK l : l = last
          OBVIOUS
        <5>1. l \in 1..used /\ l \in 1..used' /\ \A s \in 1..used : ~(l < s)
          BY <1>2, <3>1, <3>3
        <5>2. (Holder(l)' <=> ~Waits(l)') /\ (Holder(l) <=> ~Waits(l))
          BY <3>3, <5>1 DEF Holder
        <5> QED  BY <2>1, <4>1, <5>2 DEF HoldersStay
      <4>3. CASE w.by = last
        BY <3>1, <4>1, <4>3 DEF HoldLast
      <4>4. CASE Waits(last) /\ w.by = last - 1
        BY <3>1, <4>1, <4>2, <4>4 DEF HoldLast
      <4>5. CASE ~Waits(last) /\ Overtakes
        <5>1. writes # <<>>
          BY <2>3
        <5>2. Overtakes'
          BY <1>1, <4>5, <5>1, OvertakesStay
        <5> QED  BY <3>1, <4>1, <4>2, <4>5, <5>2 DEF HoldLast
      <4>6. CASE ~Waits(last) /\ run[last].pc = "interrupt"
        <5> PICK l : l = last
          OBVIOUS
        <5>1. l \in 1..used /\ Holder(l)
          BY <1>2, <3>1, <4>6 DEF Holder
        <5>2. run'[l].pc = "interrupt" \/ InterruptDone(l)
          BY <1>1, <4>6, <5>1, InterruptLeft DEF CancelInv
        <5>3. CASE run'[l].pc = "interrupt"
          BY <3>1, <4>1, <4>2, <4>6, <5>3 DEF HoldLast
        <5>4. CASE InterruptDone(l)
          <6>1. Overtakes' \/ writes'[i].by = last
            BY <1>1, <3>1, <5>4, InterruptLeads
          <6> QED  BY <4>1, <4>2, <4>6, <6>1 DEF HoldLast
        <5> QED  BY <5>2, <5>3, <5>4
      <4> QED  BY <3>1, <4>3, <4>4, <4>5, <4>6 DEF HoldLast
    <3> QED  BY <1>1, <3>2, <3>3 DEF Onward
  <2> QED  BY <1>1, <2>1, <2>2, <2>3, WritesGo
<1>5. ASSUME NEW r \in 1..used, Reopen(r) PROVE HoldLast(writes[i])'
  <2>1. /\ r = last /\ used' = used /\ last' = last /\ ~Waits(r)'
        /\ run'[r].pc = "interrupt" \/ Overtakes'
    BY <1>1, <1>5, ReopenLeads
  <2>2. Waits(r)
    BY <1>5 DEF Reopen, Waits
  <2>3. PICK j \in 1..Len(writes) : writes'[i] = writes[j]
    <3>1. writes \in Seq(Write) /\ (writes' = writes \/ writes' = Append(writes, WThen(Plain("interrupted"), r, "reopen")))
      BY <1>1, <1>5 DEF Reopen, TypeInv, TypeOK
    <3>2. CASE writes' = writes
      BY <3>2
    <3>3. CASE writes' = Append(writes, WThen(Plain("interrupted"), r, "reopen"))
      <4>1. i \in 1..Len(writes) \/ writes'[i] = WThen(Plain("interrupted"), r, "reopen")
        BY <3>1, <3>3
      <4>2. writes'[i] # WThen(Plain("interrupted"), r, "reopen")
        BY DEF WThen
      <4>3. i \in 1..Len(writes) => writes'[i] = writes[i]
        BY <3>1, <3>3
      <4> QED  BY <4>1, <4>2, <4>3
    <3> QED  BY <3>1, <3>2, <3>3
  <2> QED  BY <1>3, <2>1, <2>2, <2>3 DEF HoldLast
<1> QED  BY <1>1, <1>4, <1>5, NextFlows

\* The starts that wait, and what is still to be written of the run before.
LEMMA NextStarts ==
  ASSUME Base, Base', TextInv, TextInv', CancelInv, CancelInv', LogInv, LogInv', StartsInv, [Next]_vars
  PROVE  StartsInv'
<1>1. ~faulted' => ~faulted
  BY NextOnward DEF Onward, Base
<1> QED  BY <1>1, BeforeOn, HoldsOn DEF StartsInv

-----------------------------------------------------------------------------
(* The texts that are on their way. *)

\* The agent got the text, a prompt took it to a closed connection, a cancel took it back, it came
\* late, or the last run that went on has it.
Settles(t) == t \in cancelled \/ got[t] > 0 \/ t \in missed
InHand(t) ==
  \/ Settles(t) \/ msg[t].late
  \/ \E r \in 1..used : Holder(r) /\ t \in ToSet(run[r].unsent)

Owed(t) == msg[t].st \in {"done", "call"}
Called(t) == \E i \in 1..Len(writes) : writes[i].cont = "call" /\ writes[i].ev.text[1] = t
Opened == stored \/ \E r \in 1..used : run[r].created

\* A chat with no answer keeps its texts in the log, and a run that makes a session has them all.
LogsIt(t) == ~answers.answered => t \in ToSet(answers.unanswered)
CreateHas(t) ==
  \A r \in 1..used : Holder(r) /\ run[r].pc = "create" => t \in ToSet(run[r].unsent) \/ msg[t].late
WrittenFits(t) == msg[t].st = "done" => LogsIt(t) /\ CreateHas(t)
CallQueued(t) == msg[t].st = "call" => Called(t)

\* Before the first session of the chat, its first text is only in the log.
OnlyLogged(t) == msg[t].st = "done" /\ ~Opened /\ t \in ToSet(answers.unanswered)

TextKept(t) == Owed(t) => (InHand(t) \/ OnlyLogged(t)) /\ WrittenFits(t) /\ CallQueued(t)
InjectedGot == \A r \in 1..used : \A t \in run[r].injected : got[t] > 0
KeptInv == InjectedGot /\ \A t \in Texts : TextKept(t)

KeepInv == StartsInv /\ (~faulted => KeptInv)

(* What a step does to them. *)

Remains(t) == msg'[t].st = msg[t].st /\ msg'[t].late = msg[t].late
Arrives(t) == InHand(t)' /\ WrittenFits(t)' /\ CallQueued(t)'
TextsGo == \A t \in Texts : Owed(t)' => Arrives(t) \/ Remains(t)

LogGrows ==
  ~answers'.answered => ~answers.answered /\ ToSet(answers.unanswered) \subseteq ToSet(answers'.unanswered)

QueueKept == \A t \in Texts : Called(t) /\ msg'[t].st = "call" => Called(t)'

HandsKept == \A t \in Texts : Owed(t) /\ Remains(t) /\ InHand(t) => InHand(t)'
CreateKept == \A t \in Texts : msg[t].st = "done" /\ Remains(t) /\ CreateHas(t) => CreateHas(t)'
OpensKept == Opened' => Opened \/ \A t \in Texts : Owed(t) => InHand(t)'

Keeping == TextsGo /\ LogGrows /\ HandsKept /\ CreateKept /\ OpensKept /\ InjectedGot'

LEMMA KeepsOn ==
  ASSUME StoredInv', QueueKept, KeptInv, Keeping PROVE KeptInv'
<1> SUFFICES ASSUME NEW t \in Texts, Owed(t)' PROVE (InHand(t)' \/ OnlyLogged(t)') /\ WrittenFits(t)' /\ CallQueued(t)'
  BY DEF KeptInv, TextKept, Keeping
<1>1. CASE Arrives(t)
  BY <1>1 DEF Arrives
<1>2. CASE Remains(t)
  <2>1. Owed(t) /\ TextKept(t)
    BY <1>2 DEF Owed, Remains, KeptInv
  <2>2. (InHand(t) \/ OnlyLogged(t)) /\ WrittenFits(t) /\ CallQueued(t)
    BY <2>1 DEF TextKept
  <2>3. InHand(t)' \/ OnlyLogged(t)'
    <3>1. CASE InHand(t)
      BY <1>2, <2>1, <3>1 DEF Keeping, HandsKept
    <3>2. CASE OnlyLogged(t)
      <4>1. CASE Opened'
        BY <2>1, <3>2, <4>1 DEF Keeping, OpensKept, OnlyLogged
      <4>2. CASE ~Opened'
        <5>1. ~answers'.answered
          BY <4>2 DEF Opened, StoredInv
        <5>2. t \in ToSet(answers'.unanswered)
          BY <3>2, <5>1 DEF Keeping, LogGrows, OnlyLogged
        <5> QED  BY <1>2, <3>2, <4>2, <5>2 DEF OnlyLogged, Remains
      <4> QED  BY <4>1, <4>2
    <3> QED  BY <2>2, <3>1, <3>2
  <2>4. WrittenFits(t)'
    <3> SUFFICES ASSUME msg'[t].st = "done" PROVE LogsIt(t)' /\ CreateHas(t)'
      BY DEF WrittenFits
    <3>1. msg[t].st = "done" /\ LogsIt(t) /\ CreateHas(t)
      BY <1>2, <2>2 DEF WrittenFits, Remains
    <3>2. LogsIt(t)'
      BY <3>1 DEF LogsIt, Keeping, LogGrows
    <3> QED  BY <1>2, <3>1, <3>2 DEF Keeping, CreateKept
  <2>5. CallQueued(t)'
    BY <1>2, <2>2 DEF CallQueued, Remains, QueueKept
  <2> QED  BY <2>3, <2>4, <2>5
<1> QED  BY <1>1, <1>2 DEF Keeping, TextsGo

\* The write of a message stays in the queue until it is done.
LEMMA NextQueueKept ==
  ASSUME TypeInv, [Next]_vars, ~faulted' PROVE QueueKept
<1> SUFFICES ASSUME NEW t \in Texts, Called(t), msg'[t].st = "call" PROVE Called(t)'
  BY DEF QueueKept
<1>1. PICK i \in 1..Len(writes) : writes[i].cont = "call" /\ writes[i].ev.text[1] = t
  BY DEF Called
<1>2. CASE \E j \in 1..Len(writes') : writes'[j] = writes[i]
  BY <1>1, <1>2 DEF Called
<1>3. CASE i = 1 /\ WriteStep
  <2>1. Head(writes).cont = "call" /\ Head(writes).ev.text[1] = t
    BY <1>1, <1>3 DEF TypeInv, TypeOK
  <2>2. WriteDone
    BY <1>3, <2>1 DEF WriteStep, HoldWritten, InterruptDone, SessionStored, ResumedDone
  <2>3. msg' = [msg EXCEPT ![t].st = "done"]
    BY <2>1, <2>2 DEF WriteDone
  <2> QED  BY <2>3 DEF TypeInv, TypeOK, Message
<1> QED  BY <1>1, <1>2, <1>3, QueuedStays
-----------------------------------------------------------------------------
(* The steps that leave the session as it is. *)

\* What a run keeps of its texts.
Spared(x, y) ==
  /\ \A t \in ToSet(x.unsent) :
        Owed(t) => t \in ToSet(y.unsent) \/ Settles(t)'
  /\ \A t \in y.injected : t \in x.injected \/ got'[t] > 0
  /\ y.created => x.created
  /\ y.pc = "create" =>
       \/ x.pc = "create" /\ ToSet(x.unsent) \subseteq ToSet(y.unsent)
       \/ \A t \in Texts : msg[t].st = "done" => t \in ToSet(y.unsent)
RunsSpare ==
  /\ \A r \in 1..used : Spared(run[r], run'[r])
  /\ \A r \in 1..used' : r \in 1..used \/ (run'[r].injected = {} /\ ~run'[r].created)
Grown ==
  /\ \A t \in Texts : got[t] > 0 => got'[t] > 0
  /\ cancelled \subseteq cancelled' /\ missed \subseteq missed' /\ (stored' => Opened)

Regular == RunsSpare /\ Grown /\ LogGrows /\ TextsGo

LEMMA RegularKeeps ==
  ASSUME TypeInv, KeptInv, HoldersStay, Regular PROVE Keeping
<1>2. HandsKept
  <2> SUFFICES ASSUME NEW t \in Texts, Owed(t), Remains(t), InHand(t) PROVE InHand(t)'
    BY DEF HandsKept
  <2>1. CASE Settles(t) \/ msg[t].late
    BY <2>1 DEF InHand, Settles, Regular, Grown, Remains
  <2>2. ASSUME NEW r \in 1..used, Holder(r), t \in ToSet(run[r].unsent) PROVE InHand(t)'
    <3>1. Holder(r)' /\ r \in 1..used'
      BY <2>2 DEF HoldersStay
    <3>2. t \in ToSet(run'[r].unsent) \/ Settles(t)'
      BY <2>2 DEF Regular, RunsSpare, Spared
    <3> QED  BY <3>1, <3>2 DEF InHand
  <2> QED  BY <2>1, <2>2 DEF InHand
<1>3. CreateKept
  <2> SUFFICES ASSUME NEW t \in Texts, msg[t].st = "done", Remains(t), CreateHas(t),
                      NEW r \in 1..used', Holder(r)', run'[r].pc = "create"
               PROVE  t \in ToSet(run'[r].unsent) \/ msg'[t].late
    BY DEF CreateKept, CreateHas
  <2>1. Holder(r) /\ r \in 1..used
    BY DEF HoldersStay, Holder
  <2>2. Spared(run[r], run'[r])
    BY <2>1 DEF Regular, RunsSpare
  <2> QED  BY <2>1, <2>2 DEF Spared, CreateHas, Remains
<1>4. OpensKept
  BY DEF OpensKept, Opened, Regular, RunsSpare, Spared, Grown
<1>5. InjectedGot'
  <2> SUFFICES ASSUME NEW r \in 1..used', NEW t \in run'[r].injected PROVE got'[t] > 0
    BY DEF InjectedGot
  <2>1. r \in 1..used
    BY DEF Regular, RunsSpare
  <2>2. t \in run[r].injected \/ got'[t] > 0
    BY <2>1 DEF Regular, RunsSpare, Spared
  <2>3. t \in run[r].injected => t \in Texts /\ got[t] > 0
    BY <2>1, Registry DEF KeptInv, InjectedGot, TypeInv, RunRecord
  <2> QED  BY <2>2, <2>3 DEF Regular, Grown
<1> QED  BY <1>2, <1>3, <1>4, <1>5 DEF Keeping, Regular

-----------------------------------------------------------------------------
LEMMA SameSpared == ASSUME NEW x PROVE Spared(x, x)
  BY DEF Spared

LEMMA SparedKept ==
  ASSUME NEW x, NEW y, y.unsent = x.unsent, y.injected \subseteq x.injected, y.created => x.created,
         y.pc = "create" => x.pc = "create"
  PROVE  Spared(x, y)
  BY DEF Spared

LEMMA SparedOne ==
  ASSUME TypeInv, NEW r \in 1..used, NEW y, run' = [run EXCEPT ![r] = y], used' = used, Spared(run[r], y)
  PROVE  RunsSpare
<1>1. run \in [Runs -> RunRecord] /\ \A s \in 1..used : s \in Runs
  BY Registry DEF TypeInv, TypeOK
<1>2. ASSUME NEW s \in 1..used PROVE Spared(run[s], run'[s])
  <2>1. CASE s = r
    BY <1>1, <2>1
  <2>2. CASE s # r
    <3>1. run'[s] = run[s]
      BY <1>1, <2>2
    <3> QED  BY <3>1, SameSpared
  <2> QED  BY <2>1, <2>2
<1> QED  BY <1>2 DEF RunsSpare

LEMMA SparedRest == ASSUME run' = run, used' = used PROVE RunsSpare
  BY SameSpared DEF RunsSpare

LEMMA GlidesSpare == ASSUME used' = used, RunsGlide PROVE RunsSpare
<1>1. ASSUME NEW r \in 1..used PROVE Spared(run[r], run'[r])
  <2>1. Glides(run[r], run'[r])
    BY DEF RunsGlide
  <2> QED  BY <2>1 DEF Glides, PlaceGoes, Spared
<1> QED  BY <1>1 DEF RunsSpare

LEMMA GrownSame == ASSUME got' = got, missed' = missed, cancelled \subseteq cancelled', stored' = stored PROVE Grown
  BY DEF Grown, Opened

LEMMA LogSame == ASSUME answers' = answers PROVE LogGrows
  BY DEF LogGrows

LEMMA TextsRest == ASSUME \A t \in Texts : msg'[t] = msg[t] \/ ~Owed(t)' PROVE TextsGo
  BY DEF TextsGo, Remains, Owed

LEMMA GotByGrows ==
  ASSUME TypeInv, NEW batch \in Seq(Texts), NoDup(batch), got' = GotBy(batch)
  PROVE  /\ \A t \in Texts : got[t] > 0 => got'[t] > 0
         /\ \A t \in ToSet(batch) : t \in Texts /\ got'[t] > 0
<1>1. \A t \in ToSet(batch) : t \in Texts
  BY DEF ToSet
<1>2. ASSUME NEW t \in Texts PROVE got[t] \in Nat /\ got'[t] = got[t] + (IF t \in ToSet(batch) THEN 1 ELSE 0)
  BY GotByOnce
<1> QED  BY <1>1, <1>2

\* The texts of a prompt are got, or missed.
LEMMA PromptGrows ==
  ASSUME TypeInv, NEW x, NEW batch \in Seq(Texts), NoDup(batch),
         got' = PromptGot(x, batch), missed' = PromptMissed(x, batch)
  PROVE  /\ \A t \in Texts : got[t] > 0 => got'[t] > 0
         /\ missed \subseteq missed'
         /\ \A t \in ToSet(batch) : Settles(t)'
<1>1. CASE Connected(x)
  <2>1. got' = GotBy(batch) /\ missed' = missed
    BY <1>1 DEF PromptGot, PromptMissed
  <2> QED  BY <2>1, GotByGrows DEF Settles
<1>2. CASE ~Connected(x)
  BY <1>2 DEF PromptGot, PromptMissed, Settles
<1> QED  BY <1>1, <1>2

\* The steps that touch no text.
LEMMA CalmKeeps == ASSUME Calm PROVE Regular
<1>1. RunsSpare
  BY GlidesSpare DEF Calm, LineKept
<1>2. Grown /\ LogGrows
  BY GrownSame, LogSame DEF Calm, TextsKept
<1>3. TextsGo
  BY TextsRest DEF Calm, MsgCalm, MsgRests, Owed
<1> QED  BY <1>1, <1>2, <1>3 DEF Regular

\* A step of one run that changes nothing else.
LEMMA OneKeeps ==
  ASSUME TypeInv, NEW r \in 1..used, NEW y, run' = [run EXCEPT ![r] = y], used' = used, Spared(run[r], y),
         answers' = answers, Grown, \A t \in Texts : msg'[t] = msg[t] \/ ~Owed(t)'
  PROVE  Regular
  BY SparedOne, LogSame, TextsRest DEF Regular

LEMMA ExitKeeps ==
  ASSUME TypeInv, NEW r \in 1..used, ConnectionCut(r) \/ \E clean \in BOOLEAN : Exit(r, clean)
  PROVE  Regular
<1>1. run[r] \in RunRecord
  BY Registry DEF TypeInv
<1> DEFINE x == ConnectionLost(run[r])
<1>2. /\ x.unsent = run[r].unsent /\ x.created = run[r].created /\ x.injected = {}
      /\ x.pc = run[r].pc \/ x.pc = "over"
  BY <1>1 DEF ConnectionLost, RunRecord
<1>3. x \in RunRecord
  BY <1>1, ConnectionLostType
<1> HIDE DEF x
<1>4. \E y : run' = [run EXCEPT ![r] = y] /\ y.unsent = x.unsent /\ y.created = x.created /\ y.injected = x.injected /\ y.pc = x.pc
  <2>1. CASE ConnectionCut(r)
    <3> DEFINE y == [x EXCEPT !.proc = "cut"]
    <3>1. run' = [run EXCEPT ![r] = y]
      BY <2>1 DEF ConnectionCut, x
    <3>2. y.unsent = x.unsent /\ y.created = x.created /\ y.injected = x.injected /\ y.pc = x.pc
      BY <1>3 DEF RunRecord
    <3> HIDE DEF y
    <3> QED  BY <3>1, <3>2
  <2>2. CASE \E clean \in BOOLEAN : Exit(r, clean)
    <3> PICK clean \in BOOLEAN : Exit(r, clean)
      BY <2>2
    <3> DEFINE y == [x EXCEPT !.proc = "exited", !.clean = clean]
    <3>1. run' = [run EXCEPT ![r] = y]
      BY DEF Exit, x
    <3>2. y.unsent = x.unsent /\ y.created = x.created /\ y.injected = x.injected /\ y.pc = x.pc
      BY <1>3 DEF RunRecord
    <3> HIDE DEF y
    <3> QED  BY <3>1, <3>2
  <2> QED  BY <2>1, <2>2
<1>5. PICK y : /\ run' = [run EXCEPT ![r] = y] /\ y.unsent = x.unsent /\ y.created = x.created
               /\ y.injected = x.injected /\ y.pc = x.pc
  BY <1>4
<1>6. Spared(run[r], y)
  BY <1>2, <1>5, SparedKept
<1>7. /\ used' = used /\ answers' = answers /\ msg' = msg /\ got' = got /\ missed' = missed /\ stored' = stored /\ cancelled' = cancelled
  BY DEF ConnectionCut, Exit, chat, table
<1> QED  BY <1>5, <1>6, <1>7, OneKeeps, GrownSame

LEMMA SpawnKeeps ==
  ASSUME TypeInv, NEW r \in 1..used, Spawn(r) PROVE Regular
<1>1. r \in Runs /\ run[r] \in RunRecord /\ run \in [Runs -> RunRecord]
  BY Registry DEF TypeInv, TypeOK
<1> DEFINE y == [run[r] EXCEPT !.pc = "init", !.proc = "alive", !.idle = "on"]
<1>2. run' = [run EXCEPT ![r] = y]
  BY <1>1 DEF Spawn
<1>3. y.unsent = run[r].unsent /\ y.created = run[r].created /\ y.injected = run[r].injected /\ y.pc = "init"
  BY <1>1 DEF RunRecord
<1> HIDE DEF y
<1>4. Spared(run[r], y)
  BY <1>3, SparedKept
<1>5. /\ used' = used /\ answers' = answers /\ msg' = msg /\ got' = got /\ missed' = missed /\ stored' = stored /\ cancelled' = cancelled
  BY DEF Spawn, chat, table, history
<1> QED  BY <1>2, <1>4, <1>5, OneKeeps, GrownSame

LEMMA RegisterKeeps ==
  ASSUME TypeInv, NEW x \in RunRecord, Blank(x), Register(x),
         answers' = answers, stored' = stored, got' = got, missed' = missed, cancelled' = cancelled,
         \A t \in Texts : msg'[t] = msg[t] \/ ~Owed(t)'
  PROVE  Regular
<1> PICK n : n = used + 1
  OBVIOUS
<1> PICK y : y = Registered(x)
  OBVIOUS
<1>1. used \in Nat /\ used' = n /\ n \in Runs /\ run \in [Runs -> RunRecord] /\ run' = [run EXCEPT ![n] = y]
  BY RunnerAssumption DEF TypeInv, TypeOK, Register, Runs
<1>2. y.injected = {} /\ ~y.created
  BY DEF Registered, RunRecord, Blank
<1>3. run'[n] = y /\ (\A r \in 1..used : run'[r] = run[r]) /\ (\A r \in 1..n : r = n \/ r \in 1..used)
  BY <1>1
<1>4. RunsSpare
  BY <1>1, <1>2, <1>3, SameSpared DEF RunsSpare
<1> QED  BY <1>4, GrownSame, LogSame, TextsRest DEF Regular

LEMMA HeldCall ==
  ASSUME TypeInv, NEW t \in Texts, NEW r, NEW n, msg' = HoldCall(t, r, n)
  PROVE  \A u \in Texts : msg'[u] = msg[u] \/ ~Owed(u)'
<1>1. msg \in [Texts -> Message] /\ msg' = [msg EXCEPT ![t] = [msg[t] EXCEPT !.st = "wait", !.run = r, !.cancels = n]]
  BY DEF HoldCall, TypeInv, TypeOK
<1>2. msg'[t].st = "wait"
  BY <1>1 DEF Message
<1> QED  BY <1>1, <1>2 DEF Owed

LEMMA RestartKeeps ==
  ASSUME TypeInv, NEW t \in Texts, Restart(t) PROVE Regular
<1> PICK x : x = Hold(NewRun, t)
  OBVIOUS
<1>1. x \in RunRecord
  BY NewRunType, HoldType
<1>2. Blank(x)
  BY DEF Blank, Hold, NewRun
<1>3. Register(x) /\ answers' = answers /\ stored' = stored /\ got' = got /\ missed' = missed /\ cancelled' = cancelled
      /\ msg' = HoldCall(t, used + 1, 0)
  BY DEF Restart, chat, history
<1> QED  BY <1>1, <1>2, <1>3, RegisterKeeps, HeldCall

LEMMA PickRelaunchKeeps ==
  ASSUME TypeInv, PickRelaunches PROVE Regular
<1> DEFINE x == [NewRun EXCEPT !.byPick = TRUE, !.pickRelaunch = TRUE]
<1>1. x \in RunRecord
  BY NewRunType DEF RunRecord
<1>2. Blank(x)
  BY DEF Blank, NewRun
<1>3. Register(x) /\ answers' = answers /\ stored' = stored /\ got' = got /\ missed' = missed /\ cancelled' = cancelled /\ msg' = msg
  BY DEF PickRelaunches, chat, history
<1> QED  BY <1>1, <1>2, <1>3, RegisterKeeps

LEMMA JoinStartKeeps ==
  ASSUME TypeInv, NEW t \in Texts, JoinStart(t) PROVE Regular
<1> DEFINE x == run[cur]
           z == IF x.pickRelaunch
                THEN [x EXCEPT !.pickRelaunch = FALSE, !.reaches = FALSE, !.earlierPicks = pick.issued]
                ELSE x
           y == Hold(z, t)
<1>1. cur \in 1..used /\ x \in RunRecord
  BY Registry DEF JoinStart, TypeInv
<1>2. /\ used' = used /\ answers' = answers /\ cancelled' = cancelled /\ got' = got /\ missed' = missed /\ stored' = stored
      /\ run' = [run EXCEPT ![cur] = y] /\ msg' = HoldCall(t, cur, x.earlyCancels)
  BY DEF JoinStart, chat, table, history
<1>3. z.unsent = x.unsent /\ z.created = x.created /\ z.pc = x.pc /\ z.injected = x.injected /\ z \in RunRecord
  <2>1. pick.issued \in 0..MaxPicks
    BY DEF TypeInv, TypeOK, Pick
  <2>2. CASE x.pickRelaunch
    BY <1>1, <2>1, <2>2 DEF RunRecord
  <2>3. CASE ~x.pickRelaunch
    BY <1>1, <2>3
  <2> QED  BY <2>2, <2>3
<1> HIDE DEF z
<1>4. y.unsent = z.unsent /\ y.created = z.created /\ y.pc = z.pc /\ y.injected = z.injected
  BY <1>3 DEF Hold, RunRecord
<1> PICK c, u, n : c = cur /\ u = y /\ n = x.earlyCancels
  OBVIOUS
<1> HIDE DEF y
<1> HIDE DEF x
<1>5. Spared(run[c], u)
  <2>1. x = run[c]
    BY DEF x
  <2>2. u.unsent = x.unsent /\ u.created = x.created /\ u.pc = x.pc /\ u.injected = x.injected
    BY <1>3, <1>4
  <2>3. Spared(x, u)
    BY <2>2, SparedKept
  <2> QED  BY <2>1, <2>3
<1>6. c \in 1..used /\ run' = [run EXCEPT ![c] = u] /\ msg' = HoldCall(t, c, n)
  BY <1>1, <1>2 DEF x
<1> QED  BY <1>2, <1>5, <1>6, OneKeeps, GrownSame, HeldCall

LEMMA InjectKeeps ==
  ASSUME TypeInv, NEW r \in 1..used, NEW t \in Texts, AgentInjects(r, t) PROVE Regular
<1>1. r \in Runs /\ run[r] \in RunRecord /\ run \in [Runs -> RunRecord]
  BY Registry DEF TypeInv, TypeOK
<1> DEFINE y == [run[r] EXCEPT !.injected = run[r].injected \union {t}]
<1>2. run' = [run EXCEPT ![r] = y] /\ got' = GotBy(<<t>>)
  BY <1>1 DEF AgentInjects
<1>3. /\ y.unsent = run[r].unsent /\ y.created = run[r].created /\ y.pc = run[r].pc
      /\ y.injected = run[r].injected \union {t}
  BY <1>1 DEF RunRecord
<1> HIDE DEF y
<1>4. (\A u \in Texts : got[u] > 0 => got'[u] > 0) /\ got'[t] > 0
  <2>1. <<t>> \in Seq(Texts) /\ NoDup(<<t>>) /\ t \in ToSet(<<t>>)
    BY DEF NoDup, ToSet
  <2> QED  BY <1>2, <2>1, GotByGrows
<1>5. Spared(run[r], y)
  BY <1>3, <1>4 DEF Spared
<1>6. /\ used' = used /\ answers' = answers /\ msg' = msg /\ stored' = stored /\ cancelled' = cancelled
      /\ missed' = missed
  BY DEF AgentInjects, chat, table
<1>7. Grown
  BY <1>4, <1>6 DEF Grown, Opened
<1> QED  BY <1>2, <1>5, <1>6, <1>7, OneKeeps

LEMMA SteerKeeps ==
  ASSUME TypeInv, FormInv, KeptInv, UnsentOnce, NEW r \in 1..used, NEW t \in Texts, SteerAnswered(r, t) PROVE Regular
<1>1. r \in Runs /\ run[r] \in RunRecord /\ run \in [Runs -> RunRecord]
  BY Registry DEF TypeInv, TypeOK
<1> DEFINE v == IF t \in run[r].injected THEN Without(run[r].unsent, t) ELSE run[r].unsent
           y == [run[r] EXCEPT !.steering = run[r].steering \ {t}, !.injected = run[r].injected \ {t}, !.unsent = v]
<1>2. run' = [run EXCEPT ![r] = y]
  BY <1>1 DEF SteerAnswered
<1>3. y.unsent = v /\ y.created = run[r].created /\ y.pc = run[r].pc /\ y.injected = run[r].injected \ {t}
  BY <1>1 DEF RunRecord
<1>4. got' = got /\ missed' = missed /\ used' = used /\ answers' = answers /\ msg' = msg /\ stored' = stored /\ cancelled' = cancelled
  BY DEF SteerAnswered, chat, table, history
<1>5. t \in run[r].injected => got'[t] > 0
  BY <1>4 DEF KeptInv, InjectedGot
<1>6. run[r].unsent \in Seq(Texts) /\ NoDup(run[r].unsent)
  BY <1>1 DEF RunRecord, UnsentOnce
<1>7. \A u \in ToSet(run[r].unsent) : u \in ToSet(v) \/ got'[u] > 0
  BY <1>5, <1>6, WithoutOnce
<1>8. run[r].pc # "create"
  BY DEF SteerAnswered, FormInv, Form, Talking
<1> HIDE DEF v, y
<1>9. Spared(run[r], y)
  BY <1>3, <1>7, <1>8 DEF Spared, Settles
<1> QED  BY <1>2, <1>4, <1>9, OneKeeps, GrownSame

-----------------------------------------------------------------------------
LEMMA HoldWriteKeeps ==
  ASSUME TypeInv, NEW r \in 1..used, NEW t \in Texts, HoldWrite(r, t) PROVE Regular
<1>1. /\ used' = used /\ run' = run /\ answers' = answers /\ cancelled' = cancelled /\ got' = got /\ missed' = missed
      /\ stored' = stored /\ msg' = [msg EXCEPT ![t].st = "write"]
  BY DEF HoldWrite, chat, table, history
<1>2. msg'[t].st = "write" /\ \A u \in Texts \ {t} : msg'[u] = msg[u]
  BY <1>1 DEF TypeInv, TypeOK, Message
<1>3. \A u \in Texts : msg'[u] = msg[u] \/ ~Owed(u)'
  BY <1>2 DEF Owed
<1>4. RunsSpare /\ Grown /\ LogGrows /\ TextsGo
  BY <1>1, <1>3, SparedRest, GrownSame, LogSame, TextsRest
<1> QED  BY <1>4 DEF Regular

\* A message to a turn is owed from its call on.
LEMMA CallArrives ==
  ASSUME TypeInv, NEW t \in Texts, NEW r \in 1..used, writes' = Append(writes, WThen(UserEvent(t), r, "call")),
         msg' = [msg EXCEPT ![t].st = "call"], InHand(t)'
  PROVE  TextsGo
<1> PICK w : w = WThen(UserEvent(t), r, "call")
  OBVIOUS
<1>1. w.cont = "call" /\ w.ev.text[1] = t
  <2>1. UserEvent(t).text = <<t>> /\ <<t>>[1] = t
    BY DEF UserEvent, Plain
  <2> QED  BY <2>1 DEF WThen
<1>2. writes \in Seq(Write) /\ r \in 0..MaxRuns
  BY Registry DEF TypeInv, TypeOK
<1>3. w \in Write
  BY <1>1, <1>2, EventType, WriteType DEF WThen, Conts
<1>4. Len(writes) + 1 \in 1..Len(writes') /\ writes'[Len(writes) + 1] = w
  BY <1>2, <1>3
<1>5. Called(t)'
  BY <1>1, <1>4 DEF Called
<1>6. msg'[t].st = "call" /\ \A u \in Texts \ {t} : msg'[u] = msg[u]
  BY DEF TypeInv, TypeOK, Message
<1>7. Arrives(t)
  BY <1>5, <1>6 DEF Arrives, WrittenFits, CallQueued
<1>8. \A u \in Texts \ {t} : Remains(u)
  BY <1>6 DEF Remains
<1> QED  BY <1>7, <1>8 DEF TextsGo

LEMMA TurnHolder ==
  ASSUME Base, TextInv, cur # NoRun, ~run[cur].pickRelaunch, run[cur].turning => run[cur].reaches
  PROVE  Holder(cur) /\ cur \in 1..used /\ run[cur].pc \in Talking \union {"idle"}
<1>1. TypeInv /\ LineInv /\ cur \in 1..used
  BY Registry DEF Base, TextInv, TypeInv, NoRun
<1>2. run[cur].pc \in Talking \union {"idle"}
  BY <1>1 DEF TextInv, FormInv, Form, Talking, Base, PlaceInv, TurnsFit, TurnFits
<1> QED  BY <1>1, <1>2, CurIsHolder DEF Talking, Waits

LEMMA JoinTurnKeeps ==
  ASSUME Base, TextInv, HoldersStay, NEW t \in Texts, JoinTurn(t) PROVE Regular
<1> DEFINE v == run[cur]
           steers == IF ~v.cancelAsked /\ Connected(v) THEN v.steering \union {t} ELSE v.steering
           taken == Append(v.unsent, t)
           z == [v EXCEPT !.unsent = taken, !.job = FALSE, !.own = FALSE, !.steering = steers]
<1>1. TypeInv /\ cur \in 1..used /\ v \in RunRecord
  BY Registry DEF TypeInv, Base, JoinTurn
<1>2. /\ run' = [run EXCEPT ![cur] = Touch(z)]
      /\ writes' = Append(writes, WThen(UserEvent(t), cur, "call")) /\ msg' = [msg EXCEPT ![t].st = "call"]
      /\ answers' = answers /\ used' = used /\ cancelled' = cancelled /\ got' = got /\ missed' = missed /\ stored' = stored
  BY DEF JoinTurn, chat, table, history
<1>3. Holder(cur) /\ v.pc \in Talking \union {"idle"}
  BY TurnHolder DEF JoinTurn
<1>4. taken \in Seq(Texts) /\ ToSet(taken) = ToSet(v.unsent) \union {t}
  BY <1>1, AppendOnce DEF RunRecord
<1>5. steers \in SUBSET Texts
  BY <1>1 DEF RunRecord
<1> HIDE DEF taken, steers
<1>6. z \in RunRecord
  BY <1>1, <1>4, <1>5 DEF RunRecord
<1>7. z.unsent = taken /\ z.created = v.created /\ z.pc = v.pc /\ z.injected = v.injected
  BY <1>1 DEF RunRecord
<1> HIDE DEF z
<1> PICK y : y = Touch(z)
  OBVIOUS
<1>8. Steady(z, y)
  BY <1>6, TouchSteady
<1>9. y.unsent = taken /\ y.created = v.created /\ y.pc = v.pc /\ y.injected = v.injected
  BY <1>7, <1>8 DEF Steady
<1>10. Spared(v, y)
  BY <1>3, <1>4, <1>9 DEF Spared, Talking
<1> PICK c : c = cur
  OBVIOUS
<1>11. v = run[c] /\ c \in 1..used /\ run' = [run EXCEPT ![c] = y] /\ run'[c] = y /\ Holder(c)
  BY <1>1, <1>2, <1>3, Registry DEF TypeInv, TypeOK
<1> HIDE DEF v
<1>12. RunsSpare
  BY <1>1, <1>2, <1>10, <1>11, SparedOne
<1>13. InHand(t)'
  <2>1. Holder(c)' /\ c \in 1..used'
    BY <1>2, <1>11 DEF HoldersStay
  <2> QED  BY <1>4, <1>9, <1>11, <2>1 DEF InHand
<1>14. TextsGo
  <2>1. writes' = Append(writes, WThen(UserEvent(t), c, "call"))
    BY <1>2
  <2>2. cur = c
    OBVIOUS
  <2> QED  BY <1>1, <1>2, <1>11, <1>13, <2>1, CallArrives
<1>15. Grown /\ LogGrows
  BY <1>2, GrownSame, LogSame
<1> QED  BY <1>12, <1>14, <1>15 DEF Regular

LEMMA StartTurnKeeps ==
  ASSUME Base, TextInv, NEW t \in Texts, StartTurn(t) PROVE Regular
<1> DEFINE v == run[cur]
           z == [v EXCEPT !.turning = TRUE, !.job = FALSE, !.own = FALSE, !.ownStopped = FALSE]
           w == Touch(StaleAll(z))
           taken == Append(v.unsent, t)
<1>1. TypeInv /\ cur \in 1..used /\ v \in RunRecord
  BY Registry DEF TypeInv, Base, StartTurn
<1>2. /\ run' = [run EXCEPT ![cur] = RunTurn(w)]
      /\ writes' = Append(writes, WThen(UserEvent(t), cur, "call"))
      /\ Sent(t) /\ msg' = [msg EXCEPT ![t].st = "call"]
      /\ got' = PromptGot(v, taken) /\ missed' = PromptMissed(v, taken)
      /\ answers' = answers /\ used' = used /\ cancelled' = cancelled /\ stored' = stored
  BY DEF StartTurn, chat, table
<1>3. z \in RunRecord /\ Carries(v, z) /\ z.unsent = v.unsent
  BY <1>1 DEF RunRecord, Carries, Connected, Dead
<1> HIDE DEF z
<1>4. w \in RunRecord /\ Carries(z, w)
  <2>1. StaleAll(z) \in RunRecord /\ Steady(z, StaleAll(z))
    BY <1>3, StaleType, StaleSteady
  <2>2. w \in RunRecord /\ Steady(StaleAll(z), w)
    BY <2>1, TouchType, TouchSteady
  <2>3. Steady(z, w)
    BY <2>1, <2>2, SteadyOn
  <2> QED  BY <2>2, <2>3, SteadyCarries
<1> HIDE DEF w
<1> PICK y : y = RunTurn(w)
  OBVIOUS
<1>5. Carries(w, y) /\ y.pc \in {"prompt", "over"}
  BY <1>4, RunTurnFields
<1>6. y.injected = v.injected /\ y.created = v.created
  BY <1>3, <1>4, <1>5 DEF Carries
<1>7. /\ taken \in Seq(Texts) /\ NoDup(taken) /\ ToSet(taken) = ToSet(v.unsent) \union {t}
  <2>1. v.unsent \in Seq(Texts) /\ NoDup(v.unsent)
    BY <1>1 DEF RunRecord, TextInv, OnceInv, UnsentOnce
  <2>2. t \notin ToSet(v.unsent)
    BY <1>1, <1>2 DEF TextInv, FreshInv, Fresh, Has, Sent
  <2> QED  BY <2>1, <2>2, AppendOnce
<1> HIDE DEF taken
<1>8. /\ \A u \in Texts : got[u] > 0 => got'[u] > 0
      /\ missed \subseteq missed' /\ \A u \in ToSet(taken) : Settles(u)'
  BY <1>1, <1>2, <1>7, PromptGrows
<1>9. Spared(v, y)
  BY <1>5, <1>6, <1>7, <1>8 DEF Spared
<1> PICK c : c = cur
  OBVIOUS
<1>10. v = run[c] /\ c \in 1..used /\ run' = [run EXCEPT ![c] = y]
  BY <1>1, <1>2
<1> HIDE DEF v
<1>11. RunsSpare
  BY <1>1, <1>2, <1>9, <1>10, SparedOne
<1>12. InHand(t)'
  BY <1>7, <1>8 DEF InHand
<1>13. TextsGo
  <2>1. writes' = Append(writes, WThen(UserEvent(t), c, "call"))
    BY <1>2
  <2> QED  BY <1>1, <1>2, <1>10, <1>12, <2>1, CallArrives
<1>14. Grown /\ LogGrows
  BY <1>2, <1>8, LogSame DEF Grown, Opened
<1> QED  BY <1>11, <1>13, <1>14 DEF Regular

-----------------------------------------------------------------------------
\* What a cancel takes from its run is cancelled.
LEMMA CancelledKeeps ==
  ASSUME TypeInv, cur \in 1..used, NEW x \in RunRecord,
         x.pc = run[cur].pc, x.created = run[cur].created, x.injected = run[cur].injected,
         \/ x.unsent = run[cur].unsent
         \/ ToSet(run[cur].unsent) \subseteq cancelled' /\ run[cur].pc # "create",
         run' = [run EXCEPT ![cur] = x] \/ run' = [run EXCEPT ![cur] = CancelOpen(x)],
         used' = used, answers' = answers, msg' = msg, got' = got, missed' = missed, stored' = stored, cancelled \subseteq cancelled'
  PROVE  Regular
<1> PICK c : c = cur
  OBVIOUS
<1>1. \E y : /\ run' = [run EXCEPT ![c] = y] /\ y.unsent = x.unsent /\ y.pc = x.pc
             /\ y.created = x.created /\ y.injected = x.injected
  BY CancelOpenFields
<1>2. PICK y : /\ run' = [run EXCEPT ![c] = y] /\ y.unsent = x.unsent /\ y.pc = x.pc
               /\ y.created = x.created /\ y.injected = x.injected
  BY <1>1
<1>3. PICK v : v = run[c]
  OBVIOUS
<1>4. Spared(v, y)
  BY <1>2, <1>3 DEF Spared, Settles
<1>5. c \in 1..used /\ Spared(run[c], y)
  BY <1>3, <1>4
<1> QED  BY <1>2, <1>5, OneKeeps, GrownSame

LEMMA CancelTurnKeeps ==
  ASSUME Base, TextInv, CancelTurn \/ EndCancels PROVE Regular
<1>1. cur \in 1..used /\ run[cur] \in RunRecord /\ TypeInv
  BY Registry DEF CancelTurn, EndCancels, TypeInv, Base
<1>2. /\ used' = used /\ answers' = answers /\ msg' = msg /\ got' = got /\ missed' = missed /\ stored' = stored
      /\ cancelled' = cancelled \union ToSet(run[cur].unsent)
  BY DEF CancelTurn, EndCancels, chat, table
<1>3. run[cur].pc # "create"
  BY <1>1 DEF CancelTurn, EndCancels, TextInv, FormInv, Form, Opening, BeforeSession
<1> DEFINE x == [run[cur] EXCEPT !.cancelAsked = TRUE, !.unsent = <<>>]
<1>4. /\ x \in RunRecord /\ x.pc = run[cur].pc /\ x.created = run[cur].created /\ x.injected = run[cur].injected
  <2>0. <<>> \in Seq(Texts)
    OBVIOUS
  <2>1. x \in RunRecord
    BY <1>1, <2>0 DEF RunRecord
  <2>2. x.pc = run[cur].pc /\ x.created = run[cur].created /\ x.injected = run[cur].injected
    BY <1>1 DEF RunRecord
  <2> QED  BY <2>1, <2>2
<1>5. run' = [run EXCEPT ![cur] = x] \/ run' = [run EXCEPT ![cur] = CancelOpen(x)]
  BY DEF CancelTurn, EndCancels
<1> HIDE DEF x
<1> PICK z : z = x
  OBVIOUS
<1>6. /\ z \in RunRecord /\ z.pc = run[cur].pc /\ z.created = run[cur].created /\ z.injected = run[cur].injected
      /\ run' = [run EXCEPT ![cur] = z] \/ run' = [run EXCEPT ![cur] = CancelOpen(z)]
  BY <1>4, <1>5
<1>7. ToSet(run[cur].unsent) \subseteq cancelled' /\ cancelled \subseteq cancelled'
  BY <1>2
<1> QED  BY <1>1, <1>2, <1>3, <1>6, <1>7, CancelledKeeps

LEMMA CancelEarlyKeeps ==
  ASSUME Base, TextInv, AnewInv, CancelEarly PROVE Regular
<1>1. cur # NoRun /\ cur \in 1..used /\ run[cur] \in RunRecord /\ TypeInv /\ run[cur].earlyCancels \in Nat
  BY Registry, EarlyNat DEF CancelEarly, TypeInv, Base
<1>2. /\ used' = used /\ answers' = answers /\ msg' = msg /\ got' = got /\ missed' = missed /\ stored' = stored
      /\ cancelled' = IF answers.answered
                      THEN cancelled \union ToSet(run[cur].unsent) \union Joining(cur)
                      ELSE cancelled
  BY DEF CancelEarly, chat, table
<1> DEFINE x == [run[cur] EXCEPT !.cancelledEarly = TRUE, !.earlyCancels = @ + 1,
                                 !.unsent = IF answers.answered THEN <<>> ELSE @]
           u == IF answers.answered THEN <<>> ELSE run[cur].unsent
           n == run[cur].earlyCancels + 1
<1>3. u \in Seq(Texts) /\ n \in Nat
  <2>1. <<>> \in Seq(Texts)
    OBVIOUS
  <2>2. run[cur].unsent \in Seq(Texts)
    BY <1>1 DEF RunRecord
  <2> QED  BY <1>1, <2>1, <2>2
<1>4. x = [run[cur] EXCEPT !.cancelledEarly = TRUE, !.earlyCancels = n, !.unsent = u]
  BY <1>1 DEF RunRecord
<1>5. run' = [run EXCEPT ![cur] = CancelOpen(x)]
  BY DEF CancelEarly
<1>6. u = run[cur].unsent \/ (answers.answered /\ ToSet(run[cur].unsent) \subseteq cancelled')
  BY <1>2
<1> HIDE DEF x, u, n
<1>7. x \in RunRecord /\ x.unsent = u /\ x.pc = run[cur].pc /\ x.created = run[cur].created
      /\ x.injected = run[cur].injected
  <2>1. x \in RunRecord
    BY <1>1, <1>3, <1>4 DEF RunRecord
  <2>2. x.unsent = u /\ x.pc = run[cur].pc
    BY <1>1, <1>4 DEF RunRecord
  <2>3. x.created = run[cur].created /\ x.injected = run[cur].injected
    BY <1>1, <1>4 DEF RunRecord
  <2> QED  BY <2>1, <2>2, <2>3
<1>8. answers.answered => run[cur].pc # "create"
  <2> SUFFICES ASSUME answers.answered, run[cur].pc = "create" PROVE FALSE
    OBVIOUS
  <2>1. Holder(cur)
    BY <1>1, CurIsHolder DEF TextInv, Waits
  <2> QED  BY <1>1, <2>1 DEF AnewInv, AnewFits, Anew
<1>9. /\ x.unsent = run[cur].unsent
         \/ (ToSet(run[cur].unsent) \subseteq cancelled' /\ run[cur].pc # "create")
      /\ cancelled \subseteq cancelled'
  BY <1>2, <1>6, <1>7, <1>8
<1> PICK z : z = x
  OBVIOUS
<1>10. /\ z \in RunRecord /\ z.pc = run[cur].pc /\ z.created = run[cur].created /\ z.injected = run[cur].injected
       /\ run' = [run EXCEPT ![cur] = CancelOpen(z)]
       /\ z.unsent = run[cur].unsent
          \/ (ToSet(run[cur].unsent) \subseteq cancelled' /\ run[cur].pc # "create")
  BY <1>5, <1>7, <1>9
<1> QED  BY <1>1, <1>2, <1>9, <1>10, CancelledKeeps

LEMMA StoppedKeeps ==
  ASSUME TypeInv, NEW r \in 1..used,
         (HeldOver(r) /\ (run[r].quiet \/ stopping)) \/ (NextPrompt(r) /\ stopping)
  PROVE  Regular
<1> DEFINE x == run[r]
<1>1. x \in RunRecord
  BY Registry DEF TypeInv
<1>2. /\ used' = used /\ answers' = answers /\ msg' = msg /\ stored' = stored
      /\ cancelled' = cancelled /\ got' = got /\ missed' = missed
  BY DEF HeldOver, NextPrompt, chat, table
<1>3. \E y : /\ run' = [run EXCEPT ![r] = y] /\ y.pc = "over" /\ y.unsent = x.unsent
             /\ y.injected = x.injected /\ y.created = x.created
  <2>1. CASE HeldOver(r) /\ (run[r].quiet \/ stopping)
    <3> DEFINE y == [x EXCEPT !.pc = "over"]
    <3>1. run' = [run EXCEPT ![r] = y]
      BY <1>1, <2>1 DEF HeldOver
    <3>2. y.pc = "over" /\ y.unsent = x.unsent /\ y.injected = x.injected /\ y.created = x.created
      BY <1>1 DEF RunRecord
    <3> HIDE DEF y
    <3> QED  BY <3>1, <3>2
  <2>2. CASE NextPrompt(r) /\ stopping
    <3> DEFINE y == [x EXCEPT !.pc = "over", !.endCheck = FALSE]
    <3>1. run' = [run EXCEPT ![r] = y]
      BY <1>1, <2>2 DEF NextPrompt
    <3>2. y.pc = "over" /\ y.unsent = x.unsent /\ y.injected = x.injected /\ y.created = x.created
      BY <1>1 DEF RunRecord
    <3> HIDE DEF y
    <3> QED  BY <3>1, <3>2
  <2> QED  BY <2>1, <2>2
<1>4. PICK y : /\ run' = [run EXCEPT ![r] = y] /\ y.pc = "over" /\ y.unsent = x.unsent
               /\ y.injected = x.injected /\ y.created = x.created
  BY <1>3
<1>5. Spared(run[r], y)
  BY <1>4 DEF Spared
<1> QED  BY <1>2, <1>4, <1>5, OneKeeps, GrownSame

LEMMA NextPromptKeeps ==
  ASSUME Base, TextInv, NEW r \in 1..used, NextPrompt(r) PROVE Regular
<1>0. TypeInv
  BY DEF Base
<1>1. CASE stopping
  BY <1>0, <1>1, StoppedKeeps
<1>2. CASE ~stopping
  <2> DEFINE x == [run[r] EXCEPT !.endCheck = FALSE]
             batch == run[r].unsent
  <2>1. /\ run' = [run EXCEPT ![r] = RunTurn(x)]
        /\ got' = PromptGot(run[r], batch) /\ missed' = PromptMissed(run[r], batch)
        /\ used' = used /\ answers' = answers /\ msg' = msg /\ stored' = stored /\ cancelled' = cancelled
    BY <1>2 DEF NextPrompt, chat, table
  <2>2. run[r] \in RunRecord
    BY <1>0, Registry DEF TypeInv
  <2>3. x \in RunRecord /\ x.injected = run[r].injected /\ x.created = run[r].created
    BY <2>2 DEF RunRecord
  <2> HIDE DEF x
  <2> PICK y : y = RunTurn(x)
    OBVIOUS
  <2>4. y.pc \in {"prompt", "over"} /\ Carries(x, y)
    BY <2>3, RunTurnFields
  <2>5. batch \in Seq(Texts) /\ NoDup(batch)
    BY <2>2 DEF RunRecord, TextInv, OnceInv, UnsentOnce
  <2>6. /\ \A u \in Texts : got[u] > 0 => got'[u] > 0
        /\ missed \subseteq missed' /\ \A u \in ToSet(batch) : Settles(u)'
    <3> HIDE DEF batch
    <3> QED  BY <1>0, <2>1, <2>5, PromptGrows
  <2>7. Spared(run[r], y)
    BY <2>3, <2>4, <2>6 DEF Spared, Carries
  <2>8. Grown
    BY <2>1, <2>6 DEF Grown, Opened
  <2>9. run' = [run EXCEPT ![r] = y]
    BY <2>1
  <2> QED  BY <1>0, <2>1, <2>7, <2>8, <2>9, OneKeeps
<1> QED  BY <1>1, <1>2

-----------------------------------------------------------------------------
\* While a new session starts, no message waits for its write, and all are in the log.
LEMMA SilentOwes ==
  ASSUME TypeInv, KeptInv, SilentInv, NEW r \in 1..used, Holder(r), Silent(run[r]), NEW t \in Texts, Owed(t)
  PROVE  msg[t].st = "done" /\ LogsIt(t) /\ CreateHas(t)
<1>1. TextKept(t) /\ Still(r)
  BY DEF KeptInv, SilentInv
<1>2. ~Called(t)
  BY <1>1 DEF Called, Still, StillFrom
<1>3. msg[t].st = "done"
  BY <1>1, <1>2 DEF TextKept, CallQueued, Owed
<1> QED  BY <1>1, <1>3 DEF TextKept, WrittenFits

\* The first turn of a run gives its texts to the agent, unless a cancel takes them back.
LEMMA FirstTurnSpares ==
  ASSUME TypeInv, NEW r \in 1..used, NEW x \in RunRecord, NoDup(x.unsent), NEW y, y = FirstTurn(x),
         got' = FirstTurnGot(x), missed' = FirstTurnMissed(x), cancelled' = FirstTurnCancelled(x)
  PROVE  /\ y.injected = x.injected /\ y.created = x.created /\ y.pc \in {"prompt", "idle", "over"}
         /\ \A t \in ToSet(x.unsent) : t \in ToSet(y.unsent) \/ Settles(t)'
         /\ \A t \in Texts : got[t] > 0 => got'[t] > 0
         /\ cancelled \subseteq cancelled' /\ missed \subseteq missed'
<1>1. CASE x.cancelledEarly
  <2>1. y.injected = x.injected /\ y.created = x.created /\ y.pc \in {"idle", "over"}
    BY <1>1, CancelledTurnFields
  <2>2. y.unsent = x.unsent \/ (answers.answered /\ y.unsent = <<>>)
    <3> DEFINE v == [x EXCEPT !.reaches = TRUE]
               u == IF answers.answered THEN <<>> ELSE x.unsent
               z == [v EXCEPT !.unsent = u, !.turnCancelled = TRUE]
    <3>1. u \in Seq(Texts)
      <4>1. <<>> \in Seq(Texts)
        OBVIOUS
      <4> QED  BY <4>1 DEF RunRecord
    <3>2. v \in RunRecord /\ v.unsent = x.unsent
      BY DEF RunRecord
    <3>3. y = EndTurn([v EXCEPT !.unsent = IF answers.answered THEN <<>> ELSE @, !.turnCancelled = TRUE])
      BY <1>1 DEF FirstTurn
    <3>4. [v EXCEPT !.unsent = IF answers.answered THEN <<>> ELSE @, !.turnCancelled = TRUE] = z
      BY <3>2
    <3>5. u = x.unsent \/ (answers.answered /\ u = <<>>)
      OBVIOUS
    <3> HIDE DEF v, u
    <3>6. z \in RunRecord /\ z.unsent = u
      BY <3>1, <3>2 DEF RunRecord
    <3> HIDE DEF z
    <3>7. EndTurn(z).unsent = z.unsent
      BY <3>6, EndTurnFields
    <3> QED  BY <3>3, <3>4, <3>5, <3>6, <3>7
  <2>3. got' = got /\ missed' = missed /\ (answers.answered => cancelled' = cancelled \union ToSet(x.unsent))
        /\ cancelled \subseteq cancelled'
    BY <1>1 DEF FirstTurnGot, FirstTurnMissed, FirstTurnCancelled
  <2> QED  BY <2>1, <2>2, <2>3 DEF Settles
<1>2. CASE ~x.cancelledEarly
  <2> DEFINE z == [x EXCEPT !.reaches = TRUE]
  <2>1. z \in RunRecord /\ y = RunTurn(z) /\ z.injected = x.injected /\ z.created = x.created
    BY <1>2 DEF FirstTurn, RunRecord
  <2> HIDE DEF z
  <2>2. y.pc \in {"prompt", "over"} /\ Carries(z, y)
    BY <2>1, RunTurnFields
  <2>3. y.injected = x.injected /\ y.created = x.created
    BY <2>1, <2>2 DEF Carries
  <2>4. /\ x.unsent \in Seq(Texts) /\ cancelled' = cancelled
        /\ got' = PromptGot(x, x.unsent) /\ missed' = PromptMissed(x, x.unsent)
    BY <1>2 DEF RunRecord, FirstTurnGot, FirstTurnMissed, FirstTurnCancelled
  <2>5. /\ \A u \in Texts : got[u] > 0 => got'[u] > 0
        /\ missed \subseteq missed' /\ \A u \in ToSet(x.unsent) : Settles(u)'
    BY <2>4, PromptGrows
  <2> QED  BY <2>2, <2>3, <2>4, <2>5
<1> QED  BY <1>1, <1>2

LEMMA FirstTurnKeeps ==
  ASSUME Base, TextInv, KeptInv, SilentInv, AnewInv, NEW r \in 1..used,
         ~run[r].quiet, run[r].pc \in {"options", "held"},
         NEW x \in RunRecord, x.injected = run[r].injected, x.created = run[r].created,
         \/ x.unsent = run[r].unsent
         \/ x.unsent = answers.unanswered /\ run[r].created /\ run[r].pc = "held",
         run' = [run EXCEPT ![r] = FirstTurn(x)],
         got' = FirstTurnGot(x), missed' = FirstTurnMissed(x), cancelled' = FirstTurnCancelled(x),
         answers' = answers, stored' = stored, used' = used, msg' = msg
  PROVE  Regular
<1>1. TypeInv /\ Holder(r) /\ run[r] \in RunRecord
  BY TurnHolds, Registry DEF Base, TypeInv
<1>2. NoDup(x.unsent)
  BY DEF TextInv, OnceInv, UnsentOnce, CallsOnce
<1> PICK y : y = FirstTurn(x)
  OBVIOUS
<1>3. /\ y.injected = x.injected /\ y.created = x.created /\ y.pc \in {"prompt", "idle", "over"}
      /\ \A t \in ToSet(x.unsent) : t \in ToSet(y.unsent) \/ Settles(t)'
      /\ \A t \in Texts : got[t] > 0 => got'[t] > 0
      /\ cancelled \subseteq cancelled' /\ missed \subseteq missed'
  BY <1>1, <1>2, FirstTurnSpares
<1>4. \A t \in ToSet(run[r].unsent) : Owed(t) => t \in ToSet(x.unsent)
  <2> SUFFICES ASSUME NEW t \in ToSet(run[r].unsent), Owed(t), x.unsent # run[r].unsent
               PROVE  t \in ToSet(x.unsent)
    OBVIOUS
  <2>1. x.unsent = answers.unanswered /\ Anew(run[r])
    BY DEF Anew
  <2>2. ~answers.answered
    BY <1>1, <2>1 DEF AnewInv, AnewFits
  <2>3. t \in Texts
    BY <1>1 DEF RunRecord, ToSet
  <2>4. LogsIt(t)
    BY <1>1, <2>1, <2>3, SilentOwes DEF Silent
  <2> QED  BY <2>1, <2>2, <2>4 DEF LogsIt
<1>5. Spared(run[r], y)
  BY <1>3, <1>4 DEF Spared
<1>6. Grown
  BY <1>3 DEF Grown, Opened
<1> QED  BY <1>1, <1>5, <1>6, OneKeeps

LEMMA OptionsOverKeeps ==
  ASSUME Base, TextInv, KeptInv, SilentInv, AnewInv, NEW r \in 1..used, OptionsDone(r) PROVE Regular
<1>1. TypeInv /\ run[r] \in RunRecord /\ run[r].pc = "options" /\ ~run[r].quiet
  BY Registry DEF TypeInv, Base, OptionsDone
<1>2. CASE run[r].held # <<>>
  <2>1. Calm
    BY <1>1, <1>2, OptionsHeldCalm
  <2> QED  BY <2>1, CalmKeeps
<1>3. CASE run[r].held = <<>>
  <2> DEFINE x == [run[r] EXCEPT !.session = TRUE]
  <2>1. /\ x \in RunRecord /\ x.unsent = run[r].unsent /\ x.held = run[r].held
        /\ x.injected = run[r].injected /\ x.created = run[r].created
    BY <1>1 DEF RunRecord
  <2>2. /\ run' = [run EXCEPT ![r] = FirstTurn(x)] /\ got' = FirstTurnGot(x)
        /\ missed' = FirstTurnMissed(x) /\ cancelled' = FirstTurnCancelled(x)
        /\ answers' = answers /\ stored' = stored /\ used' = used /\ msg' = msg
    BY <1>3, <2>1 DEF OptionsDone, chat, table
  <2> HIDE DEF x
  <2> PICK y : y = x
    OBVIOUS
  <2>3. /\ y \in RunRecord /\ y.unsent = run[r].unsent
        /\ y.injected = run[r].injected /\ y.created = run[r].created
        /\ run' = [run EXCEPT ![r] = FirstTurn(y)] /\ got' = FirstTurnGot(y)
        /\ missed' = FirstTurnMissed(y) /\ cancelled' = FirstTurnCancelled(y)
    BY <2>1, <2>2
  <2> QED  BY <1>1, <2>2, <2>3, FirstTurnKeeps
<1> QED  BY <1>2, <1>3

LEMMA HeldOverKeeps ==
  ASSUME Base, TextInv, KeptInv, SilentInv, AnewInv, NEW r \in 1..used, HeldOver(r) PROVE Regular
<1>1. TypeInv /\ run[r] \in RunRecord /\ run[r].pc = "held"
  BY Registry DEF TypeInv, Base, HeldOver
<1>2. CASE run[r].quiet \/ stopping
  BY <1>1, <1>2, StoppedKeeps
<1>3. CASE ~(run[r].quiet \/ stopping)
  <2> DEFINE u == IF run[r].created THEN answers.unanswered ELSE run[r].unsent
             x == [run[r] EXCEPT !.unsent = u]
  <2>1. u \in Seq(Texts)
    BY <1>1 DEF RunRecord, TypeInv, TypeOK, Answers
  <2>2. u = run[r].unsent \/ (u = answers.unanswered /\ run[r].created /\ run[r].pc = "held")
    BY <1>1
  <2>3. /\ run' = [run EXCEPT ![r] = FirstTurn(x)] /\ got' = FirstTurnGot(x)
        /\ missed' = FirstTurnMissed(x) /\ cancelled' = FirstTurnCancelled(x)
        /\ answers' = answers /\ stored' = stored /\ used' = used /\ msg' = msg
    BY <1>3 DEF HeldOver, chat, table
  <2> HIDE DEF u
  <2>4. x \in RunRecord /\ x.unsent = u /\ x.injected = run[r].injected /\ x.created = run[r].created
    BY <1>1, <2>1 DEF RunRecord
  <2> HIDE DEF x
  <2> PICK y : y = x
    OBVIOUS
  <2>5. /\ y \in RunRecord /\ y.injected = run[r].injected /\ y.created = run[r].created
        /\ run' = [run EXCEPT ![r] = FirstTurn(y)] /\ got' = FirstTurnGot(y)
        /\ missed' = FirstTurnMissed(y) /\ cancelled' = FirstTurnCancelled(y)
    BY <2>3, <2>4
  <2>6. \/ y.unsent = run[r].unsent
        \/ y.unsent = answers.unanswered /\ run[r].created /\ run[r].pc = "held"
    BY <2>2, <2>4
  <2> QED  BY <1>1, <1>3, <2>3, <2>5, <2>6, FirstTurnKeeps
<1> QED  BY <1>2, <1>3

\* A new session gets every text of the chat.
LEMMA InitializedKeeps ==
  ASSUME TypeInv, TextInv, KeptInv, SilentInv, HoldersStay, NEW r \in 1..used, Initialized(r), Holder(r)
  PROVE Regular
<1> DEFINE x == run[r]
<1>1. x \in RunRecord /\ x.pc = "init"
  BY Registry DEF TypeInv, Initialized
<1>2. /\ used' = used /\ answers' = answers /\ msg' = msg /\ got' = got /\ missed' = missed /\ stored' = stored
      /\ cancelled' = cancelled
  BY DEF Initialized, chat, table, history
<1>3. \E y : /\ run' = [run EXCEPT ![r] = y] /\ y.injected = x.injected /\ y.created = x.created
             /\ \/ y.pc \in {"over", "open"} /\ y.unsent = x.unsent
                \/ y.pc = "create" /\ ~stored /\ y.unsent = answers.unanswered
  <2>1. CASE x.quiet
    <3> DEFINE y == [x EXCEPT !.pc = "over"]
    <3>1. run' = [run EXCEPT ![r] = y]
      BY <2>1 DEF Initialized
    <3>2. y.pc = "over" /\ y.unsent = x.unsent /\ y.injected = x.injected /\ y.created = x.created
      BY <1>1 DEF RunRecord
    <3> HIDE DEF y
    <3> QED  BY <3>1, <3>2
  <2>2. CASE ~x.quiet /\ stored
    <3> DEFINE y == [x EXCEPT !.pc = "open"]
    <3>1. run' = [run EXCEPT ![r] = y]
      BY <2>2 DEF Initialized, OpenSession
    <3>2. y.pc = "open" /\ y.unsent = x.unsent /\ y.injected = x.injected /\ y.created = x.created
      BY <1>1 DEF RunRecord
    <3> HIDE DEF y
    <3> QED  BY <3>1, <3>2
  <2>3. CASE ~x.quiet /\ ~stored
    <3> DEFINE y == [x EXCEPT !.pc = "create", !.unsent = answers.unanswered]
    <3>1. run' = [run EXCEPT ![r] = y]
      BY <2>3 DEF Initialized, OpenSession
    <3>2. y.pc = "create" /\ y.injected = x.injected /\ y.created = x.created /\ y.unsent = answers.unanswered
      BY <1>1 DEF RunRecord
    <3> HIDE DEF y
    <3> QED  BY <2>3, <3>1, <3>2
  <2> QED  BY <2>1, <2>2, <2>3
<1>4. PICK y : /\ run' = [run EXCEPT ![r] = y] /\ y.injected = x.injected /\ y.created = x.created
               /\ \/ y.pc \in {"over", "open"} /\ y.unsent = x.unsent
                  \/ y.pc = "create" /\ ~stored /\ y.unsent = answers.unanswered
  BY <1>3
<1>5. ASSUME ~stored, NEW t \in Texts, Owed(t) PROVE t \in ToSet(answers.unanswered)
  <2>1. ~answers.answered
    BY <1>5 DEF TextInv, StoredInv
  <2>2. LogsIt(t)
    BY <1>1, <1>5, SilentOwes DEF Silent, Silences
  <2> QED  BY <2>1, <2>2 DEF LogsIt
<1>6. ToSet(x.unsent) \subseteq Texts
  BY <1>1 DEF RunRecord, ToSet
<1>7. Spared(run[r], y)
  <2>1. CASE y.pc \in {"over", "open"} /\ y.unsent = x.unsent
    BY <1>4, <2>1 DEF Spared
  <2>2. CASE y.pc = "create" /\ ~stored /\ y.unsent = answers.unanswered
    BY <1>4, <1>5, <1>6, <2>2 DEF Spared, Owed
  <2> QED  BY <1>4, <2>1, <2>2
<1> QED  BY <1>2, <1>4, <1>7, OneKeeps, GrownSame

-----------------------------------------------------------------------------
(* The ends of the writes. *)

LEMMA HeadInLog ==
  ASSUME TypeInv, TextInv, writes # <<>>, Logged(Head(writes).ev), IsCall(Head(writes))
  PROVE  /\ HeadText \in Texts /\ answers'.answered = answers.answered
         /\ ToSet(answers'.unanswered) = ToSet(answers.unanswered) \union {HeadText}
<1>1. CallsOnce /\ answers.unanswered \in Seq(Texts)
  BY DEF TextInv, OnceInv, TypeInv, TypeOK, Answers
<1>2. answers'.unanswered = Append(answers.unanswered, HeadText) /\ answers'.answered = answers.answered
  BY <1>1, LoggedAnswers
<1>3. HeadText \in Texts
  BY <1>1, HeadFits
<1>4. ToSet(answers'.unanswered) = ToSet(answers.unanswered) \union {HeadText}
  BY <1>1, <1>2, <1>3, AppendOnce
<1> QED  BY <1>2, <1>3, <1>4

LEMMA TailLogs ==
  ASSUME TypeInv, TextInv, writes # <<>>, Logged(Head(writes).ev)
  PROVE  LogGrows
<1>1. CASE IsCall(Head(writes))
  BY <1>1, HeadInLog DEF LogGrows
<1>2. CASE ~IsCall(Head(writes))
  <2>1. CallsOnce
    BY DEF TextInv, OnceInv
  <2>2. ~answers'.answered => answers' = answers
    BY <1>2, <2>1, LoggedAnswers
  <2> QED  BY <2>2 DEF LogGrows
<1> QED  BY <1>1, <1>2

LEMMA InterruptGlides ==
  ASSUME TypeInv, NEW r \in 1..used, InterruptDone(r) PROVE RunsGlide
<1>1. r \in Runs /\ run[r] \in RunRecord /\ run \in [Runs -> RunRecord] /\ run[r].pc = "interrupt"
  BY Registry DEF TypeInv, TypeOK, InterruptDone
<1>2. CASE stopping \/ run[r].quiet
  <2>1. run' = [run EXCEPT ![r] = Overtaken(run[r])]
    BY <1>2 DEF InterruptDone
  <2>2. Glides(run[r], Overtaken(run[r]))
    BY <1>1, OvertakenGlides
  <2> QED  BY <2>1, <2>2, GlideOne
<1>3. CASE ~(stopping \/ run[r].quiet)
  <2> PICK p : p = IF run[r].byPick THEN "launch" ELSE "hold"
    OBVIOUS
  <2> DEFINE y == [run[r] EXCEPT !.reopened = "ok", !.pc = p]
  <2>1. run' = [run EXCEPT ![r] = y]
    BY <1>1, <1>3 DEF InterruptDone
  <2>2. p \in Places /\ PlaceLeads(run[r], p) /\ p # "reopen"
    BY <1>1 DEF PlaceLeads, Places
  <2>3. Glides(run[r], y)
    BY <1>1, <2>2, RoundGlides
  <2> HIDE DEF y
  <2> QED  BY <2>1, <2>3, GlideOne
<1> QED  BY <1>2, <1>3

LEMMA ResumedGlides ==
  ASSUME TypeInv, NEW r \in 1..used, ResumedDone(r) PROVE RunsGlide
<1>1. run[r] \in RunRecord /\ run[r].pc = "resumed" /\ AfterResumed(r)
  BY Registry DEF TypeInv, ResumedDone
<1>2. CASE run[r].pickRelaunch
  <2>1. run' = [run EXCEPT ![r] = PickRelaunchOver(run[r])]
    BY <1>1, <1>2 DEF AfterResumed
  <2>2. Glides(run[r], PickRelaunchOver(run[r]))
    BY <1>1, <1>2, PickOverGlides
  <2> QED  BY <2>1, <2>2, GlideOne
<1>3. CASE ~run[r].pickRelaunch
  <2>1. run' = [run EXCEPT ![r] = [run[r] EXCEPT !.pc = "held"]]
    BY <1>1, <1>3 DEF AfterResumed
  <2>2. Glides(run[r], [run[r] EXCEPT !.pc = "held"])
    BY <1>1, <1>3, PlaceGlides DEF PlaceLeads, Places
  <2> QED  BY <2>1, <2>2, GlideOne
<1> QED  BY <1>2, <1>3

LEMMA StepDoneKeeps ==
  ASSUME TypeInv, TextInv, NEW r \in 1..used, InterruptDone(r) \/ ResumedDone(r) PROVE Regular
<1>1. RunsGlide
  BY InterruptGlides, ResumedGlides
<1>2. /\ used' = used /\ got' = got /\ missed' = missed /\ cancelled' = cancelled /\ stored' = stored /\ msg' = msg
      /\ writes # <<>> /\ Logged(Head(writes).ev)
  BY DEF InterruptDone, ResumedDone, table, history
<1> QED  BY <1>1, <1>2, GlidesSpare, GrownSame, TailLogs, TextsRest DEF Regular

LEMMA SessionStoredKeeps ==
  ASSUME TypeInv, TextInv, NEW r \in 1..used, SessionStored(r) PROVE Regular
<1> DEFINE y == [run[r] EXCEPT !.pc = "options"]
<1>1. /\ used' = used /\ got' = got /\ missed' = missed /\ cancelled' = cancelled /\ msg' = msg /\ run[r].pc = "store"
      /\ writes # <<>> /\ Logged(Head(writes).ev) /\ run' = [run EXCEPT ![r] = y]
  BY DEF SessionStored, table, history
<1>2. run[r] \in RunRecord
  BY Registry DEF TypeInv
<1>3. y.pc = "options" /\ y.unsent = run[r].unsent /\ y.created = run[r].created /\ y.injected = run[r].injected
  BY <1>2 DEF RunRecord
<1> HIDE DEF y
<1>4. Spared(run[r], y)
  BY <1>3 DEF Spared
<1>5. RunsSpare
  BY <1>1, <1>4, SparedOne
<1>6. Opened
  BY <1>1 DEF Opened, TextInv, StoredInv, Unstored
<1>7. Grown
  BY <1>1, <1>6 DEF Grown
<1> QED  BY <1>1, <1>5, <1>7, TailLogs, TextsRest DEF Regular

\* The write of a message to a turn is done.
LEMMA WriteDoneKeeps ==
  ASSUME TypeInv, TextInv, KeptInv, SilentInv, HoldersStay, WriteDone PROVE Regular
<1>1. /\ used' = used /\ cancelled' = cancelled /\ got' = got /\ missed' = missed /\ stored' = stored
      /\ writes # <<>> /\ Logged(Head(writes).ev)
      /\ run' = (IF Head(writes).cont = "kill" THEN [run EXCEPT ![Head(writes).by] = EndProcess(@)] ELSE run)
      /\ msg' = (IF Head(writes).cont = "call" THEN [msg EXCEPT ![HeadText].st = "done"] ELSE msg)
  BY DEF WriteDone, HeadText, table, history
<1>2. RunsGlide
  <2>1. CASE Head(writes).cont = "kill"
    <3> PICK r : r = Head(writes).by
      OBVIOUS
    <3>1. run' = [run EXCEPT ![r] = EndProcess(run[r])]
      BY <1>1, <2>1
    <3>2. r \in 1..used => Glides(run[r], EndProcess(run[r]))
      BY Registry, EndProcessSteady, SteadyGlides DEF TypeInv
    <3> QED  BY <3>1, <3>2, GlideOne
  <2>2. CASE Head(writes).cont # "kill"
    BY <1>1, <2>2, GlideNone
  <2> QED  BY <2>1, <2>2
<1>3. RunsSpare /\ Grown /\ LogGrows
  BY <1>1, <1>2, GlidesSpare, GrownSame, TailLogs
<1>4. CASE Head(writes).cont # "call"
  <2>1. msg' = msg
    BY <1>1, <1>4
  <2> QED  BY <1>3, <2>1, TextsRest DEF Regular
<1>5. CASE Head(writes).cont = "call"
  <2> PICK t : t = HeadText
    OBVIOUS
  <2>1. /\ IsCall(Head(writes)) /\ UserFits(Head(writes)) /\ t \in Texts /\ Head(writes) = writes[1]
        /\ 1 \in 1..Len(writes)
    BY <1>1, <1>5, HeadFits DEF TextInv, OnceInv, IsCall
  <2>2. msg[t].st = "call" /\ run' = run /\ msg' = [msg EXCEPT ![t].st = "done"]
    BY <1>1, <1>5, <2>1 DEF UserFits, HeadText
  <2>3. msg'[t].st = "done" /\ msg'[t].late = msg[t].late /\ \A u \in Texts \ {t} : msg'[u] = msg[u]
    BY <2>1, <2>2 DEF TypeInv, TypeOK, Message
  <2>4. InHand(t)
    BY <2>1, <2>2 DEF KeptInv, TextKept, Owed, OnlyLogged
  <2>5. InHand(t)'
    <3>1. CASE Settles(t) \/ msg[t].late
      BY <1>1, <2>3, <3>1 DEF InHand, Settles
    <3>2. ASSUME NEW r \in 1..used, Holder(r), t \in ToSet(run[r].unsent) PROVE InHand(t)'
      <4>1. Holder(r)' /\ r \in 1..used'
        BY <3>2 DEF HoldersStay
      <4> QED  BY <2>2, <3>2, <4>1 DEF InHand
    <3> QED  BY <2>4, <3>1, <3>2 DEF InHand
  <2>6. LogsIt(t)'
    BY <1>1, <2>1, HeadInLog DEF LogsIt
  <2>7. CreateHas(t)'
    <3> SUFFICES ASSUME NEW r \in 1..used', Holder(r)', run'[r].pc = "create" PROVE FALSE
      BY DEF CreateHas
    <3>1. r \in 1..used /\ Holder(r) /\ run[r].pc = "create"
      BY <1>1, <2>2 DEF HoldersStay
    <3>2. Still(r)
      BY <3>1 DEF SilentInv, Silent, Silences
    <3> QED  BY <1>5, <2>1, <3>2 DEF Still, StillFrom
  <2>8. Arrives(t)
    BY <2>3, <2>5, <2>6, <2>7 DEF Arrives, WrittenFits, CallQueued
  <2>9. \A u \in Texts \ {t} : Remains(u)
    BY <2>3 DEF Remains
  <2> QED  BY <1>3, <2>8, <2>9 DEF Regular, TextsGo
<1> QED  BY <1>4, <1>5

\* The text of a message that joined a start goes to the run, and comes late otherwise.
LEMMA HoldWrittenKeeps ==
  ASSUME TypeInv, TextInv, KnownInv, AnewInv, KeptInv, HoldsLast, HoldersStay, HoldWritten PROVE Regular
<1> PICK r, t : r = Head(writes).by /\ t = HeadText
  OBVIOUS
<1> PICK u : u = IF Keeps(r, t) THEN Append(run[r].unsent, t) ELSE run[r].unsent
  OBVIOUS
<1> PICK p : p = IF run[r].pc = "hold" THEN "launch" ELSE run[r].pc
  OBVIOUS
<1>1. /\ used' = used /\ stored' = stored /\ got' = got /\ missed' = missed
      /\ writes # <<>> /\ Logged(Head(writes).ev) /\ Head(writes).cont = "hold"
      /\ cancelled' = (IF Keeps(r, t) THEN cancelled ELSE cancelled \union {t})
      /\ msg' = [msg EXCEPT ![t].st = "done", ![t].late = r # last /\ run[last].pc # "reopen"]
  BY DEF HoldWritten, HeadText, table
<1>2. IsCall(Head(writes))
  BY <1>1 DEF IsCall
<1>3. t \in Texts /\ r \in 1..used /\ Head(writes) = writes[1] /\ 1 \in 1..Len(writes)
  <2>1. CallsOnce
    BY DEF TextInv, OnceInv
  <2>2. UserFits(Head(writes)) /\ HeadText \in Texts /\ Head(writes) = writes[1] /\ 1 \in 1..Len(writes)
    BY <1>1, <1>2, <2>1, HeadFits
  <2> QED  BY <1>1, <1>2, <2>2 DEF UserFits
<1>4. ~Waits(r) /\ HoldLast(writes[1])
  <2>1. HoldKnown(writes[1])
    BY <1>1, <1>3 DEF KnownInv, HoldsKnown
  <2>2. HoldLast(writes[1])
    BY <1>1, <1>3 DEF HoldsLast
  <2> QED  BY <1>3, <2>1, <2>2 DEF HoldKnown
<1>5. r \in Runs /\ run[r] \in RunRecord /\ run \in [Runs -> RunRecord] /\ run[r].unsent \in Seq(Texts)
      /\ last = used /\ used \in Nat
  <2>1. r \in Runs /\ run[r] \in RunRecord
    BY <1>3, Registry DEF TypeInv
  <2>2. used \in Nat /\ last = used
    BY RunnerAssumption DEF TypeInv, TypeOK, TextInv, LineInv
  <2> QED  BY <2>1, <2>2 DEF TypeInv, TypeOK, RunRecord
<1>6. msg'[t].st = "done" /\ msg'[t].late = (r # last /\ run[last].pc # "reopen")
      /\ \A v \in Texts \ {t} : msg'[v] = msg[v]
  <2> PICK b : b = (r # last /\ run[last].pc # "reopen")
    OBVIOUS
  <2>1. msg' = [msg EXCEPT ![t].st = "done", ![t].late = b]
    BY <1>1
  <2>2. msg \in [Texts -> Message]
    BY DEF TypeInv, TypeOK
  <2>3. msg'[t] = [msg[t] EXCEPT !.st = "done", !.late = b]
    BY <1>3, <2>1, <2>2
  <2>4. msg'[t].st = "done" /\ msg'[t].late = b
    BY <1>3, <2>2, <2>3 DEF Message
  <2>5. \A v \in Texts \ {t} : msg'[v] = msg[v]
    BY <1>3, <2>1, <2>2
  <2> QED  BY <2>4, <2>5
<1>7. Holder(r) \/ msg'[t].late
  <2>1. CASE r = last
    BY <1>3, <1>4, <1>5, <2>1 DEF Holder
  <2>2. CASE r # last /\ Waits(last)
    <3>1. r = last - 1
      BY <1>3, <1>4, <2>2 DEF HoldLast
    <3>2. \A s \in 1..used : r < s => s = last
      BY <1>5, <3>1
    <3> QED  BY <1>3, <1>4, <2>2, <3>2 DEF Holder
  <2>3. CASE r # last /\ ~Waits(last)
    BY <1>6, <2>3 DEF Waits
  <2> QED  BY <2>1, <2>2, <2>3
<1> DEFINE x == run[r]
           y == [[x EXCEPT !.unsent = u] EXCEPT !.pc = p]
<1>8. y.pc = p /\ y.unsent = u /\ y.created = x.created /\ y.injected = x.injected
  BY <1>5 DEF RunRecord
<1>9. p = x.pc \/ (x.pc = "hold" /\ p = "launch")
  OBVIOUS
<1>10. run' = [run EXCEPT ![r] = y]
  BY <1>1, <1>5 DEF HoldWritten, HeadText
<1>11. u \in {x.unsent, Append(x.unsent, t)} /\ (Keeps(r, t) => u = Append(x.unsent, t)) /\ x = run[r]
  OBVIOUS
<1> HIDE DEF x, y
<1>12. ToSet(x.unsent) \subseteq ToSet(u) /\ (Keeps(r, t) => t \in ToSet(u))
  <2>1. x.unsent \in Seq(Texts)
    BY <1>5, <1>11
  <2> QED  BY <1>3, <1>11, <2>1, AppendOnce
<1>13. Spared(x, y)
  BY <1>8, <1>9, <1>12 DEF Spared
<1>14. run'[r] = y /\ \A s \in 1..used : run'[s].pc = "create" => run[s].pc = "create"
  <2>1. \A s \in 1..used : s \in Runs
    BY Registry DEF TypeInv
  <2>2. run'[r] = y /\ \A s \in 1..used : s # r => run'[s] = run[s]
    BY <1>5, <1>10, <2>1
  <2> QED  BY <1>8, <1>9, <1>11, <2>2
<1>15. RunsSpare
  BY <1>1, <1>3, <1>10, <1>11, <1>13, SparedOne
<1>16. Grown /\ LogGrows
  BY <1>1, GrownSame, TailLogs
<1>17. t \in cancelled' \/ (Keeps(r, t) /\ t \in ToSet(run'[r].unsent))
  BY <1>1, <1>8, <1>12, <1>14
<1>18. InHand(t)'
  <2>1. CASE Holder(r)
    <3>1. Holder(r)' /\ r \in 1..used'
      BY <1>1, <1>3, <2>1 DEF HoldersStay
    <3> QED  BY <1>17, <3>1 DEF InHand, Settles
  <2>2. CASE ~Holder(r)
    BY <1>7, <2>2 DEF InHand
  <2> QED  BY <2>1, <2>2
<1>19. LogsIt(t)'
  BY <1>1, <1>2, HeadInLog DEF LogsIt
<1>20. CreateHas(t)'
  <2> SUFFICES ASSUME NEW s \in 1..used', Holder(s)', run'[s].pc = "create", ~msg'[t].late
               PROVE  t \in ToSet(run'[s].unsent)
    BY DEF CreateHas
  <2>1. s \in 1..used /\ Holder(s) /\ run[s].pc = "create"
    BY <1>1, <1>14 DEF HoldersStay
  <2>2. s = r
    BY <1>7, <2>1, HolderOne
  <2>3. ~answers.answered
    BY <2>1 DEF AnewInv, AnewFits, Anew
  <2>4. Keeps(r, t)
    BY <2>3 DEF Keeps
  <2> QED  BY <1>8, <1>12, <1>14, <2>2, <2>4
<1>21. Arrives(t)
  BY <1>6, <1>18, <1>19, <1>20 DEF Arrives, WrittenFits, CallQueued
<1>22. \A v \in Texts \ {t} : Remains(v)
  BY <1>6 DEF Remains
<1> QED  BY <1>15, <1>16, <1>21, <1>22 DEF Regular, TextsGo

-----------------------------------------------------------------------------
(* Steps that begin the history anew, and the step that goes on after a wait. *)

\* A run that got nothing and has every text of the log may begin the history anew.
LEMMA AnewKeeps ==
  ASSUME Base, TextInv, KeptInv, SilentInv, HoldersStay, ~answers.answered,
         NEW r \in 1..used, Holder(r), Silent(run[r]), run[r].pc \in BeforeSession, NEW y,
         run' = [run EXCEPT ![r] = y], y.injected = run[r].injected,
         y.unsent = answers.unanswered \/ (y.pc # "create" /\ run[r].pc = "create" /\ y.unsent = run[r].unsent),
         used' = used, answers' = answers, msg' = msg
  PROVE  Keeping
<1>1. TypeInv /\ LineInv /\ FormInv /\ \A s \in 1..used : s \in Runs
  BY Registry DEF Base, TypeInv, TextInv
<1>2. run'[r] = y /\ \A s \in 1..used : s # r => run'[s] = run[s]
  BY <1>1 DEF TypeInv, TypeOK
<1>3. Holder(r)' /\ \A s \in 1..used : Holder(s)' => s = r
  BY <1>1, HolderOne DEF HoldersStay
<1>4. ASSUME NEW t \in Texts, Owed(t)
      PROVE  msg[t].st = "done" /\ (t \in ToSet(y.unsent) \/ msg[t].late)
  <2>1. msg[t].st = "done" /\ LogsIt(t) /\ CreateHas(t)
    BY <1>1, <1>4, SilentOwes
  <2> QED  BY <2>1 DEF LogsIt, CreateHas
<1>5. \A t \in Texts : Owed(t) => InHand(t)'
  BY <1>2, <1>3, <1>4 DEF InHand
<1>6. TextsGo /\ LogGrows
  BY LogSame, TextsRest
<1>7. HandsKept /\ OpensKept
  BY <1>5 DEF HandsKept, OpensKept
<1>8. CreateKept
  <2> SUFFICES ASSUME NEW t \in Texts, msg[t].st = "done", NEW s \in 1..used', Holder(s)',
                      ~msg'[t].late
               PROVE  t \in ToSet(run'[s].unsent)
    BY DEF CreateKept, CreateHas
  <2>1. s = r /\ Owed(t) /\ ~msg[t].late
    BY <1>3 DEF Owed
  <2> QED  BY <1>2, <1>4, <2>1
<1>9. InjectedGot'
  <2> SUFFICES ASSUME NEW s \in 1..used PROVE run'[s].injected = {}
    BY DEF InjectedGot
  <2>1. Form(run[s])
    BY <1>1 DEF FormInv
  <2>2. CASE s = r
    <3>1. run[r].steering = {}
      BY <2>1, <2>2 DEF Form, Talking, BeforeSession
    <3>2. run[r].injected = {}
      BY <2>1, <2>2, <3>1 DEF Form
    <3> QED  BY <1>2, <2>2, <3>2
  <2>3. CASE s # r
    <3>1. ~Holder(s)
      BY <1>1, <2>3, HolderOne
    <3>2. Dead(run[s])
      BY <1>1, <3>1, LiveHolds
    <3>3. run[s].steering = {}
      BY <2>1, <3>2 DEF Form, Connected, Dead
    <3>4. run[s].injected = {}
      BY <2>1, <3>3 DEF Form
    <3> QED  BY <1>2, <2>3, <3>4
  <2> QED  BY <2>2, <2>3
<1> QED  BY <1>6, <1>7, <1>8, <1>9 DEF Keeping

\* The agent has no session to resume, or made a new one.
LEMMA SessionLostKeeps ==
  ASSUME Base, TextInv, KeptInv, SilentInv, HoldersStay, NEW r \in 1..used, SessionLost(r) PROVE Keeping
<1>1. TypeInv /\ run[r] \in RunRecord /\ run \in [Runs -> RunRecord] /\ r \in Runs
  BY Registry DEF TypeInv, Base, TypeOK
<1>2. CASE answers.answered
  <2>1. Calm
    BY <1>1, <1>2, FailCalm
  <2>2. Regular
    BY <2>1, CalmKeeps
  <2> QED  BY <1>1, <2>2, RegularKeeps
<1>3. CASE ~answers.answered
  <2>1. Holder(r) /\ run[r].pc = "open"
    BY AtPlaceHolds DEF SessionLost
  <2>2. Silent(run[r]) /\ run[r].pc \in BeforeSession
    BY <2>1 DEF Silent, Silences, BeforeSession
  <2> PICK u : u = answers.unanswered
    OBVIOUS
  <2> PICK y : y = [run[r] EXCEPT !.pc = "create", !.unsent = u]
    OBVIOUS
  <2>3. y.injected = run[r].injected /\ y.unsent = u
    BY <1>1 DEF RunRecord
  <2>4. run' = [run EXCEPT ![r] = y] /\ used' = used /\ answers' = answers /\ msg' = msg
    BY <1>1, <1>3 DEF SessionLost, chat, table
  <2> QED  BY <1>3, <2>1, <2>2, <2>3, <2>4, AnewKeeps
<1> QED  BY <1>2, <1>3

LEMMA SessionCreatedKeeps ==
  ASSUME Base, TextInv, KeptInv, SilentInv, AnewInv, HoldersStay, NEW r \in 1..used, SessionCreated(r) PROVE Keeping
<1>1. TypeInv /\ run[r] \in RunRecord /\ run \in [Runs -> RunRecord] /\ r \in Runs
  BY Registry DEF TypeInv, Base, TypeOK
<1>2. Holder(r) /\ run[r].pc = "create"
  BY AtPlaceHolds DEF SessionCreated
<1>3. Silent(run[r]) /\ run[r].pc \in BeforeSession /\ ~answers.answered
  BY <1>2 DEF Silent, Silences, BeforeSession, AnewInv, AnewFits, Anew
<1> PICK y : y = [run[r] EXCEPT !.pc = "store", !.created = TRUE]
  OBVIOUS
<1>4. y.injected = run[r].injected /\ y.unsent = run[r].unsent /\ y.pc = "store"
  BY <1>1 DEF RunRecord
<1>5. run' = [run EXCEPT ![r] = y] /\ used' = used /\ answers' = answers /\ msg' = msg
  BY <1>1 DEF SessionCreated, chat, table
<1> QED  BY <1>2, <1>3, <1>4, <1>5, AnewKeeps

\* A start that goes on takes the texts of the run before it, or a cancel took them back.
LEMMA ReopenKeeps ==
  ASSUME Base, TextInv, MirrorInv, KeptInv, BeforeInv, NEW r \in 1..used, Reopen(r) PROVE Keeping
<1>1. TypeInv /\ LineInv /\ run[r] \in RunRecord /\ run \in [Runs -> RunRecord] /\ r \in Runs
      /\ \A s \in 1..used : s \in Runs
  BY Registry DEF TypeInv, Base, TypeOK, TextInv
<1>2. Waits(r) /\ \A s \in 1..(r - 1) : ~Waits(s)
  BY DEF Reopen, Waits
<1>3. r = last /\ ~Waits(r)' /\ used' = used /\ used \in Nat /\ r \in Nat /\ last = used
  <2>1. used \in Nat /\ r \in Nat
    BY <1>1, Registry DEF TypeInv
  <2> QED  BY <1>1, <2>1, ReopenLeads DEF LineInv
<1>4. answers' = answers /\ msg' = msg /\ got' = got /\ missed' = missed /\ stored' = stored
  BY DEF Reopen, chat, table
<1> PICK b : b = TextsBefore(run[r])
  OBVIOUS
<1> PICK u : u = IF run[r].earlyCancels > 0 /\ answers.answered THEN <<>> ELSE b
  OBVIOUS
<1>5. cancelled \subseteq cancelled' /\ (u = b \/ ToSet(b) \subseteq cancelled')
  BY DEF Reopen
<1>6. \E y : /\ run' = [run EXCEPT ![r] = y] /\ y.unsent = u /\ y.pc # "create"
             /\ y.created = run[r].created /\ y.injected = run[r].injected
  <2>1. CASE stopping \/ run[r].quiet
    <3> PICK y : y = Overtaken([run[r] EXCEPT !.unsent = u])
      OBVIOUS
    <3>1. run' = [run EXCEPT ![r] = y]
      BY <2>1 DEF Reopen
    <3>2. Reopened(run[r], y) /\ y.unsent = u
      BY <1>1, ReopenedFields
    <3>3. y.pc # "create" /\ y.created = run[r].created /\ y.injected = run[r].injected
      BY <3>2 DEF Reopened
    <3> QED  BY <3>1, <3>2, <3>3
  <2>2. CASE ~(stopping \/ run[r].quiet)
    <3> PICK y : y = [[run[r] EXCEPT !.unsent = u] EXCEPT !.pc = "interrupt"]
      OBVIOUS
    <3>1. run' = [run EXCEPT ![r] = y]
      BY <2>2 DEF Reopen
    <3>2. y.pc = "interrupt" /\ y.created = run[r].created /\ y.injected = run[r].injected
      BY <1>1 DEF RunRecord
    <3>3. y.unsent = u
      BY <1>1 DEF RunRecord
    <3> QED  BY <3>1, <3>2, <3>3
  <2> QED  BY <2>1, <2>2
<1>7. PICK y : /\ run' = [run EXCEPT ![r] = y] /\ y.unsent = u /\ y.pc # "create"
               /\ y.created = run[r].created /\ y.injected = run[r].injected
  BY <1>6
<1>8. run'[r] = y /\ \A s \in 1..used : s # r => run'[s] = run[s]
  BY <1>1, <1>7
<1>9. Holder(r)' /\ \A s \in 1..used : Holder(s)' => s = r
  <2>1. Holder(r)'
    BY <1>3 DEF Holder
  <2>2. ASSUME NEW s \in 1..used, Holder(s)' PROVE s = r
    <3>1. s \in Nat /\ s <= r
      BY <1>3
    <3>2. ~(s < r)
      BY <1>3, <2>2 DEF Holder
    <3> QED  BY <1>3, <3>1, <3>2
  <2> QED  BY <2>1, <2>2
<1>10. ASSUME NEW h \in 1..used, Holder(h) PROVE b = run[h].unsent
  <2>1. \A s \in 1..used : s # r => (Waits(s) <=> r < s)
    BY <1>1, <1>2, BeforeHeld
  <2>2. h \in Nat /\ ~Waits(h) /\ h < r
    BY <1>2, <1>3, <1>10 DEF Holder
  <2>3. r - 1 \in 1..used /\ ~(h < r - 1)
    <3>1. r - 1 \in 1..used /\ r - 1 # r /\ ~(r < r - 1)
      BY <1>3, <2>2
    <3>2. ~Waits(r - 1)
      BY <2>1, <3>1
    <3> QED  BY <1>10, <3>1, <3>2 DEF Holder
  <2>4. h = r - 1
    BY <1>3, <2>2, <2>3
  <2>5. run[r].prev = h /\ h # NoRun
    BY <1>1, <1>3, <2>4 DEF LineInv, NoRun
  <2> QED  BY <2>5 DEF TextsBefore
<1>11. HandsKept
  <2> SUFFICES ASSUME NEW t \in Texts, InHand(t) PROVE InHand(t)'
    BY DEF HandsKept
  <2>1. CASE Settles(t) \/ msg[t].late
    BY <1>4, <1>5, <2>1 DEF InHand, Settles
  <2>2. ASSUME NEW h \in 1..used, Holder(h), t \in ToSet(run[h].unsent) PROVE InHand(t)'
    <3>1. t \in ToSet(b)
      BY <1>10, <2>2
    <3>2. t \in cancelled' \/ t \in ToSet(run'[r].unsent)
      BY <1>5, <1>7, <1>8, <3>1 DEF Settles
    <3>3. r \in 1..used' /\ Holder(r)'
      BY <1>3, <1>9
    <3> QED  BY <3>2, <3>3 DEF InHand, Settles
  <2> QED  BY <2>1, <2>2 DEF InHand
<1>12. CreateKept
  BY <1>3, <1>7, <1>8, <1>9 DEF CreateKept, CreateHas
<1>13. OpensKept
  BY <1>3, <1>4, <1>7, <1>8 DEF OpensKept, Opened
<1>14. InjectedGot'
  BY <1>3, <1>4, <1>7, <1>8 DEF InjectedGot, KeptInv
<1>15. TextsGo /\ LogGrows
  BY <1>4, LogSame, TextsRest
<1> QED  BY <1>11, <1>12, <1>13, <1>14, <1>15 DEF Keeping

-----------------------------------------------------------------------------
(* Every step. *)

LEMMA ChatKeeps ==
  ASSUME Base, TextInv, CancelInv, KeptInv, HoldsLast, HoldersStay, ~faulted', ChatShifts
  PROVE  Keeping
<1>1. TypeInv /\ KnownInv /\ AnewInv /\ SilentInv
  BY DEF Base, CancelInv
<1>2. PickRelaunches => Regular
  BY <1>1, PickRelaunchKeeps
<1>3. CancelTurn \/ EndCancels => Regular
  BY CancelTurnKeeps
<1>4. CancelEarly => Regular
  BY <1>1, CancelEarlyKeeps
<1>5. WriteDone => Regular
  BY <1>1, WriteDoneKeeps
<1>6. HoldWritten => Regular
  BY <1>1, HoldWrittenKeeps
<1>7. ~WriteFails
  BY DEF WriteFails
<1>8. Regular
  BY <1>2, <1>3, <1>4, <1>5, <1>6, <1>7 DEF ChatShifts
<1> QED  BY <1>1, <1>8, RegularKeeps

LEMMA MessageKeeps ==
  ASSUME Base, TextInv, KeptInv, HoldersStay, NEW t \in Texts, MessageShifts(t) PROVE Keeping
<1>1. TypeInv
  BY DEF Base
<1>2. Restart(t) \/ JoinStart(t) => Regular
  BY <1>1, RestartKeeps, JoinStartKeeps
<1>3. JoinTurn(t) \/ StartTurn(t) => Regular
  BY JoinTurnKeeps, StartTurnKeeps
<1>4. Regular
  BY <1>2, <1>3 DEF MessageShifts
<1> QED  BY <1>1, <1>4, RegularKeeps

LEMMA RunKeeps ==
  ASSUME Base, TextInv, CancelInv, KeptInv, HoldersStay, NEW r \in 1..used, RunShifts(r), ~Reopen(r)
  PROVE  Keeping
<1>1. TypeInv /\ AnewInv /\ SilentInv
  BY DEF Base, CancelInv
<1>2. Spawn(r) => Regular
  BY <1>1, SpawnKeeps
<1>3. Initialized(r) => Regular
  <2> SUFFICES ASSUME Initialized(r) PROVE Regular
    OBVIOUS
  <2>1. Holder(r)
    BY AtPlaceHolds DEF Initialized
  <2> QED  BY <1>1, <2>1, InitializedKeeps
<1>4. SessionLost(r) \/ SessionCreated(r) => Keeping
  BY <1>1, SessionLostKeeps, SessionCreatedKeeps
<1>5. OptionsDone(r) \/ HeldOver(r) \/ NextPrompt(r) => Regular
  BY <1>1, OptionsOverKeeps, HeldOverKeeps, NextPromptKeeps
<1>6. ConnectionCut(r) \/ (\E clean \in BOOLEAN : Exit(r, clean)) => Regular
  BY <1>1, ExitKeeps
<1>7. InterruptDone(r) \/ SessionStored(r) \/ ResumedDone(r) => Regular
  BY <1>1, StepDoneKeeps, SessionStoredKeeps
<1>8. Regular => Keeping
  BY <1>1, RegularKeeps
<1> QED  BY <1>2, <1>3, <1>4, <1>5, <1>6, <1>7, <1>8 DEF RunShifts

LEMMA TextKeeps ==
  ASSUME Base, TextInv, KeptInv, HoldersStay, NEW r \in 1..used, NEW t \in Texts, TextShifts(r, t)
  PROVE  Keeping
<1>1. TypeInv /\ FormInv /\ UnsentOnce
  BY DEF Base, TextInv, OnceInv
<1>2. Regular
  BY <1>1, HoldWriteKeeps, InjectKeeps, SteerKeeps DEF TextShifts
<1> QED  BY <1>1, <1>2, RegularKeeps

LEMMA StepKeeps ==
  ASSUME Base, TextInv, CancelInv, MirrorInv, KeptInv, BeforeInv, HoldsLast, [Next]_vars, ~faulted'
  PROVE  Keeping
<1>1. Goes /\ (Flow \/ \E r \in 1..used : Reopen(r))
  BY NextGoes, NextFlows
<1>2. CASE \E r \in 1..used : Reopen(r)
  BY <1>2, ReopenKeeps
<1>3. CASE HoldersStay /\ Calm
  <2>1. Regular
    BY <1>3, CalmKeeps
  <2> QED  BY <1>3, <2>1, RegularKeeps DEF Base
<1>4. CASE HoldersStay /\ Shifts /\ \A r \in 1..used : ~Reopen(r)
  <2>1. ChatShifts => Keeping
    BY <1>4, ChatKeeps
  <2>2. \A t \in Texts : MessageShifts(t) => Keeping
    BY <1>4, MessageKeeps
  <2>3. \A r \in 1..used : RunShifts(r) => Keeping
    BY <1>4, RunKeeps
  <2>4. \A r \in 1..used : \A t \in Texts : TextShifts(r, t) => Keeping
    BY <1>4, TextKeeps
  <2> QED  BY <1>4, <2>1, <2>2, <2>3, <2>4 DEF Shifts
<1> QED  BY <1>1, <1>2, <1>3, <1>4 DEF Goes, Flow

LEMMA NextKept ==
  ASSUME Base, Base', TextInv, TextInv', CancelInv, CancelInv', LogInv, LogInv', KeepInv, [Next]_vars
  PROVE  KeepInv'
<1>1. StartsInv'
  BY NextStarts DEF KeepInv
<1>2. ASSUME ~faulted' PROVE KeptInv'
  <2>1. ~faulted /\ TypeInv /\ StoredInv'
    BY <1>2, NextOnward DEF Onward, Base, TextInv
  <2>2. MirrorInv /\ KeptInv /\ BeforeInv /\ HoldsLast
    BY <2>1 DEF LogInv, KeepInv, StartsInv
  <2>3. Keeping
    BY <1>2, <2>2, StepKeeps
  <2>4. QueueKept
    BY <1>2, <2>1, NextQueueKept
  <2> QED  BY <2>1, <2>2, <2>3, <2>4, KeepsOn
<1> QED  BY <1>1, <1>2 DEF KeepInv

-----------------------------------------------------------------------------
(* A chat that starts, and one that was loaded. *)

LEMMA StartedKept ==
  ASSUME Init, NEW t \in Texts, InitStarted(t) PROVE KeepInv
<1> PICK x : x = [NewRun EXCEPT !.pc = "init", !.proc = "alive", !.idle = "on"]
  OBVIOUS
<1>1. x.pc = "init" /\ x.injected = {} /\ ~x.created
  BY DEF NewRun
<1>2. run = [r \in Runs |-> IF r = 1 THEN x ELSE NewRun] /\ used = 1 /\ ~stored
  BY DEF InitStarted
<1>3. writes = <<>> /\ 1..Len(writes) = {}
  BY DEF Init, InitCommon
<1>4. \A r \in 1..used : run[r] = x
  BY <1>2, RunnerAssumption DEF Runs
<1>5. answers.unanswered = <<t>>
  <2>1. UserEvent(t).kind = "user" /\ UserEvent(t).text = <<t>>
    BY DEF UserEvent, Plain
  <2>2. <<>> \o <<t>> = <<t>>
    OBVIOUS
  <2>3. answers = [NoAnswers EXCEPT !.unanswered = NoAnswers.unanswered \o <<t>>]
    BY <2>1 DEF InitStarted, TrackAnswers, IsAnswer
  <2> QED  BY <2>2, <2>3 DEF NoAnswers
<1>6. t \in ToSet(answers.unanswered)
  <2>1. Len(<<t>>) = 1 /\ <<t>>[1] = t /\ 1 \in 1..1
    OBVIOUS
  <2> QED  BY <1>5, <2>1 DEF ToSet
<1>7. \A u \in Texts : msg[u].st = (IF u = t THEN "done" ELSE "new")
  BY DEF InitStarted
<1>8. StartsInv
  BY <1>1, <1>3, <1>4 DEF StartsInv, BeforeInv, Before, HoldsLast
<1>9. InjectedGot /\ ~Opened
  BY <1>1, <1>2, <1>4 DEF InjectedGot, Opened
<1>10. \A u \in Texts : TextKept(u)
  <2> SUFFICES ASSUME NEW u \in Texts, Owed(u) PROVE OnlyLogged(u) /\ WrittenFits(u) /\ CallQueued(u)
    BY DEF TextKept
  <2>1. u = t /\ msg[u].st = "done"
    BY <1>7 DEF Owed
  <2>2. OnlyLogged(u) /\ LogsIt(u)
    BY <1>6, <1>9, <2>1 DEF OnlyLogged, LogsIt
  <2>3. CreateHas(u)
    BY <1>1, <1>4 DEF CreateHas
  <2> QED  BY <2>1, <2>2, <2>3 DEF WrittenFits, CallQueued
<1> QED  BY <1>8, <1>9, <1>10 DEF KeepInv, KeptInv

LEMMA LoadedKept ==
  ASSUME Init, NEW answered, NEW stopped, InitLoaded(TRUE, answered, stopped) PROVE KeepInv
<1>1. used = 0 /\ 1..used = {} /\ \A u \in Texts : msg[u].st = "new"
  BY DEF InitLoaded
<1>2. 1..Len(writes) = {}
  BY DEF Init, InitCommon
<1>3. StartsInv
  BY <1>1, <1>2 DEF StartsInv, BeforeInv, HoldsLast
<1>4. KeptInv
  BY <1>1 DEF KeptInv, InjectedGot, TextKept, Owed
<1> QED  BY <1>3, <1>4 DEF KeepInv

LEMMA InitKept == Init => KeepInv
  BY StartedKept, LoadedKept DEF Init

-----------------------------------------------------------------------------
(* No message is forgotten. *)

\* The next prompt or the next start finds what the last run that went on has.
LEMMA HeldWaits ==
  ASSUME TypeInv, LineInv, BeforeInv, NEW r \in 1..used, Holder(r) PROVE ToSet(run[r].unsent) \subseteq Waiting
<1>1. used \in Nat /\ r \in Nat /\ last = used
  BY Registry DEF TypeInv, LineInv
<1>2. last # NoRun /\ last \in 1..used
  BY <1>1 DEF NoRun
<1>3. CASE r = last
  BY <1>2, <1>3 DEF Waiting, Unsent
<1>4. CASE r # last
  <2>1. Waits(last) /\ r < last
    BY <1>1, <1>2, <1>4 DEF Holder
  <2>2. r = last - 1
    <3> SUFFICES ASSUME r # last - 1 PROVE FALSE
      OBVIOUS
    <3>1. last - 1 \in 1..used /\ r < last - 1 /\ last - 1 # last
      BY <1>1, <2>1
    <3>2. Waits(last - 1)
      BY <3>1 DEF Holder
    <3> QED  BY <3>1, <3>2 DEF Waits, BeforeInv, Before
  <2>3. run[last].prev = r /\ r # NoRun
    BY <1>1, <1>2, <2>2 DEF LineInv, NoRun
  <2> QED  BY <1>2, <2>1, <2>3 DEF Waiting, Unsent, Waits
<1> QED  BY <1>3, <1>4

LEMMA KeptNotForgotten ==
  ASSUME TypeInv, TextInv, KeepInv PROVE NoTextForgotten
<1> SUFFICES ASSUME ~faulted, NEW t \in Texts, Forgotten(t), t \notin missed, ~msg[t].late PROVE FALSE
  BY DEF NoTextForgotten
<1>1. BeforeInv /\ TextKept(t) /\ LineInv
  BY DEF KeepInv, KeptInv, StartsInv, TextInv
<1>2. got[t] \in Nat
  BY DEF TypeInv, TypeOK
<1>3. Owed(t) /\ t \notin cancelled /\ t \notin Waiting /\ ~(got[t] > 0)
  BY <1>2 DEF Forgotten, Owed
<1>4. CASE OnlyLogged(t)
  BY <1>3, <1>4 DEF OnlyLogged, Opened, Waiting
<1>5. ASSUME NEW r \in 1..used, Holder(r), t \in ToSet(run[r].unsent) PROVE FALSE
  BY <1>1, <1>3, <1>5, HeldWaits
<1> QED  BY <1>1, <1>3, <1>4, <1>5 DEF TextKept, InHand, Settles

\* In every reachable state with no failed write, only the last run waits to start, and the text
\* of each accepted message is on its way: the agent got it, a prompt took it to a closed
\* connection, a cancel took it back, it came late, the last run that went on has it, or the log
\* of a chat with no session.
THEOREM KeptHolds == Spec => []KeepInv
<1>1. /\ TypeInv /\ StartInv /\ PlaceInv /\ EndInv /\ TypeInv' /\ StartInv' /\ PlaceInv' /\ EndInv'
      /\ TextInv /\ TextInv' /\ CancelInv /\ CancelInv' /\ LogInv /\ LogInv' /\ KeepInv /\ [Next]_vars
      => KeepInv'
  BY NextKept DEF Base
<1> QED  BY <1>1, InitKept, TypesHold, StartsWait, PlacesHold, EndsHold, TextsHold, CancelsHold, LogHolds, PTL DEF Spec

\* In every reachable state with no failed write, a message that the chat wrote reached the agent,
\* went with a prompt to a closed connection, was cancelled, came late to a start, or waits where
\* the next prompt or the next start finds it.
THEOREM NoTextForgottenHolds == Spec => []NoTextForgotten
<1>1. TypeInv /\ TextInv /\ KeepInv => NoTextForgotten
  BY KeptNotForgotten
<1> QED  BY <1>1, TypesHold, TextsHold, KeptHolds, PTL
=============================================================================
