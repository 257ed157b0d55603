-------------------------- MODULE ChatRunnerKeeps --------------------------
(***************************************************************************)
(* What the runner of a chat keeps in every state, for every number of     *)
(* runs, messages, picks, cancels, exits and failing writes.               *)
(*                                                                         *)
(* One process.  A start registers its run in the same step in which it    *)
(* finds no current run, and keeps the promise of the last process that it *)
(* read then.  It passes the wait for that promise only after the process  *)
(* has ended.  So the invariant is about the runs between the two: such a  *)
(* run is the current one unless it is quiet, and no other spawn comes in  *)
(* between, because a spawn belongs to the current run as well.            *)
(*                                                                         *)
(* No stray agent.  A step that lets an agent go asks for its end, or      *)
(* calls a write that does, and such a write waits until it is done.       *)
(*                                                                         *)
(* The owner of a pick.  The places of the coroutines are part of an       *)
(* invariant of their own: who waits for a write, and who waits for a      *)
(* pick, is at the one await where that answer finds it.                   *)
(*                                                                         *)
(* The types.  Every variable keeps its type, for every set of texts and   *)
(* requests and for every bound.                                           *)
(*                                                                         *)
(* `TypeOK` alone is not inductive: the chain of picks counts a pick as    *)
(* settled when its answer comes, and stays within its bound only because  *)
(* a pick that is in progress was issued and is not settled yet.  An `end` *)
(* that waits for a turn goes on with the record of a run, so it has one.  *)
(***************************************************************************)
EXTENDS ChatRunnerProperties, FiniteSetTheorems, SequenceTheorems, TLAPS

-----------------------------------------------------------------------------
(* The types. *)

PickBounded == pick.st # "none" => pick.settled < pick.issued

EndHasRun == end.st = "turn" => end.run \in 1..used

TypeInv == TypeOK /\ PickBounded /\ EndHasRun

-----------------------------------------------------------------------------
(* The steps of a run give records of a run. *)

\* `Touch`, the activity that the idle timer sees, keeps a record of a run one.
LEMMA TouchType == ASSUME NEW x \in RunRecord PROVE Touch(x) \in RunRecord
<1>1. [x EXCEPT !.idle = "stale"] \in RunRecord
  BY DEF RunRecord
<1> QED  BY <1>1 DEF Touch

\* So does `silence`.
LEMMA SilenceType == ASSUME NEW x \in RunRecord PROVE Silence(x) \in RunRecord
  BY DEF Silence, RunRecord

\* So does the request that the process ends.
LEMMA EndProcessType == ASSUME NEW x \in RunRecord PROVE EndProcess(x) \in RunRecord
  BY DEF EndProcess, RunRecord, Processes

\* So does `quit`.
LEMMA QuitType == ASSUME NEW x \in RunRecord PROVE Quit(x) \in RunRecord
  BY SilenceType, EndProcessType DEF Quit

\* So does `fail`.
LEMMA FailType == ASSUME NEW x \in RunRecord PROVE Fail(x) \in RunRecord
  BY SilenceType DEF Fail

\* A record of a run is one after a change of the place of its coroutine.
LEMMA PlaceType ==
  ASSUME NEW x \in RunRecord, NEW p \in Places
  PROVE [x EXCEPT !.pc = p] \in RunRecord
  BY DEF RunRecord

\* So it is after `fail` of a coroutine that returns.
LEMMA FailOverType == ASSUME NEW x \in RunRecord PROVE [Fail(x) EXCEPT !.pc = "over"] \in RunRecord
  BY FailType, PlaceType DEF Places

\* So it is after the resolutions of its open requests.
LEMMA CancelOpenType == ASSUME NEW x \in RunRecord PROVE CancelOpen(x) \in RunRecord
<1>1. [x EXCEPT !.open = {}] \in RunRecord
  BY DEF RunRecord
<1> QED  BY <1>1, TouchType DEF CancelOpen

\* So it is after `setBackground`.
LEMMA SetBackgroundType ==
  ASSUME NEW x \in RunRecord, NEW job \in BOOLEAN, NEW own \in BOOLEAN
  PROVE SetBackground(x, job, own) \in RunRecord
<1>1. [x EXCEPT !.job = job, !.own = own] \in RunRecord
  BY DEF RunRecord
<1> QED  BY <1>1 DEF SetBackground

\* So it is after `endTurn`.
LEMMA EndTurnType == ASSUME NEW x \in RunRecord PROVE EndTurn(x) \in RunRecord
<1>1. [x EXCEPT !.turning = FALSE, !.pc = "over"] \in RunRecord
  BY DEF RunRecord, Places
<1>2. [x EXCEPT !.turning = FALSE, !.pc = "idle", !.open = {}] \in RunRecord
  BY DEF RunRecord, Places
<1> QED  BY <1>1, <1>2, TouchType DEF EndTurn

\* So it is after the first part of `runTurn`.
LEMMA RunTurnType == ASSUME NEW x \in RunRecord PROVE RunTurn(x) \in RunRecord
<1> DEFINE y == [x EXCEPT !.unsent = <<>>, !.cancelAsked = FALSE, !.turnCancelled = FALSE]
<1>1. <<>> \in Seq(Texts)
  OBVIOUS
<1>2. y \in RunRecord
  BY <1>1 DEF RunRecord
<1> HIDE DEF y
<1>3. [y EXCEPT !.pc = "prompt"] \in RunRecord /\ [y EXCEPT !.pc = "over"] \in RunRecord
  BY <1>2, PlaceType DEF Places, AtAgent
<1> QED  BY <1>3, EndProcessType DEF RunTurn, y

\* So it is when the checks of the background are old.
LEMMA StaleType ==
  ASSUME NEW x \in RunRecord PROVE StaleAll(x) \in RunRecord /\ StaleMarker(x) \in RunRecord
  BY DEF StaleAll, StaleMarker, RunRecord, Checks

\* So it is when its connection closes.
LEMMA ConnectionLostType == ASSUME NEW x \in RunRecord PROVE ConnectionLost(x) \in RunRecord
  BY DEF ConnectionLost, RunRecord, Places

\* So it is when a message of its start is not written.
LEMMA HoldFailedType == ASSUME NEW x \in RunRecord PROVE HoldFailed(x) \in RunRecord
  BY DEF HoldFailed, RunRecord, Places

\* So it is when a message joins its start.
LEMMA HoldType ==
  ASSUME NEW x \in RunRecord, NEW t \in Texts PROVE Hold(x, t) \in RunRecord
<1>1. Append(x.held, t) \in Seq(Texts)
  BY DEF RunRecord
<1>2. \A s \in Seq(Texts) : [x EXCEPT !.cancelledEarly = FALSE, !.held = s] \in RunRecord
  BY DEF RunRecord
<1> QED  BY <1>1, <1>2 DEF Hold

\* So it is when the daemon stop or an `end` overtakes its start.
LEMMA OvertakenType == ASSUME NEW x \in RunRecord PROVE Overtaken(x) \in RunRecord
<1>1. Silence(x) \in RunRecord
  BY SilenceType
<1>2. ASSUME NEW y \in RunRecord
      PROVE  [y EXCEPT !.reopened = "failed", !.pc = "over"] \in RunRecord
  BY DEF RunRecord, Places
<1> QED  BY <1>1, <1>2 DEF Overtaken

\* So it is when a start of a pick ends.
LEMMA PickRelaunchOverType == ASSUME NEW x \in RunRecord PROVE PickRelaunchOver(x) \in RunRecord
<1>1. [x EXCEPT !.pickRelaunch = FALSE, !.turning = FALSE, !.pc = "idle"] \in RunRecord
  BY DEF RunRecord, Places
<1> QED  BY <1>1, TouchType DEF PickRelaunchOver

\* `register` gives a record of a run.
LEMMA RegisteredType ==
  ASSUME NEW x \in RunRecord, TypeOK PROVE Registered(x) \in RunRecord
<1>1. ends \in 0..MaxRuns /\ last \in 0..MaxRuns
  BY RunnerAssumption DEF TypeOK
<1>2. \A e \in 0..MaxRuns, l \in 0..MaxRuns :
        [x EXCEPT !.awaits = e, !.prev = l, !.reopened = "wait"] \in RunRecord
  BY DEF RunRecord
<1> QED  BY <1>1, <1>2 DEF Registered

\* A new run is one.
LEMMA NewRunType == NewRun \in RunRecord
<1>1. <<>> \in Seq(Texts)
  OBVIOUS
<1>2. 0 \in 0..MaxRuns /\ 0 \in 0..MaxPicks
  BY RunnerAssumption
<1> QED  BY <1>1, <1>2 DEF NewRun, NoRun, RunRecord, Places, Processes, Checks

\* The last step of `begin` gives a record of a run.
LEMMA FirstTurnType ==
  ASSUME NEW x \in RunRecord PROVE FirstTurn(x) \in RunRecord
<1> DEFINE y == [x EXCEPT !.reaches = TRUE]
<1>1. y \in RunRecord
  BY DEF RunRecord
<1> HIDE DEF y
<1>2. RunTurn(y) \in RunRecord
  BY <1>1, RunTurnType
<1>3. \A s \in Seq(Texts) : [y EXCEPT !.unsent = s, !.turnCancelled = TRUE] \in RunRecord
  BY <1>1 DEF RunRecord
<1>4. (IF answers.answered THEN <<>> ELSE y.unsent) \in Seq(Texts)
  BY <1>1 DEF RunRecord
<1>5. EndTurn([y EXCEPT !.unsent = IF answers.answered THEN <<>> ELSE @, !.turnCancelled = TRUE])
        \in RunRecord
  BY <1>3, <1>4, EndTurnType
<1> QED  BY <1>2, <1>5 DEF FirstTurn, y

-----------------------------------------------------------------------------
(* The writes. *)

\* The events that the runner builds are events.
LEMMA EventType ==
  /\ \A kind \in EventKinds : Plain(kind) \in Event
  /\ \A t \in Texts : UserEvent(t) \in Event
  /\ \A q \in Requests : AskEvent(q) \in Event
  /\ \A qs \in SUBSET Requests : ResolvedEvent(qs) \in Event
  /\ \A job, own \in BOOLEAN : BackgroundEvent(job, own) \in Event
<1>1. \A kind \in EventKinds : Plain(kind) \in Event
  BY DEF Plain, Event
<1>2. ASSUME NEW e \in Event, NEW t \in Texts PROVE [e EXCEPT !.text = <<t>>] \in Event
  <2>1. <<t>> \in Seq(Texts)
    OBVIOUS
  <2> QED  BY <2>1 DEF Event
<1>3. \A e \in Event, qs \in SUBSET Requests : [e EXCEPT !.reqs = qs] \in Event
  BY DEF Event
<1>4. \A e \in Event, job, own \in BOOLEAN : [e EXCEPT !.job = job, !.own = own] \in Event
  BY DEF Event
<1>5. \A q \in Requests : {q} \in SUBSET Requests
  OBVIOUS
<1> QED  BY <1>1, <1>2, <1>3, <1>4, <1>5
         DEF UserEvent, AskEvent, ResolvedEvent, BackgroundEvent, EventKinds

\* A write of a run is a write, with what goes on after it or without.
LEMMA WriteType ==
  ASSUME NEW e \in Event, NEW r \in 0..MaxRuns
  PROVE  W(e, r) \in Write /\ \A cont \in Conts \ {"hold"} : WThen(e, r, cont) \in Write
  BY DEF W, WThen, Write, Conts

\* So is the write of a message that joins a start.
LEMMA HoldWriteType ==
  ASSUME NEW t \in Texts, NEW r \in 0..MaxRuns PROVE WThen(UserEvent(t), r, "hold") \in Write
<1>1. UserEvent(t) \in Event
  BY EventType
<1>2. UserEvent(t).text = <<t>>
  BY DEF UserEvent, Plain
<1> QED  BY <1>1, <1>2 DEF WThen, Write, Conts

\* The write of `fail` is one.
LEMMA FailWritesType ==
  ASSUME NEW x \in RunRecord, NEW r \in 0..MaxRuns PROVE FailWrites(x, r) \in Seq(Write)
  BY EventType, WriteType DEF FailWrites, EventKinds, Conts

\* The writes of the resolutions of open requests are.
LEMMA CancelOpenWritesType ==
  ASSUME NEW x \in RunRecord, NEW r \in 0..MaxRuns, NEW cont \in Conts \ {"hold"}
  PROVE  CancelOpenWrites(x, r, cont) \in Seq(Write)
<1>1. x.open \in SUBSET Requests
  BY DEF RunRecord
<1> QED  BY <1>1, EventType, WriteType DEF CancelOpenWrites

\* The write of `setBackground` is.
LEMMA SetBackgroundWritesType ==
  ASSUME NEW x \in RunRecord, NEW r \in 0..MaxRuns, NEW job \in BOOLEAN, NEW own \in BOOLEAN
  PROVE  SetBackgroundWrites(x, r, job, own) \in Seq(Write)
  BY EventType, WriteType DEF SetBackgroundWrites

\* The writes of `endTurn` are.
LEMMA EndTurnWritesType ==
  ASSUME NEW x \in RunRecord, NEW r \in 0..MaxRuns PROVE EndTurnWrites(x, r) \in Seq(Write)
<1>1. CancelOpenWrites(x, r, "none") \in Seq(Write)
  BY CancelOpenWritesType DEF Conts
<1>2. W(Plain(IF x.turnCancelled THEN "turn-cancelled" ELSE "turn-end"), r) \in Write
  BY EventType, WriteType DEF EventKinds
<1> QED  BY <1>1, <1>2 DEF EndTurnWrites

\* The writes of the last step of `begin` are.
LEMMA FirstTurnWritesType ==
  ASSUME NEW x \in RunRecord, NEW r \in 0..MaxRuns PROVE FirstTurnWrites(x, r) \in Seq(Write)
<1>1. [x EXCEPT !.turnCancelled = TRUE] \in RunRecord
  BY DEF RunRecord
<1> QED  BY <1>1, EndTurnWritesType DEF FirstTurnWrites

\* The write of an update is.
LEMMA WorkWritesType ==
  ASSUME NEW r \in 0..MaxRuns PROVE WorkWrites(r) \in Seq(Write)
  BY EventType, WriteType DEF WorkWrites, EventKinds

\* The history of what the agent got counts each text it gets.
LEMMA GotByType ==
  ASSUME TypeOK, NEW batch \in Seq(Texts) PROVE GotBy(batch) \in [Texts -> Nat]
<1> SUFFICES ASSUME NEW t \in Texts
             PROVE  got[t] + Cardinality({i \in DOMAIN batch : batch[i] = t}) \in Nat
  BY DEF GotBy
<1>1. IsFiniteSet(1..Len(batch))
  BY FS_Interval
<1>2. DOMAIN batch = 1..Len(batch)
  OBVIOUS
<1>3. IsFiniteSet({i \in DOMAIN batch : batch[i] = t})
  BY <1>1, <1>2, FS_Subset
<1>4. Cardinality({i \in DOMAIN batch : batch[i] = t}) \in Nat
  BY <1>3, FS_CardinalityType
<1> QED  BY <1>4 DEF TypeOK
-----------------------------------------------------------------------------
(* The parts of a step that many actions share. *)

\* The texts of a prompt are counted as got, or as missed.
LEMMA PromptGotType ==
  ASSUME TypeOK, NEW x, NEW batch \in Seq(Texts)
  PROVE  PromptGot(x, batch) \in [Texts -> Nat] /\ PromptMissed(x, batch) \subseteq Texts
<1>1. GotBy(batch) \in [Texts -> Nat] /\ ToSet(batch) \subseteq Texts
  BY GotByType DEF ToSet
<1> QED  BY <1>1 DEF PromptGot, PromptMissed, TypeOK

\* A registered run has a record, and the current run is registered.
LEMMA Registry ==
  ASSUME TypeOK
  PROVE  /\ \A r \in 1..used : r \in Runs /\ r \in 0..MaxRuns /\ run[r] \in RunRecord
         /\ cur # NoRun => cur \in 1..used
         /\ used \in 0..MaxRuns
  BY RunnerAssumption DEF TypeOK, Runs, NoRun

\* What remains of a sequence of texts without one of them is a sequence of texts.
LEMMA WithoutType ==
  ASSUME NEW texts \in Seq(Texts), NEW t PROVE Without(texts, t) \in Seq(Texts)
<1>1. CASE t \in ToSet(texts)
  <2> DEFINE k == CHOOSE i \in DOMAIN texts : texts[i] = t
  <2>1. k \in 1..Len(texts)
    BY <1>1 DEF ToSet
  <2> HIDE DEF k
  <2>2. SubSeq(texts, 1, k - 1) \in Seq(Texts) /\ SubSeq(texts, k + 1, Len(texts)) \in Seq(Texts)
    BY <2>1
  <2>3. RemoveAt(texts, k) \in Seq(Texts)
    BY <2>2 DEF RemoveAt
  <2> QED  BY <1>1, <2>3 DEF Without, k
<1>2. CASE t \notin ToSet(texts)
  BY <1>2 DEF Without
<1> QED  BY <1>1, <1>2

\* A step that gives one run a new record keeps all records.
LEMMA RunUpdate ==
  ASSUME TypeOK, NEW r, NEW y \in RunRecord, run' = [run EXCEPT ![r] = y]
  PROVE  run' \in [Runs -> RunRecord]
  BY DEF TypeOK

\* A step that calls writes keeps the queue of writes.
LEMMA WritesUpdate ==
  ASSUME TypeOK, NEW ws \in Seq(Write), writes' = writes \o ws
  PROVE  writes' \in Seq(Write)
  BY DEF TypeOK

\* The answer of the pick in progress keeps the chain of picks within its bound.
LEMMA PickOver ==
  ASSUME TypeInv, pick.st # "none", pick' = [pick EXCEPT !.st = "none", !.settled = @ + 1]
  PROVE  pick' \in Pick /\ PickBounded'
<1>1. pick \in Pick /\ pick.settled < pick.issued
  BY DEF TypeInv, TypeOK, PickBounded
<1>2. pick.settled + 1 \in 0..MaxPicks
  BY <1>1, RunnerAssumption DEF Pick
<1>3. pick' \in Pick
  BY <1>1, <1>2 DEF Pick
<1>4. pick'.st = "none"
  BY <1>1 DEF Pick
<1> QED  BY <1>3, <1>4 DEF PickBounded

\* `forget` keeps the current run and the chain of picks within their types.
LEMMA ForgetType ==
  ASSUME TypeInv, NEW r, Forget(r)
  PROVE  cur' \in 0..used /\ pick' \in Pick /\ PickBounded'
<1>1. cur' \in 0..used
  BY Registry DEF TypeInv, TypeOK, Forget, NoRun
<1>2. pick' \in Pick /\ PickBounded'
  <2>1. CASE pick.st = "waiting" /\ pick.run = r
    BY <2>1, PickOver DEF Forget
  <2>2. CASE ~(pick.st = "waiting" /\ pick.run = r)
    BY <2>2 DEF Forget, TypeInv, TypeOK, PickBounded
  <2> QED  BY <2>1, <2>2
<1> QED  BY <1>1, <1>2

\* Each way to answer a pick keeps the chain of picks within its bound.
LEMMA PickType ==
  ASSUME TypeInv, NEW r, AnswerPick(r) \/ LostPick(r) \/ pick' = pick
  PROVE  pick' \in Pick /\ PickBounded'
<1>1. CASE pick' = pick
  BY <1>1 DEF TypeInv, TypeOK, PickBounded
<1>2. CASE pick' # pick
  <2>1. pick.st # "none" /\ pick' = [pick EXCEPT !.st = "none", !.settled = @ + 1]
    BY <1>2 DEF AnswerPick, LostPick
  <2> QED  BY <2>1, PickOver
<1> QED  BY <1>1, <1>2

\* A change of the state of a message keeps the records of the messages.
LEMMA MessageType ==
  ASSUME TypeOK, NEW t,
         NEW st \in {"new", "wait", "write", "again", "call", "halt", "done", "refused"},
         msg' = [msg EXCEPT ![t].st = st]
  PROVE  msg' \in [Texts -> Message]
  BY DEF TypeOK, Message

\* `hold` records the run of its message and the cancels that came before it.
LEMMA HoldCallType ==
  ASSUME TypeOK, NEW t, NEW r \in 0..MaxRuns, NEW n \in Nat, msg' = HoldCall(t, r, n)
  PROVE  msg' \in [Texts -> Message]
  BY DEF TypeOK, Message, HoldCall

\* What is spent of a bound leaves a bound.
LEMMA SpendType ==
  ASSUME TypeOK, NEW what \in Bounded, Spend(what)
  PROVE  left' \in [Bounded -> Nat]
  BY DEF TypeOK, Spend, Bounded

\* The fold of an event and the record of the answers keep their types.
LEMMA FoldType ==
  ASSUME NEW f \in Fold, NEW a \in Answers, NEW e \in Event
  PROVE  FoldChat(f, e) \in Fold /\ TrackAnswers(a, e) \in Answers
<1>1. FoldChat(f, e) \in Fold
  BY DEF FoldChat, Fold, Event, EventKinds, Stops, NothingRuns, ChatStart
<1>2. TrackAnswers(a, e) \in Answers
  <2>1. <<>> \in Seq(Texts) /\ a.unanswered \o e.text \in Seq(Texts)
    BY DEF Answers, Event
  <2>2. ASSUME NEW s \in Seq(Texts) PROVE [a EXCEPT !.unanswered = s] \in Answers
    BY DEF Answers
  <2>3. [answered |-> TRUE, unanswered |-> <<>>] \in Answers
    BY <2>1 DEF Answers
  <2> QED  BY <2>1, <2>2, <2>3 DEF TrackAnswers
<1> QED  BY <1>1, <1>2

\* So does the end of a write.
LEMMA LoggedType ==
  ASSUME TypeOK, NEW e \in Event, Logged(e)
  PROVE  fold' \in Fold /\ answers' \in Answers
  BY FoldType DEF TypeOK, Logged

\* The head of the writes is a write, and the rest of them are writes.
LEMMA HeadType ==
  ASSUME TypeOK, writes # <<>>
  PROVE  Head(writes) \in Write /\ Tail(writes) \in Seq(Write)
  BY DEF TypeOK
-----------------------------------------------------------------------------
(* The initial states. *)

\* A chat that comes to the runner, with its agent or from disk, is well typed.
LEMMA InitType == Init => TypeInv
<1> SUFFICES ASSUME Init PROVE TypeInv
  OBVIOUS
<1>1. InitCommon /\ NewRun \in RunRecord
  BY NewRunType DEF Init
<1>2. /\ writes \in Seq(Write) /\ pick \in Pick /\ PickBounded /\ end \in End
      /\ EndHasRun
      /\ stopping \in BOOLEAN /\ closed \in BOOLEAN /\ faulted \in BOOLEAN
      /\ left \in [Bounded -> Nat]
      /\ got \in [Texts -> Nat] /\ cancelled \subseteq Texts /\ unsure \subseteq Texts
      /\ missed \subseteq Texts
  <2>1. NoPick \in Pick /\ NoPick.st = "none" /\ NoEnd \in End /\ NoEnd.st = "none"
    BY RunnerAssumption DEF NoPick, Pick, NoEnd, End, NoRun
  <2>2. <<>> \in Seq(Write)
    OBVIOUS
  <2>3. [t \in Texts |-> 0] \in [Texts -> Nat]
    OBVIOUS
  <2> QED  BY <1>1, <2>1, <2>2, <2>3, RunnerAssumption DEF InitCommon, PickBounded, EndHasRun
<1>3. CASE \E t \in Texts : InitStarted(t)
  <2>1. PICK t \in Texts : InitStarted(t)
    BY <1>3
  <2>2. fold \in Fold /\ answers \in Answers
    <3>1. ChatStart \in Fold /\ NoAnswers \in Answers
      BY DEF ChatStart, Fold, Stops, NoAnswers, Answers
    <3> QED  BY <2>1, <3>1, EventType, FoldType DEF InitStarted
  <2>3. [NewRun EXCEPT !.pc = "init", !.proc = "alive", !.idle = "on"] \in RunRecord
    BY <1>1 DEF RunRecord, Places, AtAgent, Processes
  <2>4. run \in [Runs -> RunRecord]
    BY <1>1, <2>1, <2>3 DEF InitStarted
  <2>5. msg \in [Texts -> Message]
    <3>1. NoRun \in 0..MaxRuns /\ 0 \in Nat
      BY RunnerAssumption DEF NoRun
    <3> QED  BY <2>1, <3>1 DEF InitStarted, Message
  <2>6. used \in 0..MaxRuns /\ cur \in 0..used /\ last \in 0..used /\ ends \in 0..used
    BY <2>1, RunnerAssumption DEF InitStarted
  <2>7. stored \in BOOLEAN
    BY <2>1 DEF InitStarted
  <2> QED  BY <1>2, <2>1, <2>2, <2>4, <2>5, <2>6, <2>7 DEF TypeInv, TypeOK
<1>4. ASSUME NEW session \in BOOLEAN, NEW answered \in BOOLEAN, NEW stopped \in Stops,
             InitLoaded(session, answered, stopped)
      PROVE  TypeInv
  <2>1. fold \in Fold /\ answers \in Answers
    <3>1. ChatStart \in Fold
      BY DEF ChatStart, Fold, Stops
    <3>2. NothingRuns(ChatStart, stopped) \in Fold
      BY <3>1 DEF NothingRuns, Fold
    <3>3. [answered |-> answered, unanswered |-> <<>>] \in Answers
      BY DEF Answers
    <3> QED  BY <1>4, <3>2, <3>3 DEF InitLoaded
  <2>2. run \in [Runs -> RunRecord]
    BY <1>1, <1>4 DEF InitLoaded
  <2>3. msg \in [Texts -> Message]
    BY <1>4, RunnerAssumption DEF InitLoaded, Message, NoRun
  <2>4. used \in 0..MaxRuns /\ cur \in 0..used /\ last \in 0..used /\ ends \in 0..used
    BY <1>4, RunnerAssumption DEF InitLoaded, NoRun
  <2> QED  BY <1>2, <1>4, <2>1, <2>2, <2>3, <2>4 DEF TypeInv, TypeOK, InitLoaded
<1> QED  BY <1>3, <1>4 DEF Init, Stops

-----------------------------------------------------------------------------
(* The messages. *)

\* `register` of a run adds a run of the type.
LEMMA RegisterType ==
  ASSUME TypeOK, NEW x \in RunRecord, Register(x)
  PROVE  /\ run' \in [Runs -> RunRecord]
         /\ used' \in 0..MaxRuns /\ cur' \in 0..used' /\ last' \in 0..used'
         /\ used \in 0..used' /\ used + 1 \in 0..MaxRuns
<1>1. Registered(x) \in RunRecord
  BY RegisteredType
<1>2. run' = [run EXCEPT ![used + 1] = Registered(x)]
  BY DEF Register
<1>3. run' \in [Runs -> RunRecord]
  BY <1>1, <1>2, RunUpdate
<1>4. /\ used \in Nat /\ used < MaxRuns /\ MaxRuns \in Nat
      /\ used' = used + 1 /\ cur' = used + 1 /\ last' = used + 1
  BY RunnerAssumption DEF Register, TypeOK
<1> QED  BY <1>3, <1>4

\* A message that clients send keeps the types.
LEMMA SendType == ASSUME TypeInv, NEW t \in Texts, Send(t) PROVE TypeInv'
<1>1. CASE RefuseMessage(t)
  <2>1. msg' \in [Texts -> Message]
    BY <1>1, MessageType DEF TypeInv, RefuseMessage
  <2> QED  BY <1>1, <2>1 DEF RefuseMessage, TypeInv, TypeOK, EndHasRun, PickBounded, chat, table, daemon, history
<1>2. CASE Restart(t)
  <2>1. Hold(NewRun, t) \in RunRecord
    BY NewRunType, HoldType
  <2>2. /\ run' \in [Runs -> RunRecord]
        /\ used' \in 0..MaxRuns /\ cur' \in 0..used' /\ last' \in 0..used'
        /\ used \in 0..used' /\ used + 1 \in 0..MaxRuns
    BY <1>2, <2>1, RegisterType DEF Restart, TypeInv
  <2>3. msg' \in [Texts -> Message]
    BY <1>2, <2>2, HoldCallType DEF Restart, TypeInv
  <2> QED  BY <1>2, <2>2, <2>3 DEF Restart, TypeInv, TypeOK, EndHasRun, PickBounded, chat, daemon, history
<1>3. CASE JoinStart(t)
  <2> DEFINE x == run[cur]
             y == IF x.pickRelaunch
                  THEN [x EXCEPT !.pickRelaunch = FALSE, !.reaches = FALSE, !.earlierPicks = pick.issued]
                  ELSE x
  <2>1. cur \in 1..used /\ cur \in 0..MaxRuns /\ x \in RunRecord /\ pick.issued \in 0..MaxPicks
    BY <1>3, Registry DEF JoinStart, TypeInv, TypeOK, Pick
  <2>2. y \in RunRecord
    <3>1. [x EXCEPT !.pickRelaunch = FALSE, !.reaches = FALSE, !.earlierPicks = pick.issued]
            \in RunRecord
      BY <2>1 DEF RunRecord
    <3> QED  BY <2>1, <3>1
  <2>3. run' = [run EXCEPT ![cur] = Hold(y, t)]
    BY <1>3 DEF JoinStart
  <2>4. run' \in [Runs -> RunRecord]
    BY <2>2, <2>3, HoldType, RunUpdate DEF TypeInv
  <2>5. x.earlyCancels \in Nat
    BY <2>1 DEF RunRecord
  <2>6. msg' \in [Texts -> Message]
    BY <1>3, <2>1, <2>5, HoldCallType DEF JoinStart, TypeInv
  <2> QED  BY <1>3, <2>4, <2>6 DEF JoinStart, TypeInv, TypeOK, EndHasRun, PickBounded, chat, table, daemon, history
<1>4. CASE JoinTurn(t)
  <2> DEFINE x == run[cur]
             y == [x EXCEPT !.unsent = Append(@, t), !.job = FALSE, !.own = FALSE,
                            !.steering = IF ~x.cancelAsked /\ Connected(x) THEN @ \union {t} ELSE @]
  <2>1. cur \in 1..used /\ cur \in 0..MaxRuns /\ x \in RunRecord
    BY <1>4, Registry DEF JoinTurn, TypeInv
  <2>2. y \in RunRecord
    <3>1. Append(x.unsent, t) \in Seq(Texts) /\ x.steering \union {t} \in SUBSET Texts
      BY <2>1 DEF RunRecord
    <3> QED  BY <2>1, <3>1 DEF RunRecord
  <2>3. run' = [run EXCEPT ![cur] = Touch(y)]
    BY <1>4 DEF JoinTurn
  <2>4. run' \in [Runs -> RunRecord]
    BY <2>2, <2>3, TouchType, RunUpdate DEF TypeInv
  <2>5. msg' \in [Texts -> Message]
    BY <1>4, MessageType DEF JoinTurn, TypeInv
  <2>6. WThen(UserEvent(t), cur, "call") \in Write
    BY <2>1, EventType, WriteType DEF Conts
  <2>7. writes' \in Seq(Write)
    BY <1>4, <2>6 DEF JoinTurn, TypeInv, TypeOK
  <2> QED  BY <1>4, <2>4, <2>5, <2>7 DEF JoinTurn, TypeInv, TypeOK, EndHasRun, PickBounded, chat, table, daemon, history
<1>5. CASE StartTurn(t)
  <2> DEFINE x == run[cur]
             y == [x EXCEPT !.turning = TRUE, !.job = FALSE, !.own = FALSE, !.ownStopped = FALSE]
  <2>1. cur \in 1..used /\ cur \in 0..MaxRuns /\ x \in RunRecord
    BY <1>5, Registry DEF StartTurn, TypeInv
  <2>2. y \in RunRecord
    BY <2>1 DEF RunRecord
  <2>3. run' = [run EXCEPT ![cur] = RunTurn(Touch(StaleAll(y)))]
    BY <1>5 DEF StartTurn
  <2>4. RunTurn(Touch(StaleAll(y))) \in RunRecord
    BY <2>2, StaleType, TouchType, RunTurnType
  <2>5. run' \in [Runs -> RunRecord]
    BY <2>3, <2>4, RunUpdate DEF TypeInv
  <2>6. msg' \in [Texts -> Message]
    BY <1>5, MessageType DEF StartTurn, TypeInv
  <2>7. WThen(UserEvent(t), cur, "call") \in Write
    BY <2>1, EventType, WriteType DEF Conts
  <2>8. writes' \in Seq(Write)
    BY <1>5, <2>7 DEF StartTurn, TypeInv, TypeOK
  <2>9. Append(x.unsent, t) \in Seq(Texts)
    BY <2>1 DEF RunRecord
  <2>10. got' \in [Texts -> Nat] /\ missed' \subseteq Texts
    BY <1>5, <2>9, PromptGotType DEF StartTurn, TypeInv
  <2> QED  BY <1>5, <2>5, <2>6, <2>8, <2>10 DEF StartTurn, TypeInv, TypeOK, EndHasRun, PickBounded, chat, table, daemon
<1> QED  BY <1>1, <1>2, <1>3, <1>4, <1>5 DEF Send

\* A message that joins a start keeps the types, however its waits end.
LEMMA HoldStepType ==
  ASSUME TypeInv, NEW r \in 1..used, NEW t \in Texts,
         HoldRefused(r, t) \/ HoldStopping(r, t) \/ HoldAgain(r, t) \/ HoldWrite(r, t)
  PROVE  TypeInv'
<1>1. r \in 0..MaxRuns /\ run[r] \in RunRecord
  BY Registry DEF TypeInv
<1>2. HoldFailed(run[r]) \in RunRecord /\ HoldFailed(Silence(run[r])) \in RunRecord
  BY <1>1, SilenceType, HoldFailedType
<1>3. CASE HoldRefused(r, t)
  <2>1. msg' \in [Texts -> Message]
    BY <1>3, MessageType DEF TypeInv, HoldRefused
  <2>2. run' \in [Runs -> RunRecord]
    BY <1>2, <1>3, RunUpdate DEF TypeInv, HoldRefused
  <2> QED  BY <1>3, <2>1, <2>2 DEF HoldRefused, TypeInv, TypeOK, EndHasRun, PickBounded, chat, table, daemon, history
<1>4. CASE HoldStopping(r, t)
  <2>1. msg' \in [Texts -> Message]
    BY <1>4, MessageType DEF TypeInv, HoldStopping
  <2>2. run' \in [Runs -> RunRecord]
    BY <1>2, <1>4, RunUpdate DEF TypeInv, HoldStopping
  <2>3. pick' \in Pick /\ PickBounded' /\ cur' \in 0..used
    <3>1. CASE ChatBusy(fold)
      <4>1. CASE pick.st = "waiting" /\ pick.run = r
        BY <1>4, <3>1, <4>1, PickOver DEF HoldStopping, TypeInv, TypeOK
      <4>2. CASE ~(pick.st = "waiting" /\ pick.run = r)
        BY <1>4, <3>1, <4>2 DEF HoldStopping, TypeInv, TypeOK, PickBounded
      <4> QED  BY <4>1, <4>2
    <3>2. CASE ~ChatBusy(fold)
      BY <1>4, <3>2, ForgetType DEF HoldStopping
    <3> QED  BY <3>1, <3>2
  <2> QED  BY <1>4, <2>1, <2>2, <2>3 DEF HoldStopping, TypeInv, TypeOK, EndHasRun, chat, table, daemon, history
<1>5. CASE HoldAgain(r, t)
  <2>1. msg' \in [Texts -> Message]
    BY <1>5 DEF HoldAgain, TypeInv, TypeOK, Message
  <2>2. run' \in [Runs -> RunRecord]
    BY <1>2, <1>5, RunUpdate DEF TypeInv, HoldAgain
  <2> QED  BY <1>5, <2>1, <2>2 DEF HoldAgain, TypeInv, TypeOK, EndHasRun, PickBounded, chat, table, daemon, history
<1>6. CASE HoldWrite(r, t)
  <2>1. msg' \in [Texts -> Message]
    BY <1>6, MessageType DEF TypeInv, HoldWrite
  <2>2. WThen(UserEvent(t), r, "hold") \in Write
    BY <1>1, HoldWriteType
  <2>3. writes' \in Seq(Write)
    BY <1>6, <2>2 DEF HoldWrite, TypeInv, TypeOK
  <2> QED  BY <1>6, <2>1, <2>3 DEF HoldWrite, TypeInv, TypeOK, EndHasRun, PickBounded, chat, table, daemon, history
<1> QED  BY <1>3, <1>4, <1>5, <1>6

-----------------------------------------------------------------------------
(* The start of a run. *)

\* The steps of a start up to the spawn keep the types.
LEMMA LaunchStepType ==
  ASSUME TypeInv, NEW r \in 1..used,
         Reopen(r) \/ LaunchFails(r) \/ LaunchOver(r) \/ Spawn(r)
  PROVE  TypeInv'
<1>1. r \in Runs /\ r \in 0..MaxRuns /\ run[r] \in RunRecord
  BY Registry DEF TypeInv
<1>2. CASE Reopen(r)
  <2> DEFINE x == run[r]
             before == TextsBefore(x)
             drops == x.earlyCancels > 0 /\ answers.answered
             texts == IF drops THEN <<>> ELSE before
             y == [x EXCEPT !.unsent = texts]
  <2>1. before \in Seq(Texts)
    <3>1. CASE x.prev = NoRun
      BY <3>1 DEF TextsBefore, TypeInv, TypeOK, Answers
    <3>2. CASE x.prev # NoRun
      <4>1. x.prev \in Runs
        BY <1>1, <3>2 DEF RunRecord, Runs, NoRun
      <4>2. run[x.prev] \in RunRecord
        BY <4>1 DEF TypeInv, TypeOK
      <4> QED  BY <3>2, <4>2 DEF TextsBefore, RunRecord
    <3> QED  BY <3>1, <3>2
  <2>2. y \in RunRecord
    <3>1. texts \in Seq(Texts)
      BY <2>1
    <3> HIDE DEF texts
    <3> QED  BY <1>1, <3>1 DEF RunRecord
  <2>3. cancelled' \subseteq Texts
    <3>1. ToSet(before) \subseteq Texts
      BY <2>1 DEF ToSet
    <3> QED  BY <1>2, <3>1 DEF Reopen, TypeInv, TypeOK
  <2>4. CASE stopping \/ x.quiet
    <3>1. run' = [run EXCEPT ![r] = Overtaken(y)] /\ Forget(r) /\ writes' = writes
      BY <1>2, <2>4 DEF Reopen
    <3>2. run' \in [Runs -> RunRecord]
      BY <2>2, <3>1, OvertakenType, RunUpdate DEF TypeInv
    <3> QED  BY <1>2, <2>3, <3>1, <3>2, ForgetType DEF Reopen, TypeInv, TypeOK, EndHasRun, chat, table, daemon
  <2>5. CASE ~(stopping \/ x.quiet)
    <3>1. /\ run' = [run EXCEPT ![r] = [y EXCEPT !.pc = "interrupt"]]
          /\ writes' = Append(writes, WThen(Plain("interrupted"), r, "reopen"))
          /\ cur' = cur /\ pick' = pick
      BY <1>2, <2>5 DEF Reopen
    <3>2. run' \in [Runs -> RunRecord]
      BY <2>2, <3>1, PlaceType, RunUpdate DEF TypeInv, Places
    <3>3. WThen(Plain("interrupted"), r, "reopen") \in Write
      BY <1>1, EventType, WriteType DEF Conts, EventKinds
    <3>4. writes' \in Seq(Write)
      BY <3>1, <3>3 DEF TypeInv, TypeOK
    <3> QED  BY <1>2, <2>3, <3>1, <3>2, <3>4
             DEF Reopen, TypeInv, TypeOK, EndHasRun, PickBounded, chat, table, daemon
  <2> QED  BY <2>4, <2>5
<1>3. CASE LaunchFails(r)
  <2>1. run' \in [Runs -> RunRecord]
    BY <1>1, <1>3, FailOverType, RunUpdate DEF LaunchFails, TypeInv
  <2>2. writes' \in Seq(Write)
    BY <1>1, <1>3, FailWritesType DEF LaunchFails, TypeInv, TypeOK
  <2>3. cur' \in 0..used /\ pick' \in Pick /\ PickBounded'
    BY <1>3, ForgetType DEF LaunchFails, TypeInv, TypeOK, PickBounded
  <2> QED  BY <1>3, <2>1, <2>2, <2>3 DEF LaunchFails, TypeInv, TypeOK, EndHasRun, chat, table, daemon, history
<1>4. CASE LaunchOver(r)
  <2>1. run' \in [Runs -> RunRecord]
    BY <1>1, <1>4, PlaceType, RunUpdate DEF LaunchOver, TypeInv, Places
  <2>2. pick' \in Pick /\ PickBounded'
    <3>1. CASE pick' = pick
      BY <3>1, PickType
    <3>2. CASE pick' # pick
      BY <1>4, <3>2, PickOver DEF LaunchOver
    <3> QED  BY <3>1, <3>2
  <2> QED  BY <1>4, <2>1, <2>2 DEF LaunchOver, TypeInv, TypeOK, EndHasRun, chat, table, daemon, history
<1>5. CASE Spawn(r)
  <2>1. [run[r] EXCEPT !.pc = "init", !.proc = "alive", !.idle = "on"] \in RunRecord
    BY <1>1 DEF RunRecord, Places, AtAgent, Processes
  <2>2. run' = [run EXCEPT ![r] = [run[r] EXCEPT !.pc = "init", !.proc = "alive", !.idle = "on"]]
    BY <1>5 DEF Spawn
  <2>3. run' \in [Runs -> RunRecord]
    BY <2>1, <2>2, RunUpdate DEF TypeInv
  <2>4. ends' \in 0..used
    BY <1>5, Registry DEF Spawn, TypeInv
  <2> QED  BY <1>5, <2>3, <2>4 DEF Spawn, TypeInv, TypeOK, EndHasRun, PickBounded, chat, table, daemon, history
<1> QED  BY <1>2, <1>3, <1>4, <1>5

\* The steps of a start that open the session keep the types.
LEMMA SessionStepType ==
  ASSUME TypeInv, NEW r \in 1..used,
         \/ Initialized(r) \/ SessionResumed(r) \/ SessionLost(r) \/ SessionCreated(r)
         \/ AgentFails(r)
  PROVE  TypeInv'
<1>1. r \in 0..MaxRuns /\ run[r] \in RunRecord /\ answers.unanswered \in Seq(Texts)
  BY Registry DEF TypeInv, TypeOK, Answers
<1>2. [run[r] EXCEPT !.pc = "create", !.unsent = answers.unanswered] \in RunRecord
  BY <1>1 DEF RunRecord, Places, AtAgent
<1>3. CASE Initialized(r)
  <2> DEFINE y == IF run[r].quiet THEN [run[r] EXCEPT !.pc = "over"] ELSE OpenSession(run[r])
  <2>1. y \in RunRecord
    BY <1>1, <1>2, PlaceType DEF OpenSession, Places, AtAgent
  <2>2. run' \in [Runs -> RunRecord]
    BY <1>3, <2>1, RunUpdate DEF Initialized, TypeInv
  <2> QED  BY <1>3, <2>2 DEF Initialized, TypeInv, TypeOK, EndHasRun, PickBounded, chat, table, daemon, history
<1>4. CASE SessionResumed(r)
  <2>1. run' \in [Runs -> RunRecord]
    BY <1>1, <1>4, PlaceType, RunUpdate DEF SessionResumed, TypeInv, Places
  <2> QED  BY <1>4, <2>1 DEF SessionResumed, TypeInv, TypeOK, EndHasRun, PickBounded, chat, table, daemon, history
<1>5. CASE SessionLost(r)
  <2>1. CASE answers.answered
    <3>1. run' \in [Runs -> RunRecord]
      BY <1>1, <1>5, <2>1, FailOverType, RunUpdate DEF SessionLost, TypeInv
    <3>2. writes' \in Seq(Write)
      <4>1. writes' = writes \o FailWrites(run[r], r)
        BY <1>5, <2>1 DEF SessionLost
      <4> QED  BY <1>1, <4>1, FailWritesType, WritesUpdate DEF TypeInv
    <3>3. cur' \in 0..used /\ pick' \in Pick /\ PickBounded'
      BY <1>5, <2>1, ForgetType DEF SessionLost, TypeInv, TypeOK, PickBounded
    <3> QED  BY <1>5, <3>1, <3>2, <3>3 DEF SessionLost, TypeInv, TypeOK, EndHasRun, chat, table, daemon, history
  <2>2. CASE ~answers.answered
    <3>1. run' = [run EXCEPT ![r] = [run[r] EXCEPT !.pc = "create", !.unsent = answers.unanswered]]
      BY <1>5, <2>2 DEF SessionLost
    <3>2. run' \in [Runs -> RunRecord]
      BY <1>2, <3>1, RunUpdate DEF TypeInv
    <3> QED  BY <1>5, <2>2, <3>2
             DEF SessionLost, TypeInv, TypeOK, EndHasRun, PickBounded, chat, table, daemon, history
  <2> QED  BY <2>1, <2>2
<1>6. CASE SessionCreated(r)
  <2>1. [run[r] EXCEPT !.pc = "store", !.created = TRUE] \in RunRecord
    BY <1>1 DEF RunRecord, Places
  <2>2. run' = [run EXCEPT ![r] = [run[r] EXCEPT !.pc = "store", !.created = TRUE]]
    BY <1>6 DEF SessionCreated
  <2>3. run' \in [Runs -> RunRecord]
    BY <2>1, <2>2, RunUpdate DEF TypeInv
  <2>4. WThen(Plain("other"), r, "session") \in Write
    BY <1>1, EventType, WriteType DEF Conts, EventKinds
  <2>5. writes' \in Seq(Write)
    BY <1>6, <2>4 DEF SessionCreated, TypeInv, TypeOK
  <2> QED  BY <1>6, <2>3, <2>5 DEF SessionCreated, TypeInv, TypeOK, EndHasRun, PickBounded, chat, table, daemon
<1>7. CASE AgentFails(r)
  <2>1. run' \in [Runs -> RunRecord]
    BY <1>1, <1>7, FailOverType, RunUpdate DEF AgentFails, TypeInv
  <2>2. writes' \in Seq(Write)
    BY <1>1, <1>7, FailWritesType DEF AgentFails, TypeInv, TypeOK
  <2>3. cur' \in 0..used /\ pick' \in Pick /\ PickBounded'
    BY <1>7, ForgetType DEF AgentFails, TypeInv, TypeOK, PickBounded
  <2> QED  BY <1>7, <2>1, <2>2, <2>3 DEF AgentFails, TypeInv, TypeOK, EndHasRun, chat, table, daemon, history
<1> QED  BY <1>3, <1>4, <1>5, <1>6, <1>7

\* The steps of a start that set the options keep the types.
LEMMA OptionStepType ==
  ASSUME TypeInv, NEW r \in 1..used,
         \/ OptionSent(r) \/ OptionAnswered(r) \/ OptionsQuiet(r)
         \/ OptionsDone(r) \/ PickOptionsDone(r) \/ HeldOver(r)
  PROVE  TypeInv'
<1>1. r \in 0..MaxRuns /\ run[r] \in RunRecord /\ answers.unanswered \in Seq(Texts)
  BY Registry DEF TypeInv, TypeOK, Answers
<1>2. ASSUME NEW x \in RunRecord
      PROVE  /\ FirstTurn(x) \in RunRecord /\ FirstTurnWrites(x, r) \in Seq(Write)
             /\ FirstTurnGot(x) \in [Texts -> Nat] /\ FirstTurnMissed(x) \subseteq Texts
             /\ FirstTurnCancelled(x) \subseteq Texts
  <2>1. x.unsent \in Seq(Texts)
    BY DEF RunRecord
  <2>2. PromptGot(x, x.unsent) \in [Texts -> Nat] /\ PromptMissed(x, x.unsent) \subseteq Texts
    BY <2>1, PromptGotType DEF TypeInv
  <2>3. ToSet(x.unsent) \subseteq Texts
    BY <2>1 DEF ToSet
  <2> QED  BY <1>1, <2>2, <2>3, FirstTurnType, FirstTurnWritesType
           DEF FirstTurnGot, FirstTurnMissed, FirstTurnCancelled, TypeInv, TypeOK
<1>3. CASE OptionSent(r)
  <2>1. run' \in [Runs -> RunRecord]
    BY <1>1, <1>3, PlaceType, RunUpdate DEF OptionSent, TypeInv, Places, AtAgent
  <2>2. pick' \in Pick /\ PickBounded'
    <3>1. CASE Connected(run[r])
      BY <1>3, <3>1 DEF OptionSent, TypeInv, TypeOK, PickBounded, Pick, WaitsFor
    <3>2. CASE ~Connected(run[r])
      BY <1>3, <3>2, PickOver DEF OptionSent, WaitsFor
    <3> QED  BY <3>1, <3>2
  <2> QED  BY <1>3, <2>1, <2>2 DEF OptionSent, TypeInv, TypeOK, EndHasRun, chat, table, daemon, history
<1>4. CASE OptionAnswered(r)
  <2>1. run' \in [Runs -> RunRecord]
    BY <1>1, <1>4, PlaceType, RunUpdate DEF OptionAnswered, TypeInv, Places
  <2>2. pick' \in Pick /\ PickBounded'
    BY <1>4 DEF OptionAnswered, TypeInv, TypeOK, PickBounded, Pick
  <2> QED  BY <1>4, <2>1, <2>2 DEF OptionAnswered, TypeInv, TypeOK, EndHasRun, chat, table, daemon, history
<1>5. CASE OptionsQuiet(r)
  <2>1. run' \in [Runs -> RunRecord]
    BY <1>1, <1>5, PlaceType, RunUpdate DEF OptionsQuiet, TypeInv, Places
  <2>2. pick' \in Pick /\ PickBounded'
    BY <1>5, PickType DEF OptionsQuiet
  <2> QED  BY <1>5, <2>1, <2>2 DEF OptionsQuiet, TypeInv, TypeOK, EndHasRun, chat, table, daemon, history
<1>6. CASE OptionsDone(r)
  <2> DEFINE x == [run[r] EXCEPT !.session = TRUE]
  <2>1. x \in RunRecord
    BY <1>1 DEF RunRecord
  <2>2. pick' \in Pick /\ PickBounded'
    BY <1>6, PickType DEF OptionsDone
  <2>3. CASE run[r].held # <<>>
    <3>1. /\ run' = [run EXCEPT ![r] = [x EXCEPT !.pc = "held"]]
          /\ writes' = writes /\ got' = got /\ missed' = missed /\ cancelled' = cancelled
      BY <1>1, <1>6, <2>3 DEF OptionsDone, RunRecord
    <3>2. run' \in [Runs -> RunRecord]
      BY <2>1, <3>1, PlaceType, RunUpdate DEF TypeInv, Places
    <3> QED  BY <1>6, <2>2, <3>1, <3>2 DEF OptionsDone, TypeInv, TypeOK, EndHasRun, chat, table, daemon
  <2>4. CASE run[r].held = <<>>
    <3>1. /\ run' = [run EXCEPT ![r] = FirstTurn(x)]
          /\ writes' = writes \o FirstTurnWrites(x, r)
          /\ got' = FirstTurnGot(x) /\ missed' = FirstTurnMissed(x) /\ cancelled' = FirstTurnCancelled(x)
      BY <1>1, <1>6, <2>4 DEF OptionsDone, RunRecord
    <3> HIDE DEF x
    <3>2. run' \in [Runs -> RunRecord] /\ writes' \in Seq(Write)
      BY <1>2, <2>1, <3>1, RunUpdate, WritesUpdate DEF TypeInv
    <3>3. got' \in [Texts -> Nat] /\ missed' \subseteq Texts /\ cancelled' \subseteq Texts
      BY <1>2, <2>1, <3>1
    <3> QED  BY <1>6, <2>2, <3>2, <3>3 DEF OptionsDone, TypeInv, TypeOK, EndHasRun, chat, table, daemon
  <2> QED  BY <2>3, <2>4
<1>7. CASE PickOptionsDone(r)
  <2> DEFINE x == [run[r] EXCEPT !.session = TRUE, !.reaches = TRUE]
  <2>1. x \in RunRecord
    BY <1>1 DEF RunRecord
  <2>2. CASE fold.stopped # "none"
    <3>1. /\ run' = [run EXCEPT ![r] = [x EXCEPT !.pc = "resumed"]]
          /\ writes' = Append(writes, WThen(Plain("resumed"), r, "resumed"))
          /\ pick' = pick
      BY <1>7, <2>2 DEF PickOptionsDone
    <3>2. run' \in [Runs -> RunRecord]
      BY <2>1, <3>1, PlaceType, RunUpdate DEF TypeInv, Places
    <3>3. WThen(Plain("resumed"), r, "resumed") \in Write
      BY <1>1, EventType, WriteType DEF Conts, EventKinds
    <3>4. writes' \in Seq(Write)
      BY <3>1, <3>3 DEF TypeInv, TypeOK
    <3> QED  BY <1>7, <3>1, <3>2, <3>4
             DEF PickOptionsDone, TypeInv, TypeOK, EndHasRun, PickBounded, chat, table, daemon, history
  <2>3. CASE fold.stopped = "none"
    <3>1. run' = [run EXCEPT ![r] = PickRelaunchOver(x)] /\ AnswerPick(r) /\ writes' = writes
      BY <1>7, <2>3 DEF PickOptionsDone
    <3>2. run' \in [Runs -> RunRecord]
      BY <2>1, <3>1, PickRelaunchOverType, RunUpdate DEF TypeInv
    <3> QED  BY <1>7, <3>1, <3>2, PickType
             DEF PickOptionsDone, TypeInv, TypeOK, EndHasRun, chat, table, daemon, history
  <2> QED  BY <2>2, <2>3
<1>8. CASE HeldOver(r)
  <2>1. CASE run[r].quiet \/ stopping
    <3>1. /\ run' = [run EXCEPT ![r] = [run[r] EXCEPT !.pc = "over"]]
          /\ writes' = writes /\ got' = got /\ missed' = missed /\ cancelled' = cancelled
      BY <1>8, <2>1 DEF HeldOver
    <3>2. run' \in [Runs -> RunRecord]
      BY <1>1, <3>1, PlaceType, RunUpdate DEF TypeInv, Places
    <3> QED  BY <1>8, <3>1, <3>2 DEF HeldOver, TypeInv, TypeOK, EndHasRun, PickBounded, chat, table, daemon
  <2>2. CASE ~(run[r].quiet \/ stopping)
    <3> DEFINE texts == IF run[r].created THEN answers.unanswered ELSE run[r].unsent
               x == [run[r] EXCEPT !.unsent = texts]
    <3>1. texts \in Seq(Texts)
      BY <1>1 DEF RunRecord
    <3>2. x \in RunRecord
      <4> HIDE DEF texts
      <4> QED  BY <1>1, <3>1 DEF RunRecord
    <3>3. /\ run' = [run EXCEPT ![r] = FirstTurn(x)]
          /\ writes' = writes \o FirstTurnWrites(x, r)
          /\ got' = FirstTurnGot(x) /\ missed' = FirstTurnMissed(x) /\ cancelled' = FirstTurnCancelled(x)
      BY <1>8, <2>2 DEF HeldOver
    <3> HIDE DEF x
    <3>4. run' \in [Runs -> RunRecord] /\ writes' \in Seq(Write)
      BY <1>2, <3>2, <3>3, RunUpdate, WritesUpdate DEF TypeInv
    <3>5. got' \in [Texts -> Nat] /\ missed' \subseteq Texts /\ cancelled' \subseteq Texts
      BY <1>2, <3>2, <3>3
    <3> QED  BY <1>8, <3>4, <3>5 DEF HeldOver, TypeInv, TypeOK, EndHasRun, PickBounded, chat, table, daemon
  <2> QED  BY <2>1, <2>2
<1> QED  BY <1>3, <1>4, <1>5, <1>6, <1>7, <1>8

-----------------------------------------------------------------------------
(* A turn, and what the agent sends. *)

\* The steps of a turn keep the types.
LEMMA TurnStepType ==
  ASSUME TypeInv, NEW r \in 1..used,
         \/ \E reason \in BOOLEAN : PromptReturned(r, reason)
         \/ \E t \in Texts : AgentInjects(r, t) \/ SteerAnswered(r, t)
         \/ NextPrompt(r)
         \/ \E jobs \in BOOLEAN : TurnOver(r, jobs)
  PROVE  TypeInv'
<1>1. r \in 0..MaxRuns /\ run[r] \in RunRecord
  BY Registry DEF TypeInv
<1>2. ASSUME NEW reason \in BOOLEAN, PromptReturned(r, reason) PROVE TypeInv'
  <2> DEFINE y == [run[r] EXCEPT !.pc = "check", !.endCheck = TRUE, !.turnCancelled = reason]
  <2>1. y \in RunRecord
    BY <1>1 DEF RunRecord, Places
  <2>2. run' = [run EXCEPT ![r] = y]
    BY <1>2 DEF PromptReturned
  <2>3. run' \in [Runs -> RunRecord]
    BY <2>1, <2>2, RunUpdate DEF TypeInv
  <2> QED  BY <1>2, <2>3 DEF PromptReturned, TypeInv, TypeOK, EndHasRun, PickBounded, chat, table, daemon, history
<1>3. ASSUME NEW t \in Texts, AgentInjects(r, t) PROVE TypeInv'
  <2>1. run[r].injected \union {t} \in SUBSET Texts /\ <<t>> \in Seq(Texts)
    BY <1>1 DEF RunRecord
  <2>2. [run[r] EXCEPT !.injected = run[r].injected \union {t}] \in RunRecord
    BY <1>1, <2>1 DEF RunRecord
  <2>3. run' = [run EXCEPT ![r] = [run[r] EXCEPT !.injected = run[r].injected \union {t}]]
    BY <1>3 DEF AgentInjects
  <2>4. run' \in [Runs -> RunRecord]
    BY <2>2, <2>3, RunUpdate DEF TypeInv
  <2>5. got' \in [Texts -> Nat]
    BY <1>3, <2>1, GotByType DEF AgentInjects, TypeInv
  <2> QED  BY <1>3, <2>4, <2>5 DEF AgentInjects, TypeInv, TypeOK, EndHasRun, PickBounded, chat, table, daemon
<1>4. ASSUME NEW t \in Texts, SteerAnswered(r, t) PROVE TypeInv'
  <2> DEFINE steering == run[r].steering \ {t}
             injected == run[r].injected \ {t}
             texts == IF t \in run[r].injected THEN Without(run[r].unsent, t) ELSE run[r].unsent
             y == [run[r] EXCEPT !.steering = steering, !.injected = injected, !.unsent = texts]
  <2>1. texts \in Seq(Texts)
    <3>1. run[r].unsent \in Seq(Texts)
      BY <1>1 DEF RunRecord
    <3>2. Without(run[r].unsent, t) \in Seq(Texts)
      BY <3>1, WithoutType
    <3> QED  BY <3>1, <3>2
  <2>2. steering \in SUBSET Texts /\ injected \in SUBSET Texts
    BY <1>1 DEF RunRecord
  <2>3. y \in RunRecord
    <3> HIDE DEF texts, steering, injected
    <3> QED  BY <1>1, <2>1, <2>2 DEF RunRecord
  <2>4. run' = [run EXCEPT ![r] = y]
    BY <1>4 DEF SteerAnswered
  <2>5. run' \in [Runs -> RunRecord]
    BY <2>3, <2>4, RunUpdate DEF TypeInv
  <2> QED  BY <1>4, <2>5 DEF SteerAnswered, TypeInv, TypeOK, EndHasRun, PickBounded, chat, table, daemon, history
<1>5. CASE NextPrompt(r)
  <2>1. CASE stopping
    <3>1. [run[r] EXCEPT !.pc = "over", !.endCheck = FALSE] \in RunRecord
      BY <1>1 DEF RunRecord, Places
    <3>2. /\ run' = [run EXCEPT ![r] = [run[r] EXCEPT !.pc = "over", !.endCheck = FALSE]]
          /\ got' = got /\ missed' = missed
      BY <1>5, <2>1 DEF NextPrompt
    <3>3. run' \in [Runs -> RunRecord]
      BY <3>1, <3>2, RunUpdate DEF TypeInv
    <3> QED  BY <1>5, <3>2, <3>3 DEF NextPrompt, TypeInv, TypeOK, EndHasRun, PickBounded, chat, table, daemon
  <2>2. CASE ~stopping
    <3>1. [run[r] EXCEPT !.endCheck = FALSE] \in RunRecord /\ run[r].unsent \in Seq(Texts)
      BY <1>1 DEF RunRecord
    <3>2. /\ run' = [run EXCEPT ![r] = RunTurn([run[r] EXCEPT !.endCheck = FALSE])]
          /\ got' = PromptGot(run[r], run[r].unsent)
          /\ missed' = PromptMissed(run[r], run[r].unsent)
      BY <1>5, <2>2 DEF NextPrompt
    <3>3. run' \in [Runs -> RunRecord] /\ got' \in [Texts -> Nat] /\ missed' \subseteq Texts
      BY <3>1, <3>2, RunTurnType, RunUpdate, PromptGotType DEF TypeInv
    <3> QED  BY <1>5, <3>3 DEF NextPrompt, TypeInv, TypeOK, EndHasRun, PickBounded, chat, table, daemon
  <2> QED  BY <2>1, <2>2
<1>6. ASSUME NEW jobs \in BOOLEAN, TurnOver(r, jobs) PROVE TypeInv'
  <2> DEFINE x == [run[r] EXCEPT !.endCheck = FALSE]
             y == IF jobs THEN SetBackground(x, TRUE, FALSE) ELSE x
             said == IF jobs THEN SetBackgroundWrites(x, r, TRUE, FALSE) ELSE <<>>
  <2>1. x \in RunRecord
    BY <1>1 DEF RunRecord
  <2>2. run' = [run EXCEPT ![r] = EndTurn(y)] /\ writes' = writes \o said \o EndTurnWrites(y, r)
    BY <1>6 DEF TurnOver
  <2>3. y \in RunRecord /\ said \in Seq(Write)
    <3> HIDE DEF x
    <3>1. SetBackground(x, TRUE, FALSE) \in RunRecord
      BY <2>1, SetBackgroundType
    <3>2. SetBackgroundWrites(x, r, TRUE, FALSE) \in Seq(Write)
      BY <1>1, <2>1, SetBackgroundWritesType
    <3>3. <<>> \in Seq(Write)
      OBVIOUS
    <3> QED  BY <2>1, <3>1, <3>2, <3>3
  <2> HIDE DEF y, said
  <2>4. run' \in [Runs -> RunRecord]
    BY <2>2, <2>3, EndTurnType, RunUpdate DEF TypeInv
  <2>5. EndTurnWrites(y, r) \in Seq(Write)
    BY <1>1, <2>3, EndTurnWritesType
  <2>6. writes' \in Seq(Write)
    BY <2>2, <2>3, <2>5 DEF TypeInv, TypeOK
  <2> QED  BY <1>6, <2>4, <2>6 DEF TurnOver, TypeInv, TypeOK, EndHasRun, PickBounded, chat, table, daemon, history
<1> QED  BY <1>2, <1>3, <1>4, <1>5, <1>6

\* What the agent sends on its own, and the checks of its background, keep the types.
LEMMA BackgroundStepType ==
  ASSUME TypeInv, NEW r \in 1..used,
         \/ AgentWorks(r) \/ OwnOutput(r) \/ OwnTurnMarker(r)
         \/ \E jobs \in BOOLEAN : MarkerChecked(r, jobs) \/ StopChecked(r, jobs)
  PROVE  TypeInv'
<1>1. r \in 0..MaxRuns /\ run[r] \in RunRecord
  BY Registry DEF TypeInv
<1>2. <<>> \in Seq(Write)
  OBVIOUS
<1>3. CASE AgentWorks(r)
  <2>1. run' \in [Runs -> RunRecord]
    BY <1>1, <1>3, TouchType, RunUpdate DEF AgentWorks, TypeInv
  <2>2. writes' \in Seq(Write)
    BY <1>1, <1>3, WorkWritesType, WritesUpdate DEF AgentWorks, TypeInv
  <2> QED  BY <1>3, <2>1, <2>2 DEF AgentWorks, TypeInv, TypeOK, EndHasRun, PickBounded, chat, table, daemon, history
<1>4. CASE OwnOutput(r)
  <2> DEFINE x == StaleMarker(Touch(run[r]))
             y == IF x.ownStopped THEN x ELSE SetBackground(x, x.job, TRUE)
             said == IF x.ownStopped THEN <<>> ELSE SetBackgroundWrites(x, r, x.job, TRUE)
  <2>1. run' = [run EXCEPT ![r] = y] /\ writes' = writes \o said \o WorkWrites(r)
    BY <1>4 DEF OwnOutput
  <2>2. x \in RunRecord
    BY <1>1, TouchType, StaleType
  <2> HIDE DEF x
  <2>3. x.job \in BOOLEAN
    BY <2>2 DEF RunRecord
  <2>4. y \in RunRecord /\ said \in Seq(Write)
    BY <1>1, <1>2, <2>2, <2>3, SetBackgroundType, SetBackgroundWritesType
  <2> HIDE DEF y, said
  <2>5. run' \in [Runs -> RunRecord]
    BY <2>1, <2>4, RunUpdate DEF TypeInv
  <2>6. WorkWrites(r) \in Seq(Write)
    BY <1>1, WorkWritesType
  <2>7. writes' \in Seq(Write)
    BY <2>1, <2>4, <2>6 DEF TypeInv, TypeOK
  <2> QED  BY <1>4, <2>5, <2>7 DEF OwnOutput, TypeInv, TypeOK, EndHasRun, PickBounded, chat, table, daemon, history
<1>5. CASE OwnTurnMarker(r)
  <2> DEFINE y == [run[r] EXCEPT !.ownStopped = FALSE, !.marker = IF run[r].own THEN "on" ELSE run[r].marker]
  <2>1. y \in RunRecord
    <3>1. (IF run[r].own THEN "on" ELSE run[r].marker) \in Checks
      BY <1>1 DEF RunRecord, Checks
    <3>2. ASSUME NEW m \in Checks PROVE [run[r] EXCEPT !.ownStopped = FALSE, !.marker = m] \in RunRecord
      BY <1>1 DEF RunRecord
    <3> QED  BY <3>1, <3>2
  <2>2. run' = [run EXCEPT ![r] = Touch(y)]
    BY <1>5 DEF OwnTurnMarker
  <2>3. run' \in [Runs -> RunRecord]
    BY <2>1, <2>2, TouchType, RunUpdate DEF TypeInv
  <2> QED  BY <1>5, <2>3 DEF OwnTurnMarker, TypeInv, TypeOK, EndHasRun, PickBounded, chat, table, daemon, history
<1>6. ASSUME NEW jobs \in BOOLEAN, NEW x \in RunRecord, NEW holds \in BOOLEAN,
             run' = [run EXCEPT ![r] = IF holds THEN SetBackground(x, jobs, FALSE) ELSE x],
             writes' = writes \o (IF holds THEN SetBackgroundWrites(x, r, jobs, FALSE) ELSE <<>>)
      PROVE  run' \in [Runs -> RunRecord] /\ writes' \in Seq(Write)
  <2>1. /\ (IF holds THEN SetBackground(x, jobs, FALSE) ELSE x) \in RunRecord
        /\ (IF holds THEN SetBackgroundWrites(x, r, jobs, FALSE) ELSE <<>>) \in Seq(Write)
    BY <1>1, <1>2, SetBackgroundType, SetBackgroundWritesType
  <2> QED  BY <1>6, <2>1, RunUpdate, WritesUpdate DEF TypeInv
<1>7. ASSUME NEW jobs \in BOOLEAN, MarkerChecked(r, jobs) PROVE TypeInv'
  <2> DEFINE x == [run[r] EXCEPT !.marker = "off"]
             holds == run[r].marker = "on" /\ cur = r /\ run[r].stopper = "off"
  <2>1. x \in RunRecord /\ holds \in BOOLEAN
    BY <1>1 DEF RunRecord, Checks
  <2>2. /\ run' = [run EXCEPT ![r] = IF holds THEN SetBackground(x, jobs, FALSE) ELSE x]
        /\ writes' = writes \o (IF holds THEN SetBackgroundWrites(x, r, jobs, FALSE) ELSE <<>>)
    BY <1>7 DEF MarkerChecked
  <2> HIDE DEF x, holds
  <2>3. run' \in [Runs -> RunRecord] /\ writes' \in Seq(Write)
    BY <1>6, <2>1, <2>2
  <2> QED  BY <1>7, <2>3 DEF MarkerChecked, TypeInv, TypeOK, EndHasRun, PickBounded, chat, table, daemon, history
<1>8. ASSUME NEW jobs \in BOOLEAN, StopChecked(r, jobs) PROVE TypeInv'
  <2> DEFINE x == [run[r] EXCEPT !.stopper = "off"]
             holds == run[r].stopper = "on" /\ cur = r
  <2>1. x \in RunRecord /\ holds \in BOOLEAN
    BY <1>1 DEF RunRecord, Checks
  <2>2. /\ run' = [run EXCEPT ![r] = IF holds THEN SetBackground(x, jobs, FALSE) ELSE x]
        /\ writes' = writes \o (IF holds THEN SetBackgroundWrites(x, r, jobs, FALSE) ELSE <<>>)
    BY <1>8 DEF StopChecked
  <2> HIDE DEF x, holds
  <2>3. run' \in [Runs -> RunRecord] /\ writes' \in Seq(Write)
    BY <1>6, <2>1, <2>2
  <2> QED  BY <1>8, <2>3 DEF StopChecked, TypeInv, TypeOK, EndHasRun, PickBounded, chat, table, daemon, history
<1> QED  BY <1>3, <1>4, <1>5, <1>7, <1>8

\* A request of the agent, and its resolution, keep the types.
LEMMA RequestStepType ==
  ASSUME TypeInv, NEW r \in 1..used, NEW q \in Requests, Ask(r, q) \/ Resolve(r, q)
  PROVE  TypeInv'
<1>1. r \in 0..MaxRuns /\ run[r] \in RunRecord
  BY Registry DEF TypeInv
<1>2. ASSUME NEW qs \in SUBSET Requests PROVE [run[r] EXCEPT !.open = qs] \in RunRecord
  BY <1>1 DEF RunRecord
<1>3. run[r].open \union {q} \in SUBSET Requests /\ run[r].open \ {q} \in SUBSET Requests
  BY <1>1 DEF RunRecord
<1>4. {q} \in SUBSET Requests
  OBVIOUS
<1>5. W(AskEvent(q), r) \in Write /\ W(ResolvedEvent({q}), r) \in Write
  BY <1>1, <1>4, EventType, WriteType
<1>6. CASE Ask(r, q)
  <2> DEFINE y == [run[r] EXCEPT !.open = run[r].open \union {q}]
  <2>0. run' = [run EXCEPT ![r] = Touch(y)]
    BY <1>6 DEF Ask
  <2>1. run' \in [Runs -> RunRecord]
    <3>1. y \in RunRecord
      BY <1>2, <1>3
    <3> QED  BY <2>0, <3>1, TouchType, RunUpdate DEF TypeInv
  <2>2. writes' \in Seq(Write)
    BY <1>5, <1>6 DEF Ask, TypeInv, TypeOK
  <2> QED  BY <1>6, <2>1, <2>2 DEF Ask, TypeInv, TypeOK, EndHasRun, PickBounded, chat, table, daemon, history
<1>7. CASE Resolve(r, q)
  <2> DEFINE y == [run[r] EXCEPT !.open = run[r].open \ {q}]
  <2>0. run' = [run EXCEPT ![r] = Touch(y)]
    BY <1>7 DEF Resolve
  <2>1. run' \in [Runs -> RunRecord]
    <3>1. y \in RunRecord
      BY <1>2, <1>3
    <3> QED  BY <2>0, <3>1, TouchType, RunUpdate DEF TypeInv
  <2>2. writes' \in Seq(Write)
    BY <1>5, <1>7 DEF Resolve, TypeInv, TypeOK
  <2> QED  BY <1>7, <2>1, <2>2 DEF Resolve, TypeInv, TypeOK, EndHasRun, PickBounded, chat, table, daemon, history
<1> QED  BY <1>6, <1>7

-----------------------------------------------------------------------------
(* The end of an agent process, and the idle stop. *)

\* The steps of a process that ends keep the types.
LEMMA ProcessStepType ==
  ASSUME TypeInv, NEW r \in 1..used,
         \/ ConnectionCut(r) \/ OnExit(r) \/ GroupEnded(r)
         \/ \E clean \in BOOLEAN : Exit(r, clean)
  PROVE  TypeInv'
<1>1. r \in 0..MaxRuns /\ run[r] \in RunRecord /\ run[r].steering \subseteq Texts
  BY Registry DEF TypeInv, RunRecord
<1>2. ConnectionLost(run[r]) \in RunRecord
  BY <1>1, ConnectionLostType
<1>3. CASE ConnectionCut(r)
  <2>1. run' = [run EXCEPT ![r] = [ConnectionLost(run[r]) EXCEPT !.proc = "cut"]]
    BY <1>3 DEF ConnectionCut
  <2>2. run' \in [Runs -> RunRecord]
    <3>1. ASSUME NEW x \in RunRecord PROVE [x EXCEPT !.proc = "cut"] \in RunRecord
      BY DEF RunRecord, Processes
    <3> QED  BY <1>2, <2>1, <3>1, RunUpdate DEF TypeInv
  <2>3. pick' \in Pick /\ PickBounded'
    BY <1>3, PickType DEF ConnectionCut
  <2>4. left' \in [Bounded -> Nat]
    BY <1>3, SpendType DEF Bounded, ConnectionCut, TypeInv
  <2> QED  BY <1>1, <1>3, <2>2, <2>3, <2>4 DEF ConnectionCut, TypeInv, TypeOK, EndHasRun, chat, table, daemon
<1>4. ASSUME NEW clean \in BOOLEAN, Exit(r, clean) PROVE TypeInv'
  <2>1. run' = [run EXCEPT ![r] = [ConnectionLost(run[r]) EXCEPT !.proc = "exited", !.clean = clean]]
    BY <1>4 DEF Exit
  <2>2. run' \in [Runs -> RunRecord]
    <3>1. ASSUME NEW x \in RunRecord
          PROVE  [x EXCEPT !.proc = "exited", !.clean = clean] \in RunRecord
      BY DEF RunRecord, Processes
    <3> QED  BY <1>2, <2>1, <3>1, RunUpdate DEF TypeInv
  <2>3. pick' \in Pick /\ PickBounded'
    BY <1>4, PickType DEF Exit
  <2>4. left' \in [Bounded -> Nat]
    BY <1>4, SpendType DEF Bounded, Exit, TypeInv, TypeOK
  <2> QED  BY <1>1, <1>4, <2>2, <2>3, <2>4 DEF Exit, TypeInv, TypeOK, EndHasRun, chat, table, daemon
<1>5. CASE OnExit(r)
  <2> DEFINE x == [run[r] EXCEPT !.handled = TRUE]
             y == IF ExitFails(x) THEN Fail(x) ELSE SetBackground(x, FALSE, FALSE)
             said == IF ExitFails(x) THEN FailWrites(x, r) ELSE SetBackgroundWrites(x, r, FALSE, FALSE)
  <2>1. x \in RunRecord
    BY <1>1 DEF RunRecord
  <2>2. run' = [run EXCEPT ![r] = [y EXCEPT !.open = {}, !.idle = "off"]] /\ writes' = writes \o said
    BY <1>5 DEF OnExit
  <2> HIDE DEF x
  <2>3. y \in RunRecord
    BY <2>1, FailType, SetBackgroundType
  <2>4. said \in Seq(Write)
    BY <1>1, <2>1, FailWritesType, SetBackgroundWritesType
  <2> HIDE DEF y, said
  <2>5. [y EXCEPT !.open = {}, !.idle = "off"] \in RunRecord
    BY <2>3 DEF RunRecord
  <2>6. run' \in [Runs -> RunRecord] /\ writes' \in Seq(Write)
    BY <2>2, <2>4, <2>5, RunUpdate, WritesUpdate DEF TypeInv
  <2>7. cur' \in 0..used /\ pick' \in Pick /\ PickBounded'
    BY <1>5, ForgetType DEF OnExit
  <2> QED  BY <1>5, <2>6, <2>7 DEF OnExit, TypeInv, TypeOK, EndHasRun, chat, table, daemon, history
<1>6. CASE GroupEnded(r)
  <2>1. [run[r] EXCEPT !.proc = "ended"] \in RunRecord
    BY <1>1 DEF RunRecord, Processes
  <2>2. run' = [run EXCEPT ![r] = [run[r] EXCEPT !.proc = "ended"]]
    BY <1>6 DEF GroupEnded
  <2>3. run' \in [Runs -> RunRecord]
    BY <2>1, <2>2, RunUpdate DEF TypeInv
  <2> QED  BY <1>6, <2>3 DEF GroupEnded, TypeInv, TypeOK, EndHasRun, PickBounded, chat, table, daemon, history
<1> QED  BY <1>3, <1>4, <1>5, <1>6

\* The steps of the idle stop keep the types.
LEMMA IdleStepType ==
  ASSUME TypeInv, NEW r \in 1..used,
         \/ IdleExpires(r) \/ IdleOvertaken(r)
         \/ \E jobs, ended, recent \in BOOLEAN : IdleChecked(r, jobs, ended, recent)
  PROVE  TypeInv'
<1>1. r \in 0..MaxRuns /\ run[r] \in RunRecord /\ run[r].own \in BOOLEAN
  BY Registry DEF TypeInv, RunRecord
<1>2. ASSUME NEW x \in RunRecord, NEW i \in {"off", "on", "check", "stale"}
      PROVE  [x EXCEPT !.idle = i] \in RunRecord
  BY DEF RunRecord
<1>3. CASE IdleExpires(r)
  <2>1. CASE HasBackground
    <3>1. run' = [run EXCEPT ![r] = [run[r] EXCEPT !.idle = "check"]] /\ cur' = cur /\ pick' = pick
      BY <1>3, <2>1 DEF IdleExpires
    <3>2. run' \in [Runs -> RunRecord]
      BY <1>1, <1>2, <3>1, RunUpdate DEF TypeInv
    <3> QED  BY <1>3, <3>1, <3>2
             DEF IdleExpires, TypeInv, TypeOK, EndHasRun, PickBounded, chat, table, daemon, history
  <2>2. CASE ~HasBackground
    <3>1. run' = [run EXCEPT ![r] = Quit(run[r])] /\ Forget(r)
      BY <1>3, <2>2 DEF IdleExpires
    <3>2. run' \in [Runs -> RunRecord]
      BY <1>1, <3>1, QuitType, RunUpdate DEF TypeInv
    <3>3. cur' \in 0..used /\ pick' \in Pick /\ PickBounded'
      BY <3>1, ForgetType
    <3> QED  BY <1>3, <3>2, <3>3 DEF IdleExpires, TypeInv, TypeOK, EndHasRun, chat, table, daemon, history
  <2> QED  BY <2>1, <2>2
<1>4. CASE IdleOvertaken(r)
  <2> DEFINE i == IF stopping THEN "off" ELSE "on"
  <2>1. run' = [run EXCEPT ![r] = [run[r] EXCEPT !.idle = i]]
    BY <1>4 DEF IdleOvertaken
  <2>2. [run[r] EXCEPT !.idle = i] \in RunRecord
    <3>1. i \in {"off", "on", "check", "stale"}
      OBVIOUS
    <3> HIDE DEF i
    <3> QED  BY <1>1, <1>2, <3>1
  <2>3. run' \in [Runs -> RunRecord]
    BY <2>1, <2>2, RunUpdate DEF TypeInv
  <2> QED  BY <1>4, <2>3 DEF IdleOvertaken, TypeInv, TypeOK, EndHasRun, PickBounded, chat, table, daemon, history
<1>5. ASSUME NEW jobs \in BOOLEAN, NEW ended \in BOOLEAN, NEW recent \in BOOLEAN,
             IdleChecked(r, jobs, ended, recent)
      PROVE  TypeInv'
  <2> DEFINE x == IF jobs THEN run[r] ELSE SetBackground(run[r], FALSE, run[r].own)
             said == IF jobs THEN <<>> ELSE SetBackgroundWrites(run[r], r, FALSE, run[r].own)
             fails == jobs \/ x.own
             rearms == ((jobs \/ x.own) /\ recent) \/ (~jobs /\ ended)
             failed == IF fails THEN FailWrites(x, r) ELSE <<>>
  <2>1. IF rearms
        THEN /\ run' = [run EXCEPT ![r] = [x EXCEPT !.idle = "on"]]
             /\ writes' = writes \o said
             /\ UNCHANGED <<cur, pick>>
        ELSE /\ run' = [run EXCEPT ![r] = IF fails THEN Fail(x) ELSE Quit(x)]
             /\ writes' = writes \o said \o failed
             /\ Forget(r)
    BY <1>5 DEF IdleChecked
  <2>2. /\ UNCHANGED <<chat, table, daemon, history, ends, msg, end, left>>
    BY <1>5 DEF IdleChecked
  <2>3. x \in RunRecord
    BY <1>1, SetBackgroundType
  <2>4. said \in Seq(Write)
    <3>1. <<>> \in Seq(Write)
      OBVIOUS
    <3>2. SetBackgroundWrites(run[r], r, FALSE, run[r].own) \in Seq(Write)
      BY <1>1, SetBackgroundWritesType
    <3> QED  BY <3>1, <3>2
  <2> HIDE DEF x, said
  <2>5. failed \in Seq(Write)
    <3>1. <<>> \in Seq(Write)
      OBVIOUS
    <3> QED  BY <1>1, <2>3, <3>1, FailWritesType
  <2> HIDE DEF failed
  <2>6. /\ [x EXCEPT !.idle = "on"] \in RunRecord
        /\ (IF fails THEN Fail(x) ELSE Quit(x)) \in RunRecord
    BY <1>2, <2>3, FailType, QuitType
  <2> HIDE DEF fails, rearms
  <2>7. run' \in [Runs -> RunRecord]
    BY <2>1, <2>6, RunUpdate DEF TypeInv
  <2>8. writes' \in Seq(Write)
    <3>1. writes \o said \in Seq(Write)
      BY <2>4 DEF TypeInv, TypeOK
    <3>2. writes \o said \o failed \in Seq(Write)
      BY <2>5, <3>1
    <3> QED  BY <2>1, <3>1, <3>2
  <2>9. cur' \in 0..used /\ pick' \in Pick /\ PickBounded'
    BY <2>1, ForgetType DEF TypeInv, TypeOK, PickBounded
  <2> QED  BY <2>2, <2>7, <2>8, <2>9 DEF TypeInv, TypeOK, EndHasRun, chat, table, daemon, history
<1> QED  BY <1>3, <1>4, <1>5

-----------------------------------------------------------------------------
(* The picks, the cancels and the ends. *)

\* The steps of the chain of picks keep the types.
LEMMA PickStepType == ASSUME TypeInv, SetOption \/ PickStep \/ PickAnswered PROVE TypeInv'
<1>1. /\ pick \in Pick /\ MaxPicks \in Nat
      /\ pick.issued \in 0..MaxPicks /\ pick.settled \in 0..MaxPicks
  BY RunnerAssumption DEF TypeInv, TypeOK, Pick
<1>2. ASSUME PickIsNext, pick' = [pick EXCEPT !.settled = @ + 1]
      PROVE  pick' \in Pick /\ PickBounded'
  <2>1. pick.settled + 1 \in 0..MaxPicks
    BY <1>1, <1>2 DEF PickIsNext
  <2> QED  BY <1>1, <1>2, <2>1 DEF PickIsNext, Pick, PickBounded
<1>3. ASSUME NEW st \in {"waiting", "direct"}, NEW r \in 0..MaxRuns, PickIsNext,
             pick' = [pick EXCEPT !.st = st, !.run = r]
      PROVE  pick' \in Pick /\ PickBounded'
  BY <1>1, <1>3 DEF PickIsNext, Pick, PickBounded
<1>4. CASE SetOption
  <2>1. pick.issued + 1 \in 0..MaxPicks
    BY <1>1, <1>4 DEF SetOption
  <2>2. pick' \in Pick /\ PickBounded'
    BY <1>1, <1>4, <2>1 DEF SetOption, Pick, PickBounded, TypeInv
  <2> QED  BY <1>4, <2>2 DEF SetOption, TypeInv, TypeOK, EndHasRun, chat, table, daemon, history
<1>5. CASE PickRefused
  <2>1. pick' \in Pick /\ PickBounded'
    BY <1>2, <1>5 DEF PickRefused
  <2> QED  BY <1>5, <2>1 DEF PickRefused, TypeInv, TypeOK, EndHasRun, chat, table, daemon, history
<1>6. CASE PickRelaunches
  <2>1. [NewRun EXCEPT !.byPick = TRUE, !.pickRelaunch = TRUE] \in RunRecord
    BY NewRunType DEF RunRecord
  <2>2. /\ run' \in [Runs -> RunRecord]
        /\ used' \in 0..MaxRuns /\ cur' \in 0..used' /\ last' \in 0..used'
        /\ used \in 0..used' /\ used + 1 \in 0..MaxRuns
    BY <1>6, <2>1, RegisterType DEF PickRelaunches, TypeInv
  <2>3. pick' \in Pick /\ PickBounded'
    BY <1>3, <1>6, <2>2 DEF PickRelaunches
  <2> QED  BY <1>6, <2>2, <2>3 DEF PickRelaunches, TypeInv, TypeOK, EndHasRun, chat, daemon, history
<1>7. CASE PickWaits
  <2>1. pick' \in Pick /\ PickBounded'
    BY <1>3, <1>7, Registry DEF PickWaits, TypeInv
  <2> QED  BY <1>7, <2>1 DEF PickWaits, TypeInv, TypeOK, EndHasRun, chat, table, daemon, history
<1>8. CASE PickDirect
  <2>1. cur \in 0..MaxRuns /\ run[cur] \in RunRecord
    BY <1>8, Registry DEF PickDirect, TypeInv
  <2>2. run' \in [Runs -> RunRecord]
    BY <1>8, <2>1, TouchType, RunUpdate DEF PickDirect, TypeInv
  <2>3. pick' \in Pick /\ PickBounded'
    BY <1>2, <1>3, <1>8, <2>1 DEF PickDirect
  <2> QED  BY <1>8, <2>2, <2>3 DEF PickDirect, TypeInv, TypeOK, EndHasRun, chat, table, daemon, history
<1>9. CASE PickAnswered
  <2>1. pick' \in Pick /\ PickBounded'
    BY <1>9, PickOver DEF PickAnswered
  <2> QED  BY <1>9, <2>1 DEF PickAnswered, TypeInv, TypeOK, EndHasRun, chat, table, daemon, history
<1> QED  BY <1>4, <1>5, <1>6, <1>7, <1>8, <1>9 DEF PickStep

\* The cancels of a client keep the types.
LEMMA CancelStepType == ASSUME TypeInv, CancelOwnTurn \/ CancelTurn \/ CancelEarly PROVE TypeInv'
<1> DEFINE x == run[cur]
<1>1. cur \in 0..MaxRuns /\ x \in RunRecord
  BY Registry DEF CancelOwnTurn, CancelTurn, CancelEarly, TypeInv
<1>2. x.unsent \in Seq(Texts) /\ x.held \in Seq(Texts) /\ x.earlyCancels \in Nat
  BY <1>1 DEF RunRecord
<1>3. ToSet(x.unsent) \subseteq Texts /\ ToSet(x.held) \subseteq Texts
  BY <1>2 DEF ToSet
<1>4. left' \in [Bounded -> Nat]
  BY SpendType DEF Bounded, CancelOwnTurn, CancelTurn, CancelEarly, TypeInv
<1>5. <<>> \in Seq(Texts)
  OBVIOUS
<1>6. ASSUME NEW y \in RunRecord
      PROVE CancelOpen(y) \in RunRecord /\ CancelOpenWrites(y, cur, "none") \in Seq(Write)
  BY <1>1, CancelOpenType, CancelOpenWritesType DEF Conts
<1>7. CASE CancelOwnTurn
  <2>1. ASSUME NEW y \in RunRecord PROVE [y EXCEPT !.ownStopped = TRUE, !.stopper = "on"] \in RunRecord
    BY DEF RunRecord, Checks
  <2>2. /\ run' = [run EXCEPT ![cur] = [CancelOpen(x) EXCEPT !.ownStopped = TRUE, !.stopper = "on"]]
        /\ writes' = writes \o CancelOpenWrites(x, cur, "none")
    BY <1>7 DEF CancelOwnTurn
  <2>3. run' \in [Runs -> RunRecord] /\ writes' \in Seq(Write)
    BY <1>1, <1>6, <2>1, <2>2, RunUpdate, WritesUpdate DEF TypeInv
  <2> QED  BY <1>4, <1>7, <2>3
           DEF CancelOwnTurn, TypeInv, TypeOK, EndHasRun, PickBounded, chat, table, daemon, history
<1>8. CASE CancelTurn
  <2> DEFINE y == [x EXCEPT !.cancelAsked = TRUE, !.unsent = <<>>]
  <2>1. y \in RunRecord
    BY <1>1, <1>5 DEF RunRecord
  <2>2. /\ \/ run' = [run EXCEPT ![cur] = y] /\ writes' = writes
           \/ /\ run' = [run EXCEPT ![cur] = CancelOpen(y)]
              /\ writes' = writes \o CancelOpenWrites(y, cur, "none")
        /\ cancelled' = cancelled \union ToSet(x.unsent)
    BY <1>8 DEF CancelTurn
  <2> HIDE DEF y
  <2>3. run' \in [Runs -> RunRecord] /\ writes' \in Seq(Write)
    <3>1. CASE run' = [run EXCEPT ![cur] = y] /\ writes' = writes
      BY <2>1, <3>1, RunUpdate DEF TypeInv, TypeOK
    <3>2. CASE /\ run' = [run EXCEPT ![cur] = CancelOpen(y)]
               /\ writes' = writes \o CancelOpenWrites(y, cur, "none")
      BY <1>6, <2>1, <3>2, RunUpdate, WritesUpdate DEF TypeInv
    <3> QED  BY <2>2, <3>1, <3>2
  <2> QED  BY <1>3, <1>4, <1>8, <2>2, <2>3
           DEF CancelTurn, TypeInv, TypeOK, EndHasRun, PickBounded, chat, table, daemon
<1>9. CASE CancelEarly
  <2> DEFINE texts == IF answers.answered THEN <<>> ELSE x.unsent
             n == x.earlyCancels + 1
             y == [x EXCEPT !.cancelledEarly = TRUE, !.earlyCancels = n, !.unsent = texts]
  <2>1. /\ run' = [run EXCEPT ![cur] = CancelOpen(y)]
        /\ writes' = writes \o CancelOpenWrites(x, cur, "none")
    BY <1>9 DEF CancelEarly
  <2>2. y \in RunRecord
    <3>1. texts \in Seq(Texts) /\ n \in Nat
      BY <1>2, <1>5
    <3> HIDE DEF texts, n
    <3> QED  BY <1>1, <3>1 DEF RunRecord
  <2> HIDE DEF y
  <2>3. run' \in [Runs -> RunRecord] /\ writes' \in Seq(Write)
    BY <1>1, <1>6, <2>1, <2>2, RunUpdate, WritesUpdate DEF TypeInv
  <2>4. cancelled' \subseteq Texts
    <3>1. Joining(cur) \subseteq Texts
      BY <1>3 DEF Joining
    <3> QED  BY <1>3, <1>9, <3>1 DEF CancelEarly, TypeInv, TypeOK
  <2> QED  BY <1>4, <1>9, <2>3, <2>4
           DEF CancelEarly, TypeInv, TypeOK, EndHasRun, PickBounded, chat, table, daemon
<1> QED  BY <1>7, <1>8, <1>9

\* `endNow` of a registered run keeps the types.
LEMMA EndNowType ==
  ASSUME TypeInv, NEW r \in 1..used, EndNow(r)
  PROVE  /\ run' \in [Runs -> RunRecord] /\ writes' \in Seq(Write)
         /\ cur' \in 0..used /\ pick' \in Pick /\ PickBounded'
         /\ end' \in End /\ end'.st = "ends"
<1> DEFINE x == run[r]
<1>1. r \in 0..MaxRuns /\ x \in RunRecord
  BY Registry DEF TypeInv
<1>2. cur' \in 0..used /\ pick' \in Pick /\ PickBounded'
  BY ForgetType DEF EndNow
<1>3. end' \in End /\ end'.st = "ends"
  BY <1>1 DEF EndNow, End
<1>4. CASE ~x.turning
  <2> DEFINE opened == CancelOpenWrites(x, r, "end")
             said == SetBackgroundWrites(x, r, FALSE, FALSE)
  <2>1. run' = [run EXCEPT ![r] = Quit(SetBackground(x, FALSE, FALSE))] /\ writes' = writes \o opened \o said
    BY <1>4 DEF EndNow
  <2>2. Quit(SetBackground(x, FALSE, FALSE)) \in RunRecord
    BY <1>1, SetBackgroundType, QuitType
  <2>3. opened \in Seq(Write)
    BY <1>1, CancelOpenWritesType DEF Conts
  <2>4. said \in Seq(Write)
    BY <1>1, SetBackgroundWritesType
  <2> HIDE DEF opened, said
  <2>5. run' \in [Runs -> RunRecord]
    BY <2>1, <2>2, RunUpdate DEF TypeInv
  <2>6. writes' \in Seq(Write)
    BY <2>1, <2>3, <2>4 DEF TypeInv, TypeOK
  <2> QED  BY <1>2, <1>3, <2>5, <2>6
<1>5. CASE x.turning
  <2>1. /\ run' = [run EXCEPT ![r] = Quit(x)]
        /\ \/ writes' = writes
           \/ writes' = Append(writes, WThen(Plain("interrupted"), r, "end"))
    BY <1>5 DEF EndNow
  <2>2. run' \in [Runs -> RunRecord]
    BY <1>1, <2>1, QuitType, RunUpdate DEF TypeInv
  <2>3. WThen(Plain("interrupted"), r, "end") \in Write
    BY <1>1, EventType, WriteType DEF Conts, EventKinds
  <2>4. writes' \in Seq(Write)
    <3> DEFINE interrupt == WThen(Plain("interrupted"), r, "end")
    <3> HIDE DEF interrupt
    <3>1. Append(writes, interrupt) \in Seq(Write)
      BY <2>3 DEF TypeInv, TypeOK, interrupt
    <3> QED  BY <2>1, <3>1 DEF TypeInv, TypeOK, interrupt
  <2> QED  BY <1>2, <1>3, <2>2, <2>4
<1> QED  BY <1>4, <1>5

\* The stops and ends of a chat keep the types.
LEMMA EndStepType ==
  ASSUME TypeInv,
         \/ Stop \/ EndCancels \/ EndAtOnce \/ EndWithNoRun
         \/ EndWaited \/ EndRefused \/ EndResolves \/ EndFails
  PROVE  TypeInv'
<1> DEFINE x == run[cur]
<1>1. cur # NoRun => cur \in 1..used /\ cur \in 0..MaxRuns /\ x \in RunRecord
  BY Registry DEF TypeInv
<1>2. NoEnd \in End /\ NoEnd.st = "none"
  BY RunnerAssumption DEF NoEnd, End, NoRun
<1>3. CASE Stop
  <2>1. run' = [run EXCEPT ![cur] = Quit(SetBackground(x, FALSE, FALSE))]
    BY <1>3 DEF Stop
  <2>2. Quit(SetBackground(x, FALSE, FALSE)) \in RunRecord
    BY <1>1, <1>3, SetBackgroundType, QuitType DEF Stop
  <2>3. SetBackgroundWrites(x, cur, FALSE, FALSE) \in Seq(Write)
    BY <1>1, <1>3, SetBackgroundWritesType DEF Stop
  <2>4. run' \in [Runs -> RunRecord] /\ writes' \in Seq(Write)
    BY <1>3, <2>1, <2>2, <2>3, RunUpdate, WritesUpdate DEF Stop, TypeInv
  <2>5. cur' \in 0..used /\ pick' \in Pick /\ PickBounded'
    BY <1>3, ForgetType DEF Stop
  <2>6. left' \in [Bounded -> Nat]
    BY <1>3, SpendType DEF Bounded, Stop, TypeInv
  <2> QED  BY <1>3, <2>4, <2>5, <2>6 DEF Stop, TypeInv, TypeOK, EndHasRun, chat, table, daemon, history
<1>4. CASE EndCancels
  <2> DEFINE y == [x EXCEPT !.cancelAsked = TRUE, !.unsent = <<>>]
  <2>1. x \in RunRecord /\ cur \in 1..used /\ cur \in 0..MaxRuns /\ <<>> \in Seq(Texts)
    BY <1>1, <1>4 DEF EndCancels
  <2>2. y \in RunRecord
    BY <2>1 DEF RunRecord
  <2>3. run' = [run EXCEPT ![cur] = CancelOpen(y)] /\ writes' = writes \o CancelOpenWrites(x, cur, "end")
    BY <1>4 DEF EndCancels
  <2> HIDE DEF y
  <2>4. CancelOpenWrites(x, cur, "end") \in Seq(Write)
    BY <2>1, CancelOpenWritesType DEF Conts
  <2>5. run' \in [Runs -> RunRecord] /\ writes' \in Seq(Write)
    BY <2>2, <2>3, <2>4, CancelOpenType, RunUpdate, WritesUpdate DEF TypeInv
  <2>6. cancelled' \subseteq Texts
    <3>1. ToSet(x.unsent) \subseteq Texts
      BY <2>1 DEF RunRecord, ToSet
    <3> QED  BY <1>4, <3>1 DEF EndCancels, TypeInv, TypeOK
  <2>7. left' \in [Bounded -> Nat]
    BY <1>4, SpendType DEF Bounded, EndCancels, TypeInv
  <2>8. end' \in End /\ end'.run \in 1..used
    BY <1>4, <2>1 DEF EndCancels, End
  <2> QED  BY <1>4, <2>5, <2>6, <2>7, <2>8
           DEF EndCancels, TypeInv, TypeOK, PickBounded, EndHasRun, chat, table, daemon
<1>5. CASE EndAtOnce
  <2>1. cur \in 1..used /\ EndNow(cur)
    BY <1>1, <1>5 DEF EndAtOnce
  <2>2. left' \in [Bounded -> Nat]
    BY <1>5, SpendType DEF Bounded, EndAtOnce, TypeInv
  <2> QED  BY <1>5, <2>1, <2>2, EndNowType
           DEF EndAtOnce, TypeInv, TypeOK, EndHasRun, chat, table, daemon, history
<1>6. CASE EndWithNoRun
  <2>1. left' \in [Bounded -> Nat]
    BY <1>6, SpendType DEF Bounded, EndWithNoRun, TypeInv
  <2>2. end' \in End /\ end'.st = "ends"
    BY <1>6, RunnerAssumption DEF EndWithNoRun, End, NoRun
  <2> QED  BY <1>6, <2>1, <2>2
           DEF EndWithNoRun, TypeInv, TypeOK, PickBounded, EndHasRun, chat, table, daemon, history
<1>7. CASE EndWaited
  <2>1. end.run \in 1..used /\ EndNow(end.run)
    BY <1>7 DEF EndWaited, TypeInv, EndHasRun
  <2> QED  BY <1>7, <2>1, EndNowType
           DEF EndWaited, TypeInv, TypeOK, EndHasRun, chat, table, daemon, history
<1>8. CASE EndRefused
  BY <1>2, <1>8 DEF EndRefused, TypeInv, TypeOK, PickBounded, EndHasRun, chat, table, daemon, history
<1>9. CASE EndResolves
  BY <1>2, <1>9 DEF EndResolves, TypeInv, TypeOK, PickBounded, EndHasRun, chat, table, daemon, history
<1>10. CASE EndFails
  BY <1>2, <1>10 DEF EndFails, TypeInv, TypeOK, PickBounded, EndHasRun, chat, table, daemon, history
<1> QED  BY <1>3, <1>4, <1>5, <1>6, <1>7, <1>8, <1>9, <1>10

\* The stop of the daemon keeps the types.
LEMMA DaemonStepType == ASSUME TypeInv, StopStarts \/ Close PROVE TypeInv'
<1>1. CASE StopStarts
  <2>1. ASSUME NEW y \in RunRecord PROVE [y EXCEPT !.idle = "off"] \in RunRecord
    BY DEF RunRecord
  <2>2. run' \in [Runs -> RunRecord]
    BY <1>1, <2>1 DEF StopStarts, TypeInv, TypeOK
  <2>3. left' \in [Bounded -> Nat]
    BY <1>1, SpendType DEF Bounded, StopStarts, TypeInv
  <2> QED  BY <1>1, <2>2, <2>3
           DEF StopStarts, TypeInv, TypeOK, PickBounded, EndHasRun, chat, table, history
<1>2. CASE Close
  <2>1. ASSUME NEW r \in Runs PROVE Closing(r) \in RunRecord
    <3>1. run[r] \in RunRecord
      BY DEF TypeInv, TypeOK
    <3> QED  BY <3>1, SilenceType, EndProcessType DEF Closing
  <2>2. run' \in [Runs -> RunRecord]
    BY <1>2, <2>1 DEF Close
  <2>3. writes' \in Seq(Write)
    <3>1. cur # NoRun => WThen(Plain("interrupted"), cur, "close") \in Write
      BY Registry, EventType, WriteType DEF TypeInv, TypeOK, Conts, EventKinds
    <3> QED  BY <1>2, <3>1 DEF Close, TypeInv, TypeOK
  <2>4. cur' \in 0..used /\ pick' \in Pick /\ PickBounded'
    BY <1>2, ForgetType DEF Close
  <2> QED  BY <1>2, <2>2, <2>3, <2>4 DEF Close, TypeInv, TypeOK, EndHasRun, chat, table, history
<1> QED  BY <1>1, <1>2

-----------------------------------------------------------------------------
(* The writes. *)

\* What `begin` does after the write of `resumed` keeps the types.
LEMMA AfterResumedType ==
  ASSUME TypeInv, NEW r \in 1..used, AfterResumed(r)
  PROVE  run' \in [Runs -> RunRecord] /\ pick' \in Pick /\ PickBounded'
<1> DEFINE y == IF run[r].pickRelaunch THEN PickRelaunchOver(run[r]) ELSE [run[r] EXCEPT !.pc = "held"]
<1>1. y \in RunRecord
  BY Registry, PickRelaunchOverType, PlaceType DEF TypeInv, Places
<1>2. run' = [run EXCEPT ![r] = y]
  BY DEF AfterResumed
<1>3. run' \in [Runs -> RunRecord]
  BY <1>1, <1>2, RunUpdate DEF TypeInv
<1> QED  BY <1>3, PickType DEF AfterResumed

\* The end of a write, and what goes on after it, keeps the types.
LEMMA WriteStepType ==
  ASSUME TypeInv,
         \/ WriteDone \/ HoldWritten
         \/ \E r \in 1..used : InterruptDone(r) \/ SessionStored(r) \/ ResumedDone(r)
  PROVE  TypeInv'
<1> DEFINE w == Head(writes)
<1>1. w \in Write /\ Tail(writes) \in Seq(Write)
  BY HeadType DEF WriteDone, HoldWritten, InterruptDone, SessionStored, ResumedDone, TypeInv
<1>2. w.ev \in Event /\ w.by \in 0..MaxRuns /\ (w.cont = "hold" => w.ev.text # <<>>)
  BY <1>1 DEF Write
<1> HIDE DEF w
<1>3. fold' \in Fold /\ answers' \in Answers /\ writes' \in Seq(Write)
  <2>1. Logged(w.ev) /\ writes' = Tail(writes)
    BY DEF WriteDone, HoldWritten, InterruptDone, SessionStored, ResumedDone, w
  <2> QED  BY <1>1, <1>2, <2>1, LoggedType DEF TypeInv
<1>4. CASE WriteDone
  <2>1. run' \in [Runs -> RunRecord]
    <3>1. CASE w.cont = "kill" /\ w.by \in Runs
      <4>1. run' = [run EXCEPT ![w.by] = EndProcess(run[w.by])] /\ run[w.by] \in RunRecord
        BY <1>4, <3>1 DEF WriteDone, w, TypeInv, TypeOK
      <4> QED  BY <4>1, EndProcessType, RunUpdate DEF TypeInv
    <3>2. CASE ~(w.cont = "kill" /\ w.by \in Runs)
      BY <1>4, <3>2 DEF WriteDone, w, TypeInv, TypeOK
    <3> QED  BY <3>1, <3>2
  <2>2. msg' \in [Texts -> Message]
    BY <1>4, MessageType DEF WriteDone, TypeInv, TypeOK
  <2> QED  BY <1>3, <1>4, <2>1, <2>2
           DEF WriteDone, TypeInv, TypeOK, PickBounded, EndHasRun, table, daemon, history
<1>5. CASE HoldWritten
  <2> DEFINE r == w.by
             t == w.ev.text[1]
             texts == IF Keeps(r, t) THEN Append(run[r].unsent, t) ELSE run[r].unsent
             p == IF run[r].pc = "hold" THEN "launch" ELSE run[r].pc
  <2>1. t \in Texts
    BY <1>2, <1>5 DEF HoldWritten, w, Event
  <2>2. run' \in [Runs -> RunRecord]
    <3>1. CASE r \in Runs
      <4>1. run[r] \in RunRecord
        BY <3>1 DEF TypeInv, TypeOK
      <4>2. texts \in Seq(Texts) /\ p \in Places
        BY <2>1, <4>1 DEF RunRecord, Places
      <4>3. [run[r] EXCEPT !.unsent = texts, !.pc = p] \in RunRecord
        <5> HIDE DEF texts, p, r
        <5> QED  BY <4>1, <4>2 DEF RunRecord
      <4>4. run' = [run EXCEPT ![r] = [run[r] EXCEPT !.unsent = texts, !.pc = p]]
        BY <1>5, <3>1 DEF HoldWritten, w, TypeInv, TypeOK
      <4> QED  BY <4>3, <4>4, RunUpdate DEF TypeInv
    <3>2. CASE r \notin Runs
      BY <1>5, <3>2 DEF HoldWritten, w, TypeInv, TypeOK
    <3> QED  BY <3>1, <3>2
  <2>3. cancelled' \subseteq Texts
    BY <1>5, <2>1 DEF HoldWritten, w, TypeInv, TypeOK
  <2>4. msg' \in [Texts -> Message]
    <3> DEFINE late == r # last /\ run[last].pc # "reopen"
    <3>1. msg[t] \in Message /\ late \in BOOLEAN
      BY <2>1 DEF TypeInv, TypeOK
    <3>2. msg' = [msg EXCEPT ![t] = [msg[t] EXCEPT !.st = "done", !.late = late]]
      BY <1>5 DEF HoldWritten, w
    <3> HIDE DEF late, t
    <3>3. [msg[t] EXCEPT !.st = "done", !.late = late] \in Message
      BY <3>1 DEF Message
    <3> QED  BY <3>2, <3>3 DEF TypeInv, TypeOK
  <2> QED  BY <1>3, <1>5, <2>2, <2>3, <2>4
           DEF HoldWritten, TypeInv, TypeOK, PickBounded, EndHasRun, table, daemon
<1>6. ASSUME NEW r \in 1..used, InterruptDone(r) PROVE TypeInv'
  <2>1. run[r] \in RunRecord
    BY Registry DEF TypeInv
  <2>2. CASE stopping \/ run[r].quiet
    <3>1. run' = [run EXCEPT ![r] = Overtaken(run[r])] /\ Forget(r)
      BY <1>6, <2>2 DEF InterruptDone
    <3>2. run' \in [Runs -> RunRecord]
      BY <2>1, <3>1, OvertakenType, RunUpdate DEF TypeInv
    <3>3. cur' \in 0..used /\ pick' \in Pick /\ PickBounded'
      BY <3>1, ForgetType
    <3> QED  BY <1>3, <1>6, <3>2, <3>3 DEF InterruptDone, TypeInv, TypeOK, EndHasRun, table, daemon, history
  <2>3. CASE ~(stopping \/ run[r].quiet)
    <3> DEFINE p == IF run[r].byPick THEN "launch" ELSE "hold"
    <3>1. run' = [run EXCEPT ![r] = [run[r] EXCEPT !.reopened = "ok", !.pc = p]]
          /\ cur' = cur /\ pick' = pick
      BY <1>6, <2>3 DEF InterruptDone
    <3>2. [run[r] EXCEPT !.reopened = "ok", !.pc = p] \in RunRecord
      <4>1. p \in Places
        BY DEF Places
      <4> HIDE DEF p
      <4> QED  BY <2>1, <4>1 DEF RunRecord
    <3>3. run' \in [Runs -> RunRecord]
      BY <3>1, <3>2, RunUpdate DEF TypeInv
    <3> QED  BY <1>3, <1>6, <3>1, <3>3
             DEF InterruptDone, TypeInv, TypeOK, PickBounded, EndHasRun, table, daemon, history
  <2> QED  BY <2>2, <2>3
<1>7. ASSUME NEW r \in 1..used, SessionStored(r) PROVE TypeInv'
  <2>1. run[r] \in RunRecord
    BY Registry DEF TypeInv
  <2>2. run' \in [Runs -> RunRecord]
    BY <1>7, <2>1, PlaceType, RunUpdate DEF SessionStored, TypeInv, Places
  <2> QED  BY <1>3, <1>7, <2>2
           DEF SessionStored, TypeInv, TypeOK, PickBounded, EndHasRun, table, daemon, history
<1>8. ASSUME NEW r \in 1..used, ResumedDone(r) PROVE TypeInv'
  <2>1. run' \in [Runs -> RunRecord] /\ pick' \in Pick /\ PickBounded'
    BY <1>8, AfterResumedType DEF ResumedDone
  <2> QED  BY <1>3, <1>8, <2>1 DEF ResumedDone, TypeInv, TypeOK, EndHasRun, table, daemon, history
<1> QED  BY <1>4, <1>5, <1>6, <1>7, <1>8

\* A failed write, and what goes on after the process of its run ended, keeps the types.
LEMMA FaultStepType ==
  ASSUME TypeInv,
         \/ WriteFails
         \/ \E t \in Texts : MessageFails(t)
         \/ \E r \in 1..used : StartHalted(r)
  PROVE  TypeInv'
<1>1. CASE WriteFails
  <2> DEFINE w == Head(writes)
             x == Quit(run[w.by])
             y == CASE w.cont = "reopen" -> [x EXCEPT !.reopened = "failed", !.pc = "over"]
                    [] w.cont = "session" -> [x EXCEPT !.pc = "over"]
                    [] w.cont = "resumed" -> [x EXCEPT !.pc = "halted"]
                    [] OTHER -> x
  <2>1. w \in Write /\ writes' \in Seq(Write)
    BY <1>1, HeadType DEF WriteFails, TypeInv
  <2>2. w.by \in 0..MaxRuns
    BY <2>1 DEF Write
  <2>3. left' \in [Bounded -> Nat]
    BY <1>1, SpendType DEF Bounded, WriteFails, TypeInv
  <2>4. CASE w.cont = "close"
    BY <1>1, <2>1, <2>3, <2>4
    DEF WriteFails, TypeInv, TypeOK, PickBounded, EndHasRun, table, daemon, history
  <2>5. CASE w.cont # "close"
    <3>1. run' = [run EXCEPT ![w.by] = y] /\ Forget(w.by)
      BY <1>1, <2>5 DEF WriteFails
    <3>2. run' \in [Runs -> RunRecord]
      <4>1. CASE w.by \in Runs
        <5>1. x \in RunRecord
          BY <4>1, QuitType DEF TypeInv, TypeOK
        <5>2. ASSUME NEW z \in RunRecord
              PROVE  /\ [z EXCEPT !.reopened = "failed", !.pc = "over"] \in RunRecord
                     /\ [z EXCEPT !.pc = "over"] \in RunRecord
                     /\ [z EXCEPT !.pc = "halted"] \in RunRecord
          <6>1. [z EXCEPT !.reopened = "failed", !.pc = "over"] \in RunRecord
            BY DEF RunRecord, Places
          <6> QED  BY <6>1, PlaceType DEF Places
        <5>3. y \in RunRecord
          <6> HIDE DEF x
          <6> QED  BY <5>1, <5>2
        <5> QED  BY <3>1, <5>3, RunUpdate DEF TypeInv
      <4>2. CASE w.by \notin Runs
        BY <3>1, <4>2 DEF TypeInv, TypeOK
      <4> QED  BY <4>1, <4>2
    <3>3. cur' \in 0..used /\ pick' \in Pick /\ PickBounded'
      BY <3>1, ForgetType
    <3>4. msg' \in [Texts -> Message]
      <4> DEFINE t == w.ev.text[1]
      <4>1. ASSUME NEW m \in Message PROVE [m EXCEPT !.st = "halt", !.run = w.by] \in Message
        BY <2>2 DEF Message
      <4>2. CASE t \in Texts
        <5>1. \/ msg' = [msg EXCEPT ![t] = [msg[t] EXCEPT !.st = "halt", !.run = w.by]]
              \/ msg' = msg
          BY <1>1, <2>5, <4>2 DEF WriteFails, TypeInv, TypeOK
        <5>2. [msg[t] EXCEPT !.st = "halt", !.run = w.by] \in Message
          BY <4>1, <4>2 DEF TypeInv, TypeOK
        <5> QED  BY <5>1, <5>2 DEF TypeInv, TypeOK
      <4>3. CASE t \notin Texts
        BY <1>1, <2>5, <4>3 DEF WriteFails, TypeInv, TypeOK
      <4> QED  BY <4>2, <4>3
    <3>5. end' \in End /\ EndHasRun'
      BY <1>1, <2>5 DEF WriteFails, TypeInv, TypeOK, End, EndHasRun, table
    <3> QED  BY <1>1, <2>1, <2>3, <3>2, <3>3, <3>4, <3>5
             DEF WriteFails, TypeInv, TypeOK, table, daemon, history
  <2> QED  BY <2>4, <2>5
<1>2. ASSUME NEW t \in Texts, MessageFails(t) PROVE TypeInv'
  <2>1. msg' \in [Texts -> Message]
    BY <1>2, MessageType DEF MessageFails, TypeInv
  <2>2. run' \in [Runs -> RunRecord]
    <3>1. CASE msg[t].run \in Runs
      BY <1>2, <3>1, HoldFailedType, RunUpdate DEF MessageFails, TypeInv, TypeOK
    <3>2. CASE msg[t].run \notin Runs
      BY <1>2, <3>2 DEF MessageFails, TypeInv, TypeOK
    <3> QED  BY <3>1, <3>2
  <2> QED  BY <1>2, <2>1, <2>2
           DEF MessageFails, TypeInv, TypeOK, PickBounded, EndHasRun, chat, table, daemon, history
<1>3. ASSUME NEW r \in 1..used, StartHalted(r) PROVE TypeInv'
  <2>1. run' \in [Runs -> RunRecord] /\ pick' \in Pick /\ PickBounded'
    BY <1>3, AfterResumedType DEF StartHalted
  <2> QED  BY <1>3, <2>1 DEF StartHalted, TypeInv, TypeOK, EndHasRun, chat, table, daemon, history
<1> QED  BY <1>1, <1>2, <1>3

-----------------------------------------------------------------------------
(* The theorem. *)

\* Every step of the runner, of its clients and of its agents keeps the types.
LEMMA NextType == TypeInv /\ [Next]_vars => TypeInv'
<1> SUFFICES ASSUME TypeInv, [Next]_vars PROVE TypeInv'
  OBVIOUS
<1>1. CASE UNCHANGED vars
  BY <1>1 DEF vars, chat, table, daemon, history, TypeInv, TypeOK, PickBounded, EndHasRun, Runs
<1>2. CASE ClientStep
  <2>1. ASSUME NEW t \in Texts, Send(t) PROVE TypeInv'
    BY <2>1, SendType
  <2>2. ASSUME NEW q \in Requests, Answer(q) PROVE TypeInv'
    <3>1. cur \in 1..used /\ Resolve(cur, q)
      BY <2>2, Registry DEF Answer, TypeInv
    <3> QED  BY <3>1, RequestStepType
  <2>3. SetOption => TypeInv'
    BY PickStepType
  <2>4. CancelOwnTurn \/ CancelTurn \/ CancelEarly => TypeInv'
    BY CancelStepType
  <2>5. Stop \/ EndCancels \/ EndAtOnce \/ EndWithNoRun => TypeInv'
    BY EndStepType
  <2>6. StopStarts => TypeInv'
    BY DaemonStepType
  <2> QED  BY <1>2, <2>1, <2>2, <2>3, <2>4, <2>5, <2>6 DEF ClientStep
<1>3. CASE PickAnswered \/ PickStep
  BY <1>3, PickStepType
<1>4. CASE WriteFails
  BY <1>4, FaultStepType
<1>5. CASE Close
  BY <1>5, DaemonStepType
<1>6. CASE WriteStep
  BY <1>6, WriteStepType DEF WriteStep
<1>7. CASE EndStep
  BY <1>7, EndStepType DEF EndStep
<1>8. ASSUME NEW t \in Texts, MessageStep(t) PROVE TypeInv'
  <2>1. Send(t) => TypeInv'
    BY SendType
  <2>2. MessageFails(t) => TypeInv'
    BY FaultStepType
  <2>3. ASSUME NEW r \in 1..used,
               HoldRefused(r, t) \/ HoldStopping(r, t) \/ HoldAgain(r, t) \/ HoldWrite(r, t)
        PROVE  TypeInv'
    BY <2>3, HoldStepType
  <2> QED  BY <1>8, <2>1, <2>2, <2>3 DEF MessageStep
<1>9. ASSUME NEW r \in 1..used, RunStep(r) PROVE TypeInv'
  <2>1. Reopen(r) \/ LaunchOver(r) \/ Spawn(r) => TypeInv'
    BY LaunchStepType
  <2>2. StartHalted(r) => TypeInv'
    BY FaultStepType
  <2>3. OptionSent(r) \/ OptionsQuiet(r) \/ OptionsDone(r) \/ PickOptionsDone(r) \/ HeldOver(r)
          => TypeInv'
    BY OptionStepType
  <2>4. NextPrompt(r) \/ (\E jobs \in BOOLEAN : TurnOver(r, jobs)) => TypeInv'
    BY TurnStepType
  <2> QED  BY <1>9, <2>1, <2>2, <2>3, <2>4 DEF RunStep
<1>10. ASSUME NEW r \in 1..used, CheckStep(r) PROVE TypeInv'
  <2>1. IdleOvertaken(r) => TypeInv'
    BY IdleStepType
  <2>2. (\E jobs \in BOOLEAN : MarkerChecked(r, jobs) \/ StopChecked(r, jobs)) => TypeInv'
    BY BackgroundStepType
  <2> QED  BY <1>10, <2>1, <2>2 DEF CheckStep
<1>11. ASSUME NEW r \in 1..used, ExitStep(r) PROVE TypeInv'
  BY <1>11, ProcessStepType DEF ExitStep
<1>12. ASSUME NEW r \in 1..used, AgentStep(r) PROVE TypeInv'
  <2>1. LaunchFails(r) => TypeInv'
    BY LaunchStepType
  <2>2. Initialized(r) \/ SessionResumed(r) \/ SessionLost(r) \/ SessionCreated(r) \/ AgentFails(r)
          => TypeInv'
    BY SessionStepType
  <2>3. OptionAnswered(r) => TypeInv'
    BY OptionStepType
  <2>4. AgentWorks(r) \/ OwnOutput(r) \/ OwnTurnMarker(r) => TypeInv'
    BY BackgroundStepType
  <2>5. IdleExpires(r) \/ (\E jobs, ended, recent \in BOOLEAN : IdleChecked(r, jobs, ended, recent))
          => TypeInv'
    BY IdleStepType
  <2>6. ConnectionCut(r) \/ (\E clean \in BOOLEAN : Exit(r, clean)) => TypeInv'
    BY ProcessStepType
  <2>7. \/ \E reason \in BOOLEAN : PromptReturned(r, reason)
        \/ \E t \in Texts : AgentInjects(r, t) \/ SteerAnswered(r, t)
        => TypeInv'
    BY TurnStepType
  <2>8. ASSUME NEW q \in Requests, Ask(r, q) \/ AgentTakesBack(r, q) PROVE TypeInv'
    BY <2>8, RequestStepType DEF AgentTakesBack
  <2> QED  BY <1>12, <2>1, <2>2, <2>3, <2>4, <2>5, <2>6, <2>7, <2>8 DEF AgentStep
<1>13. ASSUME NEW r \in 1..used, ProcessEnds(r) PROVE TypeInv'
  BY <1>13, ProcessStepType DEF ProcessEnds
<1> QED  BY <1>1, <1>2, <1>3, <1>4, <1>5, <1>6, <1>7, <1>8, <1>9, <1>10, <1>11, <1>12, <1>13
         DEF Next, Outside

\* In every reachable state, each variable of the runner has its type, the chain of picks is
\* within its bound, and an `end` that waits for a turn has a run to go on with.
THEOREM TypesHold == Spec => []TypeInv
<1>1. Init => TypeInv
  BY InitType
<1>2. TypeInv /\ [Next]_vars => TypeInv'
  BY NextType
<1> QED  BY <1>1, <1>2, PTL DEF Spec

\* In every reachable state, each variable of the runner has its type.
THEOREM TypeCorrect == Spec => []TypeOK
<1>1. TypeInv => TypeOK
  BY DEF TypeInv
<1> QED  BY <1>1, TypesHold, PTL

-----------------------------------------------------------------------------
(* The processes of the runs. *)

\* A run that has not spawned its agent yet, and one of them that will spawn it.
Early == {"reopen", "interrupt", "hold", "launch"}
Starting(r) == run[r].pc \in Early /\ ~run[r].quiet

Unspawned == \A r \in Runs : run[r].pc \in Early => run[r].proc = "none"
StartIsCurrent == \A r \in 1..used : Starting(r) => cur = r /\ run[r].awaits = ends
StartWaited ==
  \A r \in 1..used : Starting(r) /\ run[r].pc # "reopen" /\ ends # NoRun => run[ends].proc = "ended"
LiveIsLast == \A r \in Runs : run[r].proc \in Live => r = ends

StartInv == Unspawned /\ StartIsCurrent /\ StartWaited /\ LiveIsLast

\* What all but a few steps do to a run: it goes no step back or on before its spawn, its
\* process does not come to life, and it stays quiet.
Falls(x, y) ==
  /\ y.pc \in Early => x.pc \in Early /\ (y.pc = "reopen" <=> x.pc = "reopen")
  /\ y.awaits = x.awaits
  /\ y.proc \in Live => x.proc \in Live
  /\ y.proc = "alive" => x.proc = "alive"
  /\ x.proc \in {"none", "ended"} => y.proc = x.proc
  /\ x.quiet => y.quiet

\* The same for a step that leaves no process alive when it silences the run.
Tame(x, y) == y.proc = "alive" /\ y.quiet => x.quiet
Follows(x, y) == Falls(x, y) /\ Tame(x, y)

\* A run that will not spawn any more.
Gone(x) == x.quiet \/ x.pc \notin Early

\* An agent that nobody waits for is ending, unless the daemon stops.  It is no longer the
\* agent of the chat, or its run is quiet already.
KillWaits(r) == \E i \in DOMAIN writes : writes[i].cont = "kill" /\ writes[i].by = r
Loose(r) == run[r].proc = "alive" /\ (run[r].quiet \/ cur # r)
LooseEnds == \A r \in Runs : Loose(r) => stopping \/ KillWaits(r)

\* A step that lets an agent go ends it, and none comes to life while the daemon stops.
LooseStep == \A r \in Runs : Loose(r)' => Loose(r) \/ stopping' \/ KillWaits(r)'
AliveStep == stopping => \A r \in Runs : run'[r].proc = "alive" => run[r].proc = "alive"

\* What a step keeps.
Holds == StartInv' /\ LooseStep /\ AliveStep

-----------------------------------------------------------------------------
(* Steps that follow the run. *)

\* A run that does not change follows itself.
LEMMA SameFollows == ASSUME NEW x PROVE Follows(x, x)
  BY DEF Follows, Falls, Tame, Live

\* Two steps in a row follow the run.
LEMMA FollowsOn ==
  ASSUME NEW x, NEW y, NEW z, Follows(x, y), Follows(y, z) PROVE Follows(x, z)
  BY DEF Follows, Falls, Tame, Live, Early

LEMMA FallsOn ==
  ASSUME NEW x, NEW y, NEW z, Falls(x, y), Falls(y, z) PROVE Falls(x, z)
  BY DEF Falls, Live, Early

\* So does a step that leaves the process, the wait and the place of the run.
LEMMA KeepFalls ==
  ASSUME NEW x, NEW y, y.awaits = x.awaits, y.proc = x.proc, x.quiet => y.quiet,
         y.pc = x.pc \/ y.pc \notin Early
  PROVE  Falls(x, y)
  BY DEF Falls, Live, Early

\* The activity that the idle timer sees.
LEMMA TouchFollows == ASSUME NEW x \in RunRecord PROVE Follows(x, Touch(x))
  BY DEF Follows, Falls, Tame, Touch, RunRecord

\* `silence`
LEMMA SilenceFalls ==
  ASSUME NEW x \in RunRecord
  PROVE  Falls(x, Silence(x)) /\ Silence(x).quiet /\ Silence(x).proc = x.proc
<1>1. Silence(x).quiet = TRUE /\ Silence(x).awaits = x.awaits /\ Silence(x).proc = x.proc
      /\ Silence(x).pc = x.pc
  BY DEF Silence, RunRecord
<1> QED  BY <1>1, KeepFalls

\* The request that the process ends.
LEMMA EndProcessFollows ==
  ASSUME NEW x \in RunRecord
  PROVE  /\ Follows(x, EndProcess(x)) /\ EndProcess(x).quiet = x.quiet
         /\ EndProcess(x).pc = x.pc /\ EndProcess(x).proc # "alive"
  BY DEF Follows, Falls, Tame, EndProcess, RunRecord, Live, Early

\* `quit`
LEMMA QuitFollows ==
  ASSUME NEW x \in RunRecord
  PROVE  Follows(x, Quit(x)) /\ Quit(x).quiet /\ Quit(x).proc # "alive"
<1>1. Falls(x, Quit(x)) /\ Quit(x).quiet /\ Quit(x).proc # "alive"
  BY SilenceFalls, EndProcessFollows, SilenceType, FallsOn DEF Quit, Follows
<1> QED  BY <1>1 DEF Follows, Tame

\* `fail`
LEMMA FailFalls ==
  ASSUME NEW x \in RunRecord
  PROVE  Falls(x, Fail(x)) /\ Fail(x).quiet /\ Fail(x).proc = x.proc
  BY SilenceFalls, SameFollows DEF Fail, Follows

\* A coroutine that returns, or goes on after the spawn.
LEMMA PlaceFollows ==
  ASSUME NEW x \in RunRecord, NEW p \in Places \ Early
  PROVE  Follows(x, [x EXCEPT !.pc = p]) /\ Gone([x EXCEPT !.pc = p])
<1>1. [x EXCEPT !.pc = p].pc = p /\ [x EXCEPT !.pc = p].awaits = x.awaits
      /\ [x EXCEPT !.pc = p].proc = x.proc /\ [x EXCEPT !.pc = p].quiet = x.quiet
  BY DEF RunRecord
<1> QED  BY <1>1, KeepFalls DEF Gone, Follows, Tame

\* `fail` of a coroutine that returns.
LEMMA FailOverFalls ==
  ASSUME NEW x \in RunRecord
  PROVE  Falls(x, [Fail(x) EXCEPT !.pc = "over"]) /\ Gone([Fail(x) EXCEPT !.pc = "over"])
<1>1. "over" \in Places \ Early
  BY DEF Places, Early
<1> QED  BY <1>1, FailFalls, FailType, PlaceFollows, FallsOn DEF Follows

\* The resolutions of open requests.
LEMMA CancelOpenFollows == ASSUME NEW x \in RunRecord PROVE Follows(x, CancelOpen(x))
<1>1. [x EXCEPT !.open = {}] \in RunRecord /\ Follows(x, [x EXCEPT !.open = {}])
  BY DEF Follows, Falls, Tame, RunRecord
<1> QED  BY <1>1, TouchFollows, FollowsOn, SameFollows DEF CancelOpen

\* `setBackground`
LEMMA SetBackgroundFollows ==
  ASSUME NEW x \in RunRecord, NEW job, NEW own
  PROVE  Follows(x, SetBackground(x, job, own))
  BY DEF Follows, Falls, Tame, SetBackground, RunRecord

\* `endTurn`
LEMMA EndTurnFollows == ASSUME NEW x \in RunRecord PROVE Follows(x, EndTurn(x))
<1> DEFINE y == [x EXCEPT !.turning = FALSE, !.pc = "idle", !.open = {}]
<1>1. "idle" \notin Early /\ "over" \notin Early
  BY DEF Early
<1>2. y \in RunRecord
  BY DEF RunRecord, Places
<1>3. Follows(x, y) /\ Follows(x, [x EXCEPT !.turning = FALSE, !.pc = "over"])
  BY <1>1 DEF Follows, Falls, Tame, RunRecord
<1> QED  BY <1>2, <1>3, TouchFollows, FollowsOn DEF EndTurn

\* The first part of `runTurn`.
LEMMA RunTurnFollows == ASSUME NEW x \in RunRecord PROVE Follows(x, RunTurn(x))
<1> DEFINE y == [x EXCEPT !.unsent = <<>>, !.cancelAsked = FALSE, !.turnCancelled = FALSE]
<1>1. <<>> \in Seq(Texts)
  OBVIOUS
<1>2. y \in RunRecord /\ Follows(x, y)
  BY <1>1 DEF Follows, Falls, Tame, RunRecord
<1>3. "prompt" \in Places \ Early /\ "over" \in Places \ Early
  BY DEF Places, Early, AtAgent
<1> HIDE DEF y
<1>4. Follows(y, [y EXCEPT !.pc = "prompt"]) /\ Follows(y, [y EXCEPT !.pc = "over"])
  BY <1>2, <1>3, PlaceFollows
<1>5. [y EXCEPT !.pc = "over"] \in RunRecord
  BY <1>2, <1>3, PlaceType
<1>6. Follows(y, EndProcess([y EXCEPT !.pc = "over"]))
  BY <1>4, <1>5, EndProcessFollows, FollowsOn
<1> QED  BY <1>2, <1>4, <1>6, FollowsOn DEF RunTurn, y

\* A message or output that makes the checks of the background old.
LEMMA StaleFollows ==
  ASSUME NEW x \in RunRecord PROVE Follows(x, StaleAll(x)) /\ Follows(x, StaleMarker(x))
<1>1. \A m, s : Follows(x, [x EXCEPT !.marker = m, !.stopper = s])
  BY DEF Follows, Falls, Tame, RunRecord
<1>2. \A m : Follows(x, [x EXCEPT !.marker = m])
  BY DEF Follows, Falls, Tame, RunRecord
<1> QED  BY <1>1, <1>2 DEF StaleAll, StaleMarker

\* A connection that closes.
LEMMA ConnectionLostFollows ==
  ASSUME NEW x \in RunRecord
  PROVE  Follows(x, ConnectionLost(x)) /\ ConnectionLost(x).proc = x.proc
<1>1. "over" \notin Early
  BY DEF Early
<1> QED  BY <1>1 DEF Follows, Falls, Tame, ConnectionLost, RunRecord

\* A message that joins the start.
LEMMA HoldFollows == ASSUME NEW x \in RunRecord, NEW t PROVE Follows(x, Hold(x, t))
  BY DEF Follows, Falls, Tame, Hold, RunRecord

\* A message that is not written, which can end the coroutine of a restart.
LEMMA HoldFailedFollows == ASSUME NEW x \in RunRecord PROVE Follows(x, HoldFailed(x))
<1>1. "over" \notin Early
  BY DEF Early
<1> QED  BY <1>1 DEF Follows, Falls, Tame, HoldFailed, RunRecord

\* The result of `begin` before the first prompt, or instead of it.
LEMMA FirstTurnFollows ==
  ASSUME TypeOK, NEW x \in RunRecord PROVE Follows(x, FirstTurn(x))
<1> DEFINE y == [x EXCEPT !.reaches = TRUE]
           u == IF answers.answered THEN <<>> ELSE y.unsent
           z == [y EXCEPT !.unsent = u, !.turnCancelled = TRUE]
<1>1. y \in RunRecord /\ Follows(x, y)
  BY DEF Follows, Falls, Tame, RunRecord
<1>2. <<>> \in Seq(Texts)
  OBVIOUS
<1>3. u \in Seq(Texts)
  BY <1>1, <1>2 DEF RunRecord
<1> HIDE DEF u, y
<1>4. z \in RunRecord /\ Follows(y, z)
  BY <1>1, <1>3 DEF Follows, Falls, Tame, RunRecord
<1>5. Follows(x, RunTurn(y))
  BY <1>1, RunTurnFollows, FollowsOn
<1>6. Follows(x, z)
  BY <1>1, <1>4, FollowsOn
<1> HIDE DEF z
<1>7. Follows(z, EndTurn(z))
  BY <1>4, EndTurnFollows
<1>8. Follows(x, EndTurn(z))
  BY <1>6, <1>7, FollowsOn
<1>9. FirstTurn(x) = IF ~x.cancelledEarly THEN RunTurn(y) ELSE EndTurn(z)
  BY DEF FirstTurn, y, z, u
<1> QED  BY <1>5, <1>8, <1>9

-----------------------------------------------------------------------------
(* Steps that follow every run keep the invariant. *)

\* A step that spawns nothing and starts nothing keeps the invariant, if a run that is no
\* longer the current one will not spawn any more, and its agent ends.
LEMMA StepHolds ==
  ASSUME TypeInv, StartInv, used' = used, ends' = ends, LooseStep,
         \A r \in Runs : Falls(run[r], run'[r]),
         \A r \in 1..used : cur = r /\ cur' # r => Gone(run'[r])
  PROVE  Holds
<1>1. /\ \A r \in 1..used : r \in Runs
      /\ ends # NoRun => ends \in Runs
  BY RunnerAssumption DEF TypeInv, TypeOK, Runs, NoRun
<1>2. Unspawned'
  BY DEF StartInv, Unspawned, Falls, Live
<1>3. \A r \in 1..used : Starting(r)' => Starting(r) /\ (run'[r].pc = "reopen" <=> run[r].pc = "reopen")
  BY <1>1 DEF Starting, Falls
<1>4. StartIsCurrent'
  BY <1>1, <1>3 DEF StartInv, StartIsCurrent, Falls, Gone, Starting
<1>5. StartWaited'
  BY <1>1, <1>3 DEF StartInv, StartWaited, Falls
<1>6. LiveIsLast'
  BY DEF StartInv, LiveIsLast, Falls
<1>7. AliveStep
  BY DEF AliveStep, Falls
<1> QED  BY <1>2, <1>4, <1>5, <1>6, <1>7 DEF StartInv, Holds

\* The same for a step of one run, which may let the agent of this run go if it ends it.
LEMMA FailHolds ==
  ASSUME TypeInv, StartInv, used' = used, ends' = ends, NEW r, NEW y,
         run' = [run EXCEPT ![r] = y], r \in Runs => Falls(run[r], y),
         cur' # cur => cur = r /\ Gone(y),
         r \in Runs /\ y.proc = "alive" => Loose(r) \/ stopping' \/ KillWaits(r)'
  PROVE  Holds
<1>1. \A s \in Runs : run'[s] = IF s = r THEN y ELSE run[s]
  BY DEF TypeInv, TypeOK
<1>2. \A s \in Runs : Falls(run[s], run'[s])
  BY <1>1, SameFollows DEF Follows
<1>3. \A s \in 1..used : s \in Runs
  BY RunnerAssumption DEF TypeInv, TypeOK, Runs
<1>4. \A s \in 1..used : cur = s /\ cur' # s => Gone(run'[s])
  BY <1>1, <1>3
<1>5. ASSUME NEW s \in Runs, Loose(s)' PROVE Loose(s) \/ stopping' \/ KillWaits(s)'
  BY <1>1, <1>5 DEF Loose
<1> QED  BY <1>2, <1>4, <1>5, StepHolds DEF LooseStep

\* The same for a step of one run that silences no agent.
LEMMA RunHolds ==
  ASSUME TypeInv, StartInv, used' = used, ends' = ends, NEW r, NEW y,
         run' = [run EXCEPT ![r] = y], r \in Runs => Follows(run[r], y),
         cur' # cur => cur = r /\ Gone(y) /\ y.proc # "alive"
  PROVE  Holds
<1>1. \A s \in Runs : run'[s] = IF s = r THEN y ELSE run[s]
  BY DEF TypeInv, TypeOK
<1>2. \A s \in Runs : Follows(run[s], run'[s])
  BY <1>1, SameFollows
<1>3. \A s \in 1..used : s \in Runs
  BY RunnerAssumption DEF TypeInv, TypeOK, Runs
<1>4. \A s \in 1..used : cur = s /\ cur' # s => Gone(run'[s])
  BY <1>1, <1>3
<1>5. ASSUME NEW s \in Runs, Loose(s)' PROVE Loose(s)
  BY <1>1, <1>2, <1>5 DEF Loose, Follows, Falls, Tame
<1> QED  BY <1>2, <1>4, <1>5, StepHolds DEF LooseStep, Follows

\* A step that leaves the runs keeps the invariant.
LEMMA SameHolds ==
  ASSUME TypeInv, StartInv, UNCHANGED <<table, run, cur, ends>> PROVE Holds
<1>1. StartInv'
  BY DEF table, StartInv, Unspawned, StartIsCurrent, Starting, StartWaited, LiveIsLast
<1> QED  BY <1>1 DEF Holds, LooseStep, AliveStep, Loose

\* The run that a step registers waits for the last process, whatever that is.
LEMMA RegisterHolds ==
  ASSUME TypeInv, StartInv, NEW x \in RunRecord, x.pc = "reopen", x.proc = "none",
         cur = NoRun, Register(x), ends' = ends
  PROVE  Holds
<1> DEFINE n == used + 1
           y == Registered(x)
<1>1. y.pc = "reopen" /\ y.proc = "none" /\ y.awaits = ends
  BY DEF Registered, RunRecord
<1>2. /\ used \in 0..MaxRuns /\ used < MaxRuns /\ MaxRuns \in Nat
      /\ used' = n /\ cur' = n /\ ends \in 0..used
      /\ run' = [run EXCEPT ![n] = y]
  BY RunnerAssumption DEF TypeInv, TypeOK, Register
<1>3. /\ n \in Runs /\ (\A r \in 1..used' : r \in Runs /\ (r \in 1..used \/ r = n))
      /\ ends # n /\ (ends # NoRun => ends \in Runs) /\ NoRun \notin 1..used
  BY <1>2 DEF Runs, NoRun
<1> HIDE DEF n, y
<1>4. \A s \in Runs : run'[s] = IF s = n THEN y ELSE run[s]
  BY <1>2 DEF TypeInv, TypeOK
<1>5. Unspawned'
  BY <1>1, <1>4 DEF StartInv, Unspawned
<1>6. \A r \in 1..used : ~Starting(r)
  BY <1>3 DEF StartInv, StartIsCurrent
<1>7. StartIsCurrent'
  BY <1>1, <1>2, <1>3, <1>4, <1>6 DEF StartIsCurrent, Starting
<1>8. StartWaited'
  BY <1>1, <1>3, <1>4, <1>6 DEF StartWaited, Starting
<1>9. LiveIsLast'
  BY <1>1, <1>4 DEF StartInv, LiveIsLast, Live
<1>10. NoRun \notin Runs
  BY DEF Runs, NoRun
<1>11. LooseStep
  BY <1>1, <1>4, <1>10 DEF LooseStep, Loose
<1>12. AliveStep
  BY <1>1, <1>4 DEF AliveStep
<1> QED  BY <1>5, <1>7, <1>8, <1>9, <1>11, <1>12 DEF StartInv, Holds

\* A run that fails asks for the end of its agent with its write, if it was not quiet.
LEMMA FailEnds ==
  ASSUME TypeInv, NEW r \in Runs, NEW x, x.quiet = run[r].quiet, NEW s \in Seq(Write),
         writes' = s \o FailWrites(x, r)
  PROVE  run[r].proc = "alive" => Loose(r) \/ KillWaits(r)'
<1> SUFFICES ASSUME run[r].proc = "alive", ~Loose(r) PROVE KillWaits(r)'
  OBVIOUS
<1>1. FailWrites(x, r) = <<WThen(Plain("failed"), r, "kill")>>
  BY DEF Loose, FailWrites
<1> DEFINE w == WThen(Plain("failed"), r, "kill")
<1>2. w.cont = "kill" /\ w.by = r
  BY DEF WThen
<1> HIDE DEF w
<1>3. writes' = Append(s, w)
  BY <1>1 DEF w
<1>4. Len(s) + 1 \in DOMAIN writes' /\ writes'[Len(s) + 1] = w
  BY <1>3
<1> QED  BY <1>2, <1>4 DEF KillWaits

-----------------------------------------------------------------------------
(* One lemma for each group of actions. *)

\* A message that clients send.
LEMMA SendHolds == ASSUME TypeInv, StartInv, NEW t \in Texts, Send(t) PROVE Holds
<1>1. CASE RefuseMessage(t)
  BY <1>1, SameHolds DEF RefuseMessage
<1>2. CASE Restart(t)
  <2>1. NewRun.pc = "reopen" /\ NewRun.proc = "none"
    BY DEF NewRun
  <2>2. Hold(NewRun, t) \in RunRecord
    BY NewRunType, HoldType
  <2>3. Hold(NewRun, t).pc = "reopen" /\ Hold(NewRun, t).proc = "none"
    BY <2>1, NewRunType DEF Hold, RunRecord
  <2> QED  BY <1>2, <2>2, <2>3, RegisterHolds DEF Restart
<1>3. CASE JoinStart(t)
  <2> DEFINE x == run[cur]
             y == IF x.pickRelaunch
                  THEN [x EXCEPT !.pickRelaunch = FALSE, !.reaches = FALSE, !.earlierPicks = pick.issued]
                  ELSE x
  <2>1. x \in RunRecord /\ pick.issued \in 0..MaxPicks
    BY <1>3, Registry DEF JoinStart, TypeInv, TypeOK, Pick
  <2>2. y \in RunRecord /\ Follows(x, y)
    <3>1. [x EXCEPT !.pickRelaunch = FALSE, !.reaches = FALSE, !.earlierPicks = pick.issued]
            \in RunRecord
      BY <2>1 DEF RunRecord
    <3>2. Follows(x, [x EXCEPT !.pickRelaunch = FALSE, !.reaches = FALSE, !.earlierPicks = pick.issued])
      BY <2>1 DEF Follows, Falls, Tame, RunRecord
    <3> QED  BY <2>1, <3>1, <3>2, SameFollows
  <2>3. Follows(x, Hold(y, t))
    BY <2>2, HoldFollows, FollowsOn
  <2>4. run' = [run EXCEPT ![cur] = Hold(y, t)]
    BY <1>3 DEF JoinStart
  <2> QED  BY <1>3, <2>3, <2>4, RunHolds DEF JoinStart, table
<1>4. CASE JoinTurn(t)
  <2> DEFINE x == run[cur]
             y == [x EXCEPT !.unsent = Append(@, t), !.job = FALSE, !.own = FALSE,
                            !.steering = IF ~x.cancelAsked /\ Connected(x) THEN @ \union {t} ELSE @]
  <2>1. x \in RunRecord
    BY <1>4, Registry DEF JoinTurn, TypeInv
  <2>2. y \in RunRecord /\ Follows(x, y)
    <3>1. Append(x.unsent, t) \in Seq(Texts) /\ x.steering \union {t} \in SUBSET Texts
      BY <2>1 DEF RunRecord
    <3>2. y \in RunRecord
      BY <2>1, <3>1 DEF RunRecord
    <3>3. Follows(x, y)
      BY <2>1 DEF Follows, Falls, Tame, RunRecord
    <3> QED  BY <3>2, <3>3
  <2>3. Follows(x, Touch(y))
    BY <2>2, TouchFollows, FollowsOn
  <2>4. run' = [run EXCEPT ![cur] = Touch(y)]
    BY <1>4 DEF JoinTurn
  <2> QED  BY <1>4, <2>3, <2>4, RunHolds DEF JoinTurn, table
<1>5. CASE StartTurn(t)
  <2> DEFINE x == run[cur]
             y == [x EXCEPT !.turning = TRUE, !.job = FALSE, !.own = FALSE, !.ownStopped = FALSE]
  <2>1. x \in RunRecord
    BY <1>5, Registry DEF StartTurn, TypeInv
  <2>2. y \in RunRecord /\ Follows(x, y)
    <3>1. y \in RunRecord
      BY <2>1 DEF RunRecord
    <3>2. Follows(x, y)
      BY <2>1 DEF Follows, Falls, Tame, RunRecord
    <3> QED  BY <3>1, <3>2
  <2> HIDE DEF y
  <2>3. StaleAll(y) \in RunRecord /\ Follows(y, StaleAll(y))
    BY <2>2, StaleType, StaleFollows
  <2>4. Touch(StaleAll(y)) \in RunRecord /\ Follows(x, Touch(StaleAll(y)))
    BY <2>2, <2>3, TouchType, TouchFollows, FollowsOn
  <2>5. Follows(x, RunTurn(Touch(StaleAll(y))))
    BY <2>4, RunTurnFollows, FollowsOn
  <2>6. run' = [run EXCEPT ![cur] = RunTurn(Touch(StaleAll(y)))]
    BY <1>5 DEF StartTurn, y
  <2> QED  BY <1>5, <2>5, <2>6, RunHolds DEF StartTurn, table
<1> QED  BY <1>1, <1>2, <1>3, <1>4, <1>5 DEF Send

\* A step of `forget` changes the current run only if it is that run.
LEMMA ForgetRun == ASSUME NEW r, Forget(r), cur' # cur PROVE cur = r
  BY DEF Forget

\* A message that joins a start.
LEMMA HoldStepHolds ==
  ASSUME TypeInv, StartInv, NEW r \in 1..used, NEW t \in Texts,
         HoldRefused(r, t) \/ HoldStopping(r, t) \/ HoldAgain(r, t) \/ HoldWrite(r, t)
  PROVE  Holds
<1> DEFINE x == run[r]
<1>1. x \in RunRecord
  BY Registry DEF TypeInv
<1>2. Follows(x, HoldFailed(x))
  BY <1>1, HoldFailedFollows
<1>3. CASE HoldRefused(r, t)
  BY <1>2, <1>3, RunHolds DEF HoldRefused, table
<1>4. CASE HoldAgain(r, t)
  BY <1>2, <1>4, RunHolds DEF HoldAgain, table
<1>5. CASE HoldWrite(r, t)
  BY <1>5, SameHolds DEF HoldWrite
<1>6. CASE HoldStopping(r, t) /\ ChatBusy(fold)
  BY <1>2, <1>6, RunHolds DEF HoldStopping, table
<1>7. CASE HoldStopping(r, t) /\ ~ChatBusy(fold)
  <2>1. Silence(x) \in RunRecord /\ Falls(x, Silence(x)) /\ Silence(x).quiet
    BY <1>1, SilenceType, SilenceFalls
  <2>2. Falls(Silence(x), HoldFailed(Silence(x)))
    BY <2>1, HoldFailedFollows DEF Follows
  <2>3. Falls(x, HoldFailed(Silence(x))) /\ Gone(HoldFailed(Silence(x)))
    BY <2>1, <2>2, FallsOn DEF Falls, Gone
  <2>4. run' = [run EXCEPT ![r] = HoldFailed(Silence(x))] /\ Forget(r)
        /\ used' = used /\ ends' = ends /\ stopping'
    BY <1>7 DEF HoldStopping, table, daemon
  <2> QED  BY <2>3, <2>4, ForgetRun, FailHolds
<1> QED  BY <1>3, <1>4, <1>5, <1>6, <1>7

\* The start of a run, up to the spawn.
LEMMA LaunchStepHolds ==
  ASSUME TypeInv, StartInv, NEW r \in 1..used,
         Reopen(r) \/ LaunchFails(r) \/ LaunchOver(r) \/ Spawn(r)
  PROVE  Holds
<1> DEFINE x == run[r]
<1>1. x \in RunRecord /\ r \in Runs
  BY Registry DEF TypeInv
<1>2. CASE Reopen(r) /\ (stopping \/ x.quiet)
  <2> DEFINE drops == x.earlyCancels > 0 /\ answers.answered
             y == [x EXCEPT !.unsent = IF drops THEN <<>> ELSE TextsBefore(x)]
  <2>1. run' = [run EXCEPT ![r] = Overtaken(y)] /\ Forget(r) /\ used' = used /\ ends' = ends
    BY <1>2 DEF Reopen, table
  <2>2. y.pc = x.pc /\ y.awaits = x.awaits /\ y.proc = x.proc /\ y.quiet = x.quiet
        /\ DOMAIN y = DOMAIN x
    BY <1>1 DEF RunRecord
  <2> HIDE DEF y
  <2>3. /\ Overtaken(y).pc = "over" /\ Overtaken(y).awaits = x.awaits
        /\ Overtaken(y).proc = x.proc /\ Overtaken(y).quiet = TRUE
    BY <1>1, <2>2 DEF Overtaken, Silence, RunRecord
  <2>4. Falls(x, Overtaken(y)) /\ Gone(Overtaken(y))
    BY <2>3 DEF Falls, Gone, Early
  <2>5. x.proc = "none"
    BY <1>1, <1>2 DEF Reopen, StartInv, Unspawned, Early
  <2> QED  BY <2>1, <2>3, <2>4, <2>5, ForgetRun, FailHolds
<1>3. CASE Reopen(r) /\ ~(stopping \/ x.quiet)
  <2> DEFINE drops == x.earlyCancels > 0 /\ answers.answered
             z == [x EXCEPT !.unsent = IF drops THEN <<>> ELSE TextsBefore(x)]
             y == [z EXCEPT !.pc = "interrupt"]
  <2>1. /\ run' = [run EXCEPT ![r] = y]
        /\ used' = used /\ ends' = ends /\ cur' = cur /\ EndsResolved(x.awaits)
        /\ x.pc = "reopen"
    BY <1>3 DEF Reopen, table
  <2>2. z.pc = x.pc /\ z.awaits = x.awaits /\ z.proc = x.proc /\ z.quiet = x.quiet
        /\ DOMAIN z = DOMAIN x
    BY <1>1 DEF RunRecord
  <2> HIDE DEF z
  <2>3. y.pc = "interrupt" /\ y.awaits = x.awaits /\ y.proc = x.proc /\ y.quiet = x.quiet
    BY <1>1, <2>2 DEF RunRecord
  <2> HIDE DEF y
  <2>4. \A s \in Runs : run'[s] = IF s = r THEN y ELSE run[s]
    BY <2>1 DEF TypeInv, TypeOK
  <2>5. /\ \A s \in 1..used : s \in Runs
        /\ ends # NoRun => ends \in Runs
        /\ x.proc = "none"
    BY <1>1, <2>1, RunnerAssumption DEF TypeInv, TypeOK, Runs, NoRun, StartInv, Unspawned, Early
  <2>6. Unspawned'
    BY <2>3, <2>4, <2>5 DEF StartInv, Unspawned
  <2>7. \A s \in 1..used : Starting(s)' => Starting(s)
    BY <2>1, <2>3, <2>4, <2>5 DEF Starting, Early
  <2>8. StartIsCurrent'
    BY <2>1, <2>3, <2>4, <2>5, <2>7 DEF StartInv, StartIsCurrent
  <2>9. \A s \in Runs : run'[s].proc = run[s].proc
    BY <2>3, <2>4
  <2>10. \A s \in 1..used : Starting(s)' /\ s # r => FALSE
    BY <1>1, <1>3, <2>1, <2>5, <2>7 DEF StartInv, StartIsCurrent, Starting, Early
  <2>11. ends # NoRun => run[ends].proc = "ended"
    BY <1>1, <1>3, <2>1 DEF StartInv, StartIsCurrent, Starting, Early, EndsResolved
  <2>12. StartWaited'
    BY <2>1, <2>5, <2>9, <2>11 DEF StartWaited
  <2>13. LiveIsLast'
    BY <2>1, <2>9 DEF StartInv, LiveIsLast
  <2>14. LooseStep /\ AliveStep
    BY <2>1, <2>3, <2>4, <2>9 DEF LooseStep, AliveStep, Loose
  <2> QED  BY <2>6, <2>8, <2>12, <2>13, <2>14 DEF StartInv, Holds
<1>4. CASE LaunchFails(r)
  <2>1. run' = [run EXCEPT ![r] = [Fail(x) EXCEPT !.pc = "over"]] /\ used' = used /\ ends' = ends
        /\ (cur' = cur \/ Forget(r))
    BY <1>4 DEF LaunchFails, table
  <2>2. x.proc = "none"
    BY <1>1, <1>4 DEF LaunchFails, StartInv, Unspawned, Early
  <2>3. [Fail(x) EXCEPT !.pc = "over"].proc = "none"
    BY <1>1, <2>2, FailOverFalls DEF Falls
  <2> QED  BY <1>1, <2>1, <2>3, FailOverFalls, ForgetRun, FailHolds
<1>5. CASE LaunchOver(r)
  <2>1. "over" \in Places \ Early
    BY DEF Places, Early
  <2>2. run' = [run EXCEPT ![r] = [x EXCEPT !.pc = "over"]]
    BY <1>1, <1>5 DEF LaunchOver, TypeInv, TypeOK
  <2> QED  BY <1>1, <1>5, <2>1, <2>2, PlaceFollows, RunHolds DEF LaunchOver, table
<1>6. CASE Spawn(r)
  <2> DEFINE y == [x EXCEPT !.pc = "init", !.proc = "alive", !.idle = "on"]
  <2>1. run' = [run EXCEPT ![r] = y] /\ used' = used /\ ends' = r /\ cur' = cur /\ Starting(r)
        /\ x.pc = "launch"
    BY <1>1, <1>6 DEF Spawn, table, TypeInv, TypeOK, Starting, Early
  <2>2. y.pc = "init" /\ y.proc = "alive"
    BY <1>1 DEF RunRecord
  <2> HIDE DEF y
  <2>3. \A s \in Runs : run'[s] = IF s = r THEN y ELSE run[s]
    BY <2>1 DEF TypeInv, TypeOK
  <2>4. /\ \A s \in 1..used : s \in Runs
        /\ ends # NoRun => ends \in Runs
        /\ NoRun \notin Runs
    BY RunnerAssumption DEF TypeInv, TypeOK, Runs, NoRun
  <2>5. cur = r /\ \A s \in 1..used : Starting(s) => s = r
    BY <2>1 DEF StartInv, StartIsCurrent
  <2>6. ends # NoRun => run[ends].proc = "ended"
    BY <2>1 DEF StartInv, StartWaited
  <2>7. \A s \in Runs : run[s].proc \notin Live
    BY <2>4, <2>6 DEF StartInv, LiveIsLast, Live
  <2>8. Unspawned'
    BY <2>2, <2>3 DEF StartInv, Unspawned, Early
  <2>9. \A s \in 1..used : ~Starting(s)'
    BY <2>2, <2>3, <2>4, <2>5 DEF Starting, Early
  <2>10. StartIsCurrent' /\ StartWaited'
    BY <2>1, <2>9 DEF StartIsCurrent, StartWaited
  <2>11. LiveIsLast'
    BY <2>1, <2>3, <2>7 DEF LiveIsLast
  <2>12. ~stopping /\ ~x.quiet
    BY <1>6 DEF Spawn
  <2>13. y.quiet = x.quiet
    BY <1>1 DEF RunRecord, y
  <2>14. LooseStep /\ AliveStep
    BY <2>1, <2>3, <2>5, <2>12, <2>13 DEF LooseStep, AliveStep, Loose
  <2> QED  BY <2>8, <2>10, <2>11, <2>14 DEF StartInv, Holds
<1> QED  BY <1>2, <1>3, <1>4, <1>5, <1>6

\* The start of a run, from the spawn to the session.
LEMMA SessionStepHolds ==
  ASSUME TypeInv, StartInv, NEW r \in 1..used,
         Initialized(r) \/ SessionResumed(r) \/ SessionLost(r) \/ SessionCreated(r) \/ AgentFails(r)
  PROVE  Holds
<1> DEFINE x == run[r]
<1>1. x \in RunRecord /\ r \in Runs
  BY Registry DEF TypeInv
<1>2. {"over", "open", "create", "options", "store"} \subseteq Places \ Early
  BY DEF Places, Early, AtAgent
<1>3. \A p \in {"over", "open", "create", "options", "store"} : Follows(x, [x EXCEPT !.pc = p])
  BY <1>1, <1>2, PlaceFollows
<1>4. \A u : Follows(x, [x EXCEPT !.pc = "create", !.unsent = u])
  BY <1>1, <1>2 DEF Follows, Falls, Tame, RunRecord
<1>5. CASE Initialized(r)
  <2>1. Follows(x, OpenSession(x))
    BY <1>3, <1>4 DEF OpenSession
  <2>2. run' = [run EXCEPT ![r] = IF x.quiet THEN [x EXCEPT !.pc = "over"] ELSE OpenSession(x)]
    BY <1>5 DEF Initialized
  <2>3. used' = used /\ ends' = ends /\ cur' = cur
    BY <1>5 DEF Initialized, table
  <2> QED  BY <1>3, <2>1, <2>2, <2>3, RunHolds
<1>6. CASE SessionResumed(r)
  <2>1. run' = [run EXCEPT ![r] = [x EXCEPT !.pc = "options"]]
    BY <1>1, <1>6 DEF SessionResumed, TypeInv, TypeOK
  <2>2. used' = used /\ ends' = ends /\ cur' = cur
    BY <1>6 DEF SessionResumed, table
  <2> QED  BY <1>3, <2>1, <2>2, RunHolds
<1>7. CASE SessionLost(r) /\ answers.answered
  <2>1. run' = [run EXCEPT ![r] = [Fail(x) EXCEPT !.pc = "over"]]
    BY <1>7 DEF SessionLost
  <2>2. used' = used /\ ends' = ends /\ (cur' = cur \/ Forget(r))
    BY <1>7 DEF SessionLost, table
  <2>3. writes' = writes \o FailWrites(x, r)
    BY <1>7 DEF SessionLost
  <2>4. x.proc = "alive" => Loose(r) \/ KillWaits(r)'
    BY <1>1, <2>3, FailEnds DEF TypeInv, TypeOK
  <2> DEFINE y == [Fail(x) EXCEPT !.pc = "over"]
  <2>5. Falls(x, y) /\ Gone(y)
    BY <1>1, FailOverFalls
  <2> HIDE DEF y
  <2>6. y.proc = "alive" => x.proc = "alive"
    BY <2>5 DEF Falls
  <2>7. run' = [run EXCEPT ![r] = y] /\ (cur' # cur => cur = r)
    BY <2>1, <2>2, ForgetRun DEF y
  <2> QED  BY <2>2, <2>4, <2>5, <2>6, <2>7, FailHolds
<1>8. CASE SessionLost(r) /\ ~answers.answered
  <2>1. run' = [run EXCEPT ![r] = [x EXCEPT !.pc = "create", !.unsent = answers.unanswered]]
    BY <1>1, <1>8 DEF SessionLost, TypeInv, TypeOK
  <2>2. used' = used /\ ends' = ends /\ cur' = cur
    BY <1>8 DEF SessionLost, table
  <2> QED  BY <1>4, <2>1, <2>2, RunHolds
<1>9. CASE SessionCreated(r)
  <2>1. run' = [run EXCEPT ![r] = [x EXCEPT !.pc = "store", !.created = TRUE]]
    BY <1>1, <1>9 DEF SessionCreated, TypeInv, TypeOK
  <2>2. Follows(x, [x EXCEPT !.pc = "store", !.created = TRUE])
    BY <1>1, <1>2 DEF Follows, Falls, Tame, RunRecord
  <2>3. used' = used /\ ends' = ends /\ cur' = cur
    BY <1>9 DEF SessionCreated, table
  <2> QED  BY <2>1, <2>2, <2>3, RunHolds
<1>10. CASE AgentFails(r)
  <2>1. run' = [run EXCEPT ![r] = [Fail(x) EXCEPT !.pc = "over"]]
    BY <1>10 DEF AgentFails
  <2>2. used' = used /\ ends' = ends /\ (cur' = cur \/ Forget(r))
    BY <1>10 DEF AgentFails, table
  <2>3. writes' = writes \o FailWrites(x, r)
    BY <1>10 DEF AgentFails
  <2>4. x.proc = "alive" => Loose(r) \/ KillWaits(r)'
    BY <1>1, <2>3, FailEnds DEF TypeInv, TypeOK
  <2> DEFINE y == [Fail(x) EXCEPT !.pc = "over"]
  <2>5. Falls(x, y) /\ Gone(y)
    BY <1>1, FailOverFalls
  <2> HIDE DEF y
  <2>6. y.proc = "alive" => x.proc = "alive"
    BY <2>5 DEF Falls
  <2>7. run' = [run EXCEPT ![r] = y] /\ (cur' # cur => cur = r)
    BY <2>1, <2>2, ForgetRun DEF y
  <2> QED  BY <2>2, <2>4, <2>5, <2>6, <2>7, FailHolds
<1> QED  BY <1>5, <1>6, <1>7, <1>8, <1>9, <1>10

\* The end of a start that a pick began.
LEMMA PickRelaunchOverFollows ==
  ASSUME NEW x \in RunRecord PROVE Follows(x, PickRelaunchOver(x))
<1> DEFINE y == [x EXCEPT !.pickRelaunch = FALSE, !.turning = FALSE, !.pc = "idle"]
<1>1. y \in RunRecord
  BY DEF RunRecord, Places
<1>2. Follows(x, y)
  BY DEF Follows, Falls, Tame, RunRecord, Early
<1> QED  BY <1>1, <1>2, TouchFollows, FollowsOn DEF PickRelaunchOver

\* The options of a session, and what `begin` does after them.
LEMMA OptionStepHolds ==
  ASSUME TypeInv, StartInv, NEW r \in 1..used,
         \/ OptionSent(r) \/ OptionAnswered(r) \/ OptionsQuiet(r)
         \/ OptionsDone(r) \/ PickOptionsDone(r) \/ HeldOver(r)
  PROVE  Holds
<1> DEFINE x == run[r]
<1>1. x \in RunRecord /\ r \in Runs /\ TypeOK
  BY Registry DEF TypeInv
<1>2. {"over", "pick", "options", "held", "resumed"} \subseteq Places \ Early
  BY DEF Places, Early, AtAgent
<1>3. \A p \in {"over", "pick", "options", "held", "resumed"} : Follows(x, [x EXCEPT !.pc = p])
  BY <1>1, <1>2, PlaceFollows
<1>4. used' = used /\ ends' = ends /\ cur' = cur
  BY DEF OptionSent, OptionAnswered, OptionsQuiet, OptionsDone, PickOptionsDone, HeldOver, table
<1>5. CASE OptionSent(r)
  <2>1. \/ run' = [run EXCEPT ![r] = [x EXCEPT !.pc = "pick"]]
        \/ run' = [run EXCEPT ![r] = [x EXCEPT !.pc = "over"]]
    BY <1>1, <1>5 DEF OptionSent
  <2> QED  BY <1>3, <1>4, <2>1, RunHolds
<1>6. CASE OptionAnswered(r)
  <2>1. run' = [run EXCEPT ![r] = [x EXCEPT !.pc = "options"]]
    BY <1>1, <1>6 DEF OptionAnswered
  <2> QED  BY <1>3, <1>4, <2>1, RunHolds
<1>7. CASE OptionsQuiet(r)
  <2>1. run' = [run EXCEPT ![r] = [x EXCEPT !.pc = "over"]]
    BY <1>1, <1>7 DEF OptionsQuiet
  <2> QED  BY <1>3, <1>4, <2>1, RunHolds
<1>8. CASE OptionsDone(r)
  <2> DEFINE y == [x EXCEPT !.session = TRUE]
  <2>1. y \in RunRecord
    BY <1>1 DEF RunRecord
  <2>2. Follows(x, y)
    BY <1>1 DEF Follows, Falls, Tame, RunRecord
  <2>3. \/ run' = [run EXCEPT ![r] = [y EXCEPT !.pc = "held"]]
        \/ run' = [run EXCEPT ![r] = FirstTurn(y)]
    BY <1>8 DEF OptionsDone
  <2> HIDE DEF y
  <2>4. Follows(y, [y EXCEPT !.pc = "held"]) /\ Follows(y, FirstTurn(y))
    BY <1>1, <1>2, <2>1, PlaceFollows, FirstTurnFollows
  <2>5. Follows(x, [y EXCEPT !.pc = "held"]) /\ Follows(x, FirstTurn(y))
    BY <2>2, <2>4, FollowsOn
  <2> QED  BY <1>4, <2>3, <2>5, RunHolds
<1>9. CASE PickOptionsDone(r)
  <2> DEFINE y == [x EXCEPT !.session = TRUE, !.reaches = TRUE]
  <2>1. y \in RunRecord
    BY <1>1 DEF RunRecord
  <2>2. Follows(x, y)
    BY <1>1 DEF Follows, Falls, Tame, RunRecord
  <2>3. \/ run' = [run EXCEPT ![r] = [y EXCEPT !.pc = "resumed"]]
        \/ run' = [run EXCEPT ![r] = PickRelaunchOver(y)]
    BY <1>9 DEF PickOptionsDone
  <2> HIDE DEF y
  <2>4. Follows(y, [y EXCEPT !.pc = "resumed"]) /\ Follows(y, PickRelaunchOver(y))
    BY <1>2, <2>1, PlaceFollows, PickRelaunchOverFollows
  <2>5. Follows(x, [y EXCEPT !.pc = "resumed"]) /\ Follows(x, PickRelaunchOver(y))
    BY <2>2, <2>4, FollowsOn
  <2> QED  BY <1>4, <2>3, <2>5, RunHolds
<1>10. CASE HeldOver(r)
  <2> DEFINE u == IF x.created THEN answers.unanswered ELSE x.unsent
             y == [x EXCEPT !.unsent = u]
  <2>1. u \in Seq(Texts)
    BY <1>1 DEF TypeOK, RunRecord, Answers
  <2> HIDE DEF u
  <2>2. y \in RunRecord
    BY <1>1, <2>1 DEF RunRecord
  <2>3. Follows(x, y)
    BY <1>1 DEF Follows, Falls, Tame, RunRecord
  <2>4. Follows(x, FirstTurn(y))
    BY <1>1, <2>2, <2>3, FirstTurnFollows, FollowsOn
  <2>5. \/ run' = [run EXCEPT ![r] = [x EXCEPT !.pc = "over"]]
        \/ run' = [run EXCEPT ![r] = FirstTurn(y)]
    BY <1>1, <1>10 DEF HeldOver, u
  <2> QED  BY <1>3, <1>4, <2>4, <2>5, RunHolds
<1> QED  BY <1>5, <1>6, <1>7, <1>8, <1>9, <1>10

\* A turn.
LEMMA TurnStepHolds ==
  ASSUME TypeInv, StartInv, NEW r \in 1..used,
         \/ \E reason \in BOOLEAN : PromptReturned(r, reason)
         \/ \E t \in Texts : AgentInjects(r, t) \/ SteerAnswered(r, t)
         \/ NextPrompt(r) \/ \E jobs \in BOOLEAN : TurnOver(r, jobs)
  PROVE  Holds
<1> DEFINE x == run[r]
<1>1. x \in RunRecord /\ r \in Runs
  BY Registry DEF TypeInv
<1>2. used' = used /\ ends' = ends /\ cur' = cur
  BY DEF PromptReturned, AgentInjects, SteerAnswered, NextPrompt, TurnOver, table
<1>3. "check" \notin Early /\ "over" \notin Early
  BY DEF Early
<1>4. ASSUME NEW reason \in BOOLEAN, PromptReturned(r, reason) PROVE Holds
  <2>1. run' = [run EXCEPT ![r] = [x EXCEPT !.pc = "check", !.endCheck = TRUE, !.turnCancelled = reason]]
    BY <1>1, <1>4 DEF PromptReturned, TypeInv, TypeOK
  <2>2. Follows(x, [x EXCEPT !.pc = "check", !.endCheck = TRUE, !.turnCancelled = reason])
    BY <1>1, <1>3 DEF Follows, Falls, Tame, RunRecord
  <2> QED  BY <1>2, <2>1, <2>2, RunHolds
<1>5. ASSUME NEW t \in Texts, AgentInjects(r, t) PROVE Holds
  <2>1. run' = [run EXCEPT ![r] = [x EXCEPT !.injected = x.injected \union {t}]]
    BY <1>1, <1>5 DEF AgentInjects, TypeInv, TypeOK, RunRecord
  <2>2. Follows(x, [x EXCEPT !.injected = x.injected \union {t}])
    BY <1>1 DEF Follows, Falls, Tame, RunRecord
  <2> QED  BY <1>2, <2>1, <2>2, RunHolds
<1>6. ASSUME NEW t \in Texts, SteerAnswered(r, t) PROVE Holds
  <2> DEFINE u == IF t \in x.injected THEN Without(x.unsent, t) ELSE x.unsent
             y == [x EXCEPT !.steering = x.steering \ {t}, !.injected = x.injected \ {t}, !.unsent = u]
  <2>1. run' = [run EXCEPT ![r] = y]
    BY <1>1, <1>6 DEF SteerAnswered, TypeInv, TypeOK, RunRecord
  <2> HIDE DEF u
  <2>2. Follows(x, y)
    BY <1>1 DEF Follows, Falls, Tame, RunRecord
  <2> QED  BY <1>2, <2>1, <2>2, RunHolds
<1>7. CASE NextPrompt(r)
  <2> DEFINE y == [x EXCEPT !.endCheck = FALSE]
  <2>1. y \in RunRecord
    BY <1>1 DEF RunRecord
  <2>2. Follows(x, y)
    BY <1>1 DEF Follows, Falls, Tame, RunRecord
  <2>3. Follows(x, [x EXCEPT !.pc = "over", !.endCheck = FALSE])
    BY <1>1, <1>3 DEF Follows, Falls, Tame, RunRecord
  <2>4. \/ run' = [run EXCEPT ![r] = [x EXCEPT !.pc = "over", !.endCheck = FALSE]]
        \/ run' = [run EXCEPT ![r] = RunTurn(y)]
    BY <1>1, <1>7 DEF NextPrompt, TypeInv, TypeOK
  <2> HIDE DEF y
  <2>5. Follows(x, RunTurn(y))
    BY <2>1, <2>2, RunTurnFollows, FollowsOn
  <2> QED  BY <1>2, <2>3, <2>4, <2>5, RunHolds
<1>8. ASSUME NEW jobs \in BOOLEAN, TurnOver(r, jobs) PROVE Holds
  <2> DEFINE y == [x EXCEPT !.endCheck = FALSE]
             z == IF jobs THEN SetBackground(y, TRUE, FALSE) ELSE y
  <2>1. y \in RunRecord
    BY <1>1 DEF RunRecord
  <2>2. Follows(x, y)
    BY <1>1 DEF Follows, Falls, Tame, RunRecord
  <2>3. run' = [run EXCEPT ![r] = EndTurn(z)]
    BY <1>8 DEF TurnOver
  <2> HIDE DEF y
  <2>4. z \in RunRecord /\ Follows(y, z)
    BY <2>1, SetBackgroundType, SetBackgroundFollows, SameFollows
  <2> HIDE DEF z
  <2>5. Follows(x, EndTurn(z))
    BY <2>2, <2>4, EndTurnFollows, FollowsOn
  <2> QED  BY <1>2, <2>3, <2>5, RunHolds
<1> QED  BY <1>4, <1>5, <1>6, <1>7, <1>8

\* What the agent does on its own, and the checks of its background.
LEMMA BackgroundStepHolds ==
  ASSUME TypeInv, StartInv, NEW r \in 1..used,
         \/ AgentWorks(r) \/ OwnOutput(r) \/ OwnTurnMarker(r)
         \/ \E jobs \in BOOLEAN : MarkerChecked(r, jobs) \/ StopChecked(r, jobs)
  PROVE  Holds
<1> DEFINE x == run[r]
<1>1. x \in RunRecord /\ r \in Runs
  BY Registry DEF TypeInv
<1>2. used' = used /\ ends' = ends /\ cur' = cur
  BY DEF AgentWorks, OwnOutput, OwnTurnMarker, MarkerChecked, StopChecked, table
<1>3. CASE AgentWorks(r)
  <2>1. run' = [run EXCEPT ![r] = Touch(x)]
    BY <1>3 DEF AgentWorks
  <2> QED  BY <1>1, <1>2, <2>1, TouchFollows, RunHolds
<1>4. CASE OwnOutput(r)
  <2> DEFINE y == StaleMarker(Touch(x))
             z == IF y.ownStopped THEN y ELSE SetBackground(y, y.job, TRUE)
  <2>1. y \in RunRecord /\ Follows(x, y)
    BY <1>1, TouchType, TouchFollows, StaleType, StaleFollows, FollowsOn
  <2>2. run' = [run EXCEPT ![r] = z]
    BY <1>4 DEF OwnOutput
  <2> HIDE DEF y
  <2>3. Follows(y, z)
    BY <2>1, SetBackgroundFollows, SameFollows
  <2> QED  BY <1>2, <2>1, <2>2, <2>3, FollowsOn, RunHolds
<1>5. CASE OwnTurnMarker(r)
  <2> DEFINE m == IF x.own THEN "on" ELSE x.marker
             y == [x EXCEPT !.ownStopped = FALSE, !.marker = m]
  <2>1. m \in Checks
    BY <1>1 DEF RunRecord, Checks
  <2> HIDE DEF m
  <2>2. y \in RunRecord
    BY <1>1, <2>1 DEF RunRecord
  <2>3. Follows(x, y)
    BY <1>1 DEF Follows, Falls, Tame, RunRecord
  <2>4. run' = [run EXCEPT ![r] = Touch(y)]
    BY <1>5 DEF OwnTurnMarker, m
  <2> QED  BY <1>2, <2>2, <2>3, <2>4, TouchFollows, FollowsOn, RunHolds
<1>6. ASSUME NEW jobs \in BOOLEAN, MarkerChecked(r, jobs) PROVE Holds
  <2> DEFINE y == [x EXCEPT !.marker = "off"]
  <2>1. y \in RunRecord
    BY <1>1 DEF RunRecord, Checks
  <2>2. Follows(x, y)
    BY <1>1 DEF Follows, Falls, Tame, RunRecord
  <2>3. run' = [run EXCEPT ![r] = y] \/ run' = [run EXCEPT ![r] = SetBackground(y, jobs, FALSE)]
    BY <1>6 DEF MarkerChecked
  <2> HIDE DEF y
  <2>4. Follows(x, SetBackground(y, jobs, FALSE))
    BY <2>1, <2>2, SetBackgroundFollows, FollowsOn
  <2> QED  BY <1>2, <2>2, <2>3, <2>4, RunHolds
<1>7. ASSUME NEW jobs \in BOOLEAN, StopChecked(r, jobs) PROVE Holds
  <2> DEFINE y == [x EXCEPT !.stopper = "off"]
  <2>1. y \in RunRecord
    BY <1>1 DEF RunRecord, Checks
  <2>2. Follows(x, y)
    BY <1>1 DEF Follows, Falls, Tame, RunRecord
  <2>3. run' = [run EXCEPT ![r] = y] \/ run' = [run EXCEPT ![r] = SetBackground(y, jobs, FALSE)]
    BY <1>7 DEF StopChecked
  <2> HIDE DEF y
  <2>4. Follows(x, SetBackground(y, jobs, FALSE))
    BY <2>1, <2>2, SetBackgroundFollows, FollowsOn
  <2> QED  BY <1>2, <2>2, <2>3, <2>4, RunHolds
<1> QED  BY <1>3, <1>4, <1>5, <1>6, <1>7

\* A request of the agent and its resolutions.
LEMMA RequestStepHolds ==
  ASSUME TypeInv, StartInv, NEW r \in 1..used, NEW q \in Requests, Ask(r, q) \/ Resolve(r, q)
  PROVE  Holds
<1> DEFINE x == run[r]
<1>1. x \in RunRecord /\ r \in Runs
  BY Registry DEF TypeInv
<1>2. used' = used /\ ends' = ends /\ cur' = cur
  BY DEF Ask, Resolve, table
<1>3. ASSUME NEW o \in SUBSET Requests, run' = [run EXCEPT ![r] = Touch([x EXCEPT !.open = o])]
      PROVE  Holds
  <2>1. [x EXCEPT !.open = o] \in RunRecord
    BY <1>1 DEF RunRecord
  <2>2. Follows(x, [x EXCEPT !.open = o])
    BY <1>1 DEF Follows, Falls, Tame, RunRecord
  <2>3. Follows(x, Touch([x EXCEPT !.open = o]))
    BY <2>1, <2>2, TouchFollows, FollowsOn
  <2> QED  BY <1>2, <1>3, <2>3, RunHolds
<1>4. x.open \union {q} \in SUBSET Requests /\ x.open \ {q} \in SUBSET Requests
  BY <1>1 DEF RunRecord
<1>5. \/ run' = [run EXCEPT ![r] = Touch([x EXCEPT !.open = x.open \union {q}])]
      \/ run' = [run EXCEPT ![r] = Touch([x EXCEPT !.open = x.open \ {q}])]
  BY <1>1 DEF Ask, Resolve, RunRecord
<1> QED  BY <1>3, <1>4, <1>5

\* The end of an agent process.
LEMMA ProcessStepHolds ==
  ASSUME TypeInv, StartInv, NEW r \in 1..used,
         \/ ConnectionCut(r) \/ (\E clean \in BOOLEAN : Exit(r, clean))
         \/ OnExit(r) \/ GroupEnded(r)
  PROVE  Holds
<1> DEFINE x == run[r]
<1>1. x \in RunRecord /\ r \in Runs
  BY Registry DEF TypeInv
<1>2. /\ ConnectionLost(x) \in RunRecord /\ Follows(x, ConnectionLost(x))
      /\ ConnectionLost(x).proc = x.proc
  BY <1>1, ConnectionLostType, ConnectionLostFollows
<1>3. CASE ConnectionCut(r)
  <2> DEFINE y == [ConnectionLost(x) EXCEPT !.proc = "cut"]
  <2>1. run' = [run EXCEPT ![r] = y] /\ x.proc = "alive"
    BY <1>3 DEF ConnectionCut
  <2>2. Follows(x, y)
    BY <1>2, <2>1 DEF Follows, Falls, Tame, RunRecord, Live
  <2> QED  BY <1>3, <2>1, <2>2, RunHolds DEF ConnectionCut, table
<1>4. ASSUME NEW clean \in BOOLEAN, Exit(r, clean) PROVE Holds
  <2> DEFINE y == [ConnectionLost(x) EXCEPT !.proc = "exited", !.clean = clean]
  <2>1. run' = [run EXCEPT ![r] = y] /\ x.proc \in {"alive", "ending", "cut"}
    BY <1>4 DEF Exit
  <2>2. Follows(x, y)
    BY <1>2, <2>1 DEF Follows, Falls, Tame, RunRecord, Live
  <2> QED  BY <1>4, <2>1, <2>2, RunHolds DEF Exit, table
<1>5. CASE OnExit(r)
  <2> DEFINE w == [x EXCEPT !.handled = TRUE]
             y == IF ExitFails(w) THEN Fail(w) ELSE SetBackground(w, FALSE, FALSE)
             z == [y EXCEPT !.open = {}, !.idle = "off"]
  <2>1. run' = [run EXCEPT ![r] = z] /\ x.proc \in {"exited", "ended"} /\ Forget(r)
    BY <1>5 DEF OnExit
  <2>2. w \in RunRecord
    BY <1>1 DEF RunRecord
  <2>3. Falls(x, w)
    BY <1>1 DEF Falls, RunRecord
  <2> HIDE DEF w
  <2>4. y \in RunRecord /\ Falls(w, y)
    BY <2>2, FailType, FailFalls, SetBackgroundType, SetBackgroundFollows DEF Follows
  <2> HIDE DEF y
  <2>5. Falls(y, z)
    BY <2>4 DEF Falls, RunRecord
  <2> HIDE DEF z
  <2>6. Falls(x, z)
    BY <2>3, <2>4, <2>5, FallsOn
  <2>7. Gone(z) /\ z.proc # "alive"
    BY <1>1, <2>1, <2>6 DEF StartInv, Unspawned, Falls, Gone
  <2>8. used' = used /\ ends' = ends
    BY <1>5 DEF OnExit, table
  <2> QED  BY <2>1, <2>6, <2>7, <2>8, FailHolds, ForgetRun
<1>6. CASE GroupEnded(r)
  <2> DEFINE y == [x EXCEPT !.proc = "ended"]
  <2>1. run' = [run EXCEPT ![r] = y] /\ x.proc = "exited"
    BY <1>1, <1>6 DEF GroupEnded, TypeInv, TypeOK
  <2>2. Follows(x, y)
    BY <1>1, <2>1 DEF Follows, Falls, Tame, RunRecord, Live
  <2> QED  BY <1>6, <2>1, <2>2, RunHolds DEF GroupEnded, table
<1> QED  BY <1>3, <1>4, <1>5, <1>6

\* The idle stop.
LEMMA IdleStepHolds ==
  ASSUME TypeInv, StartInv, NEW r \in 1..used,
         \/ IdleExpires(r) \/ IdleOvertaken(r)
         \/ \E jobs, ended, recent \in BOOLEAN : IdleChecked(r, jobs, ended, recent)
  PROVE  Holds
<1> DEFINE x == run[r]
<1>1. x \in RunRecord /\ r \in Runs
  BY Registry DEF TypeInv
<1>2. used' = used /\ ends' = ends
  BY DEF IdleExpires, IdleOvertaken, IdleChecked, table
<1>3. \A i : Follows(x, [x EXCEPT !.idle = i])
  BY <1>1 DEF Follows, Falls, Tame, RunRecord
<1>4. CASE IdleExpires(r)
  <2>1. \/ run' = [run EXCEPT ![r] = [x EXCEPT !.idle = "check"]] /\ cur' = cur
        \/ run' = [run EXCEPT ![r] = Quit(x)] /\ Forget(r)
    BY <1>1, <1>4 DEF IdleExpires, TypeInv, TypeOK
  <2>2. Follows(x, Quit(x)) /\ Gone(Quit(x)) /\ Quit(x).proc # "alive"
    BY <1>1, QuitFollows DEF Gone
  <2> QED  BY <1>2, <1>3, <2>1, <2>2, RunHolds, ForgetRun
<1>5. CASE IdleOvertaken(r)
  <2>1. \E i : run' = [run EXCEPT ![r] = [x EXCEPT !.idle = i]]
    BY <1>1, <1>5 DEF IdleOvertaken, TypeInv, TypeOK
  <2>2. cur' = cur
    BY <1>5 DEF IdleOvertaken
  <2> QED  BY <1>2, <1>3, <2>1, <2>2, RunHolds
<1>6. ASSUME NEW jobs \in BOOLEAN, NEW ended \in BOOLEAN, NEW recent \in BOOLEAN,
             IdleChecked(r, jobs, ended, recent)
      PROVE  Holds
  <2> DEFINE y == IF jobs THEN x ELSE SetBackground(x, FALSE, x.own)
  <2>1. y \in RunRecord /\ Follows(x, y)
    <3>1. x.own \in BOOLEAN
      BY <1>1 DEF RunRecord
    <3> QED  BY <1>1, <3>1, SetBackgroundType, SetBackgroundFollows, SameFollows
  <2>2. y.quiet = x.quiet
    BY <1>1 DEF SetBackground, RunRecord
  <2>3. CASE run' = [run EXCEPT ![r] = [y EXCEPT !.idle = "on"]] /\ cur' = cur
    <3> HIDE DEF y
    <3>1. Follows(y, [y EXCEPT !.idle = "on"])
      BY <2>1 DEF Follows, Falls, Tame, RunRecord
    <3> QED  BY <1>2, <2>1, <2>3, <3>1, FollowsOn, RunHolds
  <2>4. CASE run' = [run EXCEPT ![r] = Quit(y)] /\ Forget(r)
    <3> HIDE DEF y
    <3>1. Follows(x, Quit(y)) /\ Gone(Quit(y)) /\ Quit(y).proc # "alive"
      BY <2>1, QuitFollows, FollowsOn DEF Gone
    <3> QED  BY <1>2, <2>4, <3>1, ForgetRun, RunHolds
  <2>5. CASE /\ run' = [run EXCEPT ![r] = Fail(y)] /\ Forget(r)
             /\ \E s \in Seq(Write) : writes' = s \o FailWrites(y, r)
    <3> HIDE DEF y
    <3>1. Falls(x, Fail(y)) /\ Gone(Fail(y)) /\ Fail(y).proc = y.proc
      BY <2>1, FailFalls, FallsOn DEF Gone, Follows
    <3>2. y.proc = "alive" => x.proc = "alive"
      BY <2>1 DEF Follows, Falls
    <3>3. x.proc = "alive" => Loose(r) \/ KillWaits(r)'
      BY <1>1, <2>2, <2>5, FailEnds
    <3> QED  BY <1>2, <2>5, <3>1, <3>2, <3>3, ForgetRun, FailHolds
  <2>6. ASSUME (jobs \/ y.own), Forget(r), run' = [run EXCEPT ![r] = Fail(y)],
               writes' = writes \o (IF jobs THEN <<>> ELSE SetBackgroundWrites(x, r, FALSE, x.own))
                                \o FailWrites(y, r)
        PROVE  \E s \in Seq(Write) : writes' = s \o FailWrites(y, r)
    <3> DEFINE said == IF jobs THEN <<>> ELSE SetBackgroundWrites(x, r, FALSE, x.own)
    <3>1. said \in Seq(Write) /\ writes \in Seq(Write)
      <4>1. r \in 0..MaxRuns /\ x.own \in BOOLEAN /\ <<>> \in Seq(Write)
        BY <1>1, Registry DEF TypeInv, RunRecord
      <4>2. SetBackgroundWrites(x, r, FALSE, x.own) \in Seq(Write)
        BY <1>1, <4>1, SetBackgroundWritesType
      <4>3. writes \in Seq(Write)
        BY DEF TypeInv, TypeOK
      <4> QED  BY <4>1, <4>2, <4>3
    <3> HIDE DEF said
    <3>2. writes \o said \in Seq(Write)
      BY <3>1
    <3> QED  BY <2>6, <3>2 DEF said
  <2>7. \/ run' = [run EXCEPT ![r] = [y EXCEPT !.idle = "on"]] /\ cur' = cur
        \/ run' = [run EXCEPT ![r] = Quit(y)] /\ Forget(r)
        \/ /\ jobs \/ y.own
           /\ run' = [run EXCEPT ![r] = Fail(y)] /\ Forget(r)
           /\ writes' = writes \o (IF jobs THEN <<>> ELSE SetBackgroundWrites(x, r, FALSE, x.own))
                               \o FailWrites(y, r)
    BY <1>6 DEF IdleChecked
  <2> QED  BY <2>3, <2>4, <2>5, <2>6, <2>7
<1> QED  BY <1>4, <1>5, <1>6


\* The picks.
LEMMA PickStepHolds ==
  ASSUME TypeInv, StartInv, SetOption \/ PickStep \/ PickAnswered PROVE Holds
<1>1. CASE SetOption \/ PickRefused \/ PickWaits \/ PickAnswered
  BY <1>1, SameHolds DEF SetOption, PickRefused, PickWaits, PickAnswered
<1>2. CASE PickRelaunches
  <2> DEFINE x == [NewRun EXCEPT !.byPick = TRUE, !.pickRelaunch = TRUE]
  <2>1. x \in RunRecord
    BY NewRunType DEF RunRecord
  <2>2. x.pc = "reopen" /\ x.proc = "none"
    BY DEF NewRun
  <2>3. Register(x) /\ cur = NoRun /\ ends' = ends
    BY <1>2 DEF PickRelaunches
  <2> HIDE DEF x
  <2> QED  BY <2>1, <2>2, <2>3, RegisterHolds
<1>3. CASE PickDirect
  <2>1. run[cur] \in RunRecord /\ run' = [run EXCEPT ![cur] = Touch(run[cur])]
    BY <1>3, Registry DEF PickDirect, TypeInv
  <2> QED  BY <1>3, <2>1, TouchFollows, RunHolds DEF PickDirect, table
<1> QED  BY <1>1, <1>2, <1>3 DEF PickStep

\* The cancels.
LEMMA CancelStepHolds ==
  ASSUME TypeInv, StartInv, CancelOwnTurn \/ CancelTurn \/ CancelEarly PROVE Holds
<1> DEFINE x == run[cur]
<1>1. x \in RunRecord /\ <<>> \in Seq(Texts)
  BY Registry DEF CancelOwnTurn, CancelTurn, CancelEarly, TypeInv
<1>2. used' = used /\ ends' = ends /\ cur' = cur
  BY DEF CancelOwnTurn, CancelTurn, CancelEarly, table
<1>3. CASE CancelOwnTurn
  <2> DEFINE y == CancelOpen(x)
             z == [y EXCEPT !.ownStopped = TRUE, !.stopper = "on"]
  <2>1. y \in RunRecord /\ Follows(x, y)
    BY <1>1, CancelOpenType, CancelOpenFollows
  <2>2. run' = [run EXCEPT ![cur] = z]
    BY <1>3 DEF CancelOwnTurn
  <2> HIDE DEF y
  <2>3. Follows(y, z)
    BY <2>1 DEF Follows, Falls, Tame, RunRecord
  <2> QED  BY <1>2, <2>1, <2>2, <2>3, FollowsOn, RunHolds
<1>4. CASE CancelTurn
  <2> DEFINE y == [x EXCEPT !.cancelAsked = TRUE, !.unsent = <<>>]
  <2>1. y \in RunRecord
    BY <1>1 DEF RunRecord
  <2>2. Follows(x, y)
    BY <1>1 DEF Follows, Falls, Tame, RunRecord
  <2>3. run' = [run EXCEPT ![cur] = y] \/ run' = [run EXCEPT ![cur] = CancelOpen(y)]
    BY <1>4 DEF CancelTurn
  <2> HIDE DEF y
  <2>4. Follows(x, CancelOpen(y))
    BY <2>1, <2>2, CancelOpenFollows, FollowsOn
  <2> QED  BY <1>2, <2>2, <2>3, <2>4, RunHolds
<1>5. CASE CancelEarly
  <2> DEFINE u == IF answers.answered THEN <<>> ELSE x.unsent
             y == [x EXCEPT !.cancelledEarly = TRUE, !.earlyCancels = x.earlyCancels + 1, !.unsent = u]
  <2>1. u \in Seq(Texts) /\ x.earlyCancels + 1 \in Nat
    BY <1>1 DEF RunRecord
  <2>2. run' = [run EXCEPT ![cur] = CancelOpen(y)]
    BY <1>1, <1>5 DEF CancelEarly, RunRecord
  <2> HIDE DEF u
  <2>3. y \in RunRecord
    BY <1>1, <2>1 DEF RunRecord
  <2>4. Follows(x, y)
    BY <1>1 DEF Follows, Falls, Tame, RunRecord
  <2> HIDE DEF y
  <2>5. Follows(x, CancelOpen(y))
    BY <2>3, <2>4, CancelOpenFollows, FollowsOn
  <2> QED  BY <1>2, <2>2, <2>5, RunHolds
<1> QED  BY <1>3, <1>4, <1>5

\* The end of a run that `end` and `stop` ask for.
LEMMA QuitHolds ==
  ASSUME TypeInv, StartInv, NEW r \in 1..used, used' = used, ends' = ends, Forget(r),
         \/ run' = [run EXCEPT ![r] = Quit(run[r])]
         \/ run' = [run EXCEPT ![r] = Quit(SetBackground(run[r], FALSE, FALSE))]
  PROVE  Holds
<1> DEFINE x == run[r]
           y == SetBackground(x, FALSE, FALSE)
<1>1. x \in RunRecord
  BY Registry DEF TypeInv
<1>2. y \in RunRecord /\ Follows(x, y)
  BY <1>1, SetBackgroundType, SetBackgroundFollows
<1>3. \/ run' = [run EXCEPT ![r] = Quit(x)]
      \/ run' = [run EXCEPT ![r] = Quit(y)]
  OBVIOUS
<1> HIDE DEF y
<1>4. /\ Follows(x, Quit(x)) /\ Gone(Quit(x)) /\ Quit(x).proc # "alive"
      /\ Follows(x, Quit(y)) /\ Gone(Quit(y)) /\ Quit(y).proc # "alive"
  BY <1>1, <1>2, QuitFollows, FollowsOn DEF Gone
<1> QED  BY <1>3, <1>4, ForgetRun, RunHolds

\* The stops and ends of a chat.
LEMMA EndStepHolds ==
  ASSUME TypeInv, StartInv,
         \/ Stop \/ EndCancels \/ EndAtOnce \/ EndWithNoRun
         \/ EndWaited \/ EndRefused \/ EndResolves \/ EndFails
  PROVE  Holds
<1> DEFINE x == run[cur]
<1>1. cur # NoRun => cur \in 1..used /\ x \in RunRecord
  BY Registry DEF TypeInv
<1>2. CASE Stop
  <2>1. cur \in 1..used /\ Forget(cur) /\ used' = used /\ ends' = ends
        /\ run' = [run EXCEPT ![cur] = Quit(SetBackground(run[cur], FALSE, FALSE))]
    BY <1>1, <1>2 DEF Stop, table
  <2> QED  BY <2>1, QuitHolds
<1>3. CASE EndCancels
  <2> DEFINE y == [x EXCEPT !.cancelAsked = TRUE, !.unsent = <<>>]
  <2>1. x \in RunRecord /\ <<>> \in Seq(Texts)
    BY <1>1, <1>3 DEF EndCancels
  <2>2. y \in RunRecord
    BY <2>1 DEF RunRecord
  <2>3. Follows(x, y)
    BY <2>1 DEF Follows, Falls, Tame, RunRecord
  <2>4. run' = [run EXCEPT ![cur] = CancelOpen(y)]
    BY <1>3 DEF EndCancels
  <2> HIDE DEF y
  <2>5. Follows(x, CancelOpen(y))
    BY <2>2, <2>3, CancelOpenFollows, FollowsOn
  <2> QED  BY <1>3, <2>4, <2>5, RunHolds DEF EndCancels, table
<1>4. ASSUME NEW r \in 1..used, EndNow(r), used' = used, ends' = ends PROVE Holds
  <2>1. \/ run' = [run EXCEPT ![r] = Quit(run[r])]
        \/ run' = [run EXCEPT ![r] = Quit(SetBackground(run[r], FALSE, FALSE))]
    BY <1>4 DEF EndNow
  <2> QED  BY <1>4, <2>1, QuitHolds DEF EndNow
<1>5. CASE EndAtOnce
  BY <1>1, <1>4, <1>5 DEF EndAtOnce, table
<1>6. CASE EndWaited
  <2>1. end.run \in 1..used
    BY <1>6 DEF EndWaited, TypeInv, EndHasRun
  <2> QED  BY <1>4, <1>6, <2>1 DEF EndWaited, table
<1>7. CASE EndWithNoRun \/ EndRefused \/ EndResolves \/ EndFails
  BY <1>7, SameHolds DEF EndWithNoRun, EndRefused, EndResolves, EndFails
<1> QED  BY <1>2, <1>3, <1>5, <1>6, <1>7

\* The stop of the daemon.
LEMMA DaemonStepHolds == ASSUME TypeInv, StartInv, StopStarts \/ Close PROVE Holds
<1>1. \A r \in Runs : run[r] \in RunRecord
  BY DEF TypeInv, TypeOK
<1>2. CASE StopStarts
  <2>1. ASSUME NEW r \in Runs PROVE Follows(run[r], run'[r])
    <3>1. Follows(run[r], [run[r] EXCEPT !.idle = "off"])
      BY <1>1 DEF Follows, Falls, Tame, RunRecord
    <3> QED  BY <1>2, <3>1, SameFollows DEF StopStarts
  <2>2. LooseStep
    BY <1>2 DEF LooseStep, StopStarts
  <2> QED  BY <1>2, <2>1, <2>2, StepHolds DEF StopStarts, table, Follows
<1>3. CASE Close
  <2>1. ASSUME NEW r \in Runs
        PROVE  /\ Falls(run[r], Closing(r)) /\ (cur = r => Gone(Closing(r)))
               /\ Closing(r).proc # "alive"
    <3> DEFINE y == IF r = cur THEN Silence(run[r]) ELSE run[r]
    <3>1. y \in RunRecord /\ Falls(run[r], y) /\ (cur = r => y.quiet)
      BY <1>1, SilenceType, SilenceFalls, SameFollows DEF Follows
    <3>2. Closing(r) = EndProcess(y)
      BY DEF Closing
    <3> HIDE DEF y
    <3> QED  BY <3>1, <3>2, EndProcessFollows, FallsOn DEF Gone, Follows
  <2>2. \A r \in Runs : run'[r] = Closing(r)
    BY <1>3 DEF Close
  <2>3. used' = used /\ ends' = ends /\ \A r \in 1..used : r \in Runs
    BY <1>3, Registry DEF Close, table, TypeInv
  <2>4. LooseStep
    BY <2>1, <2>2 DEF LooseStep, Loose
  <2> QED  BY <2>1, <2>2, <2>3, <2>4, StepHolds
<1> QED  BY <1>2, <1>3


\* What `begin` does after the write of `resumed`.
LEMMA AfterResumedHolds ==
  ASSUME TypeInv, StartInv, NEW r \in 1..used, AfterResumed(r),
         used' = used, ends' = ends, cur' = cur
  PROVE  Holds
<1>1. run[r] \in RunRecord
  BY Registry DEF TypeInv
<1>2. \/ run' = [run EXCEPT ![r] = PickRelaunchOver(run[r])]
      \/ run' = [run EXCEPT ![r] = [run[r] EXCEPT !.pc = "held"]]
  BY <1>1, Registry DEF AfterResumed, TypeInv, TypeOK
<1>3. "held" \in Places \ Early
  BY DEF Places, Early
<1> QED  BY <1>1, <1>2, <1>3, PickRelaunchOverFollows, PlaceFollows, RunHolds

\* The end of a write, and what goes on after it.
LEMMA WriteStepHolds ==
  ASSUME TypeInv, StartInv,
         \/ WriteDone \/ HoldWritten
         \/ \E r \in 1..used : InterruptDone(r) \/ SessionStored(r) \/ ResumedDone(r)
  PROVE  Holds
<1> DEFINE w == Head(writes)
<1>1. used' = used /\ ends' = ends
  BY DEF WriteDone, HoldWritten, InterruptDone, SessionStored, ResumedDone, table
<1>2. \A s \in Runs : run[s] \in RunRecord
  BY DEF TypeInv, TypeOK
<1>3. CASE WriteDone
  <2>1. run' = [run EXCEPT ![w.by] = EndProcess(run[w.by])] \/ run' = run
    BY <1>3 DEF WriteDone
  <2>2. cur' = cur
    BY <1>3 DEF WriteDone
  <2>3. w.by \in Runs => Follows(run[w.by], EndProcess(run[w.by]))
    BY <1>2, EndProcessFollows
  <2> HIDE DEF w
  <2>4. CASE run' = run
    BY <1>3, <2>4, SameHolds DEF WriteDone
  <2>5. CASE run' = [run EXCEPT ![w.by] = EndProcess(run[w.by])]
    BY <1>1, <2>2, <2>3, <2>5, RunHolds
  <2> QED  BY <2>1, <2>4, <2>5
<1>4. CASE HoldWritten
  <2> DEFINE r == w.by
             t == w.ev.text[1]
             texts == IF Keeps(r, t) THEN Append(run[r].unsent, t) ELSE run[r].unsent
             p == IF run[r].pc = "hold" THEN "launch" ELSE run[r].pc
             y == [run[r] EXCEPT !.unsent = texts, !.pc = p]
  <2>1. CASE r \in Runs
    <3>1. run' = [run EXCEPT ![r] = y]
      BY <1>4, <2>1 DEF HoldWritten, w, TypeInv, TypeOK
    <3>2. /\ y.pc = p /\ y.awaits = run[r].awaits /\ y.proc = run[r].proc
          /\ y.quiet = run[r].quiet
      <4> HIDE DEF texts, p, r
      <4> QED  BY <1>2, <2>1 DEF RunRecord, r
    <3>3. Follows(run[r], y)
      BY <3>2 DEF Follows, Falls, Tame, Early
    <3>4. cur' = cur
      BY <1>4 DEF HoldWritten
    <3> HIDE DEF y, r
    <3> QED  BY <1>1, <3>1, <3>3, <3>4, RunHolds
  <2>2. CASE r \notin Runs
    <3>1. run' = run
      BY <1>4, <2>2 DEF HoldWritten, w, TypeInv, TypeOK
    <3> QED  BY <1>4, <3>1, SameHolds DEF HoldWritten
  <2> QED  BY <2>1, <2>2
<1>5. ASSUME NEW r \in 1..used, InterruptDone(r) PROVE Holds
  <2> DEFINE x == run[r]
  <2>1. x \in RunRecord /\ r \in Runs
    BY <1>2, Registry DEF TypeInv
  <2>2. CASE stopping \/ x.quiet
    <3> DEFINE y == Silence(x)
               z == [y EXCEPT !.reopened = "failed", !.pc = "over"]
    <3>1. y \in RunRecord /\ Falls(x, y) /\ y.quiet
      BY <2>1, SilenceType, SilenceFalls
    <3>2. run' = [run EXCEPT ![r] = z] /\ Forget(r)
      BY <1>5, <2>2 DEF InterruptDone, Overtaken
    <3> HIDE DEF y
    <3>3. "over" \notin Early
      BY DEF Early
    <3>4. Falls(y, z) /\ Gone(z)
      BY <3>1, <3>3 DEF Falls, Gone, RunRecord
    <3>5. Falls(x, z) /\ x.proc = "none"
      BY <1>5, <2>1, <3>1, <3>4, FallsOn DEF InterruptDone, StartInv, Unspawned, Early
    <3>6. z.proc # "alive"
      BY <3>5 DEF Falls
    <3> QED  BY <1>1, <3>2, <3>4, <3>5, <3>6, ForgetRun, FailHolds
  <2>3. CASE ~(stopping \/ x.quiet)
    <3> DEFINE p == IF x.byPick THEN "launch" ELSE "hold"
               y == [x EXCEPT !.reopened = "ok", !.pc = p]
    <3>1. run' = [run EXCEPT ![r] = y] /\ cur' = cur /\ x.pc = "interrupt"
      BY <1>5, <2>1, <2>3 DEF InterruptDone, TypeInv, TypeOK
    <3>2. p \in Early /\ p # "reopen" /\ "interrupt" \in Early
      BY DEF Early
    <3> HIDE DEF p
    <3>3. y.pc = p /\ y.awaits = x.awaits /\ y.proc = x.proc /\ y.quiet = x.quiet
      BY <2>1 DEF RunRecord
    <3>4. Follows(x, y)
      BY <3>1, <3>2, <3>3 DEF Follows, Falls, Tame
    <3> QED  BY <1>1, <3>1, <3>4, RunHolds
  <2> QED  BY <2>2, <2>3
<1>6. ASSUME NEW r \in 1..used, SessionStored(r) PROVE Holds
  <2>1. run[r] \in RunRecord /\ r \in Runs
    BY <1>2, Registry DEF TypeInv
  <2>2. run' = [run EXCEPT ![r] = [run[r] EXCEPT !.pc = "options"]] /\ cur' = cur
    BY <1>6, <2>1 DEF SessionStored, TypeInv, TypeOK
  <2>3. "options" \in Places \ Early
    BY DEF Places, Early
  <2> QED  BY <1>1, <2>1, <2>2, <2>3, PlaceFollows, RunHolds
<1>7. ASSUME NEW r \in 1..used, ResumedDone(r) PROVE Holds
  BY <1>1, <1>7, AfterResumedHolds DEF ResumedDone
<1> QED  BY <1>3, <1>4, <1>5, <1>6, <1>7

\* A failed write, and what goes on after the process of its run ended.
LEMMA FaultStepHolds ==
  ASSUME TypeInv, StartInv,
         \/ WriteFails
         \/ \E t \in Texts : MessageFails(t)
         \/ \E r \in 1..used : StartHalted(r)
  PROVE  Holds
<1>1. \A s \in Runs : run[s] \in RunRecord
  BY DEF TypeInv, TypeOK
<1>2. CASE WriteFails
  <2> DEFINE w == Head(writes)
             x == run[w.by]
             q == Quit(x)
             y == CASE w.cont = "reopen" -> [q EXCEPT !.reopened = "failed", !.pc = "over"]
                    [] w.cont = "session" -> [q EXCEPT !.pc = "over"]
                    [] w.cont = "resumed" -> [q EXCEPT !.pc = "halted"]
                    [] OTHER -> q
  <2>1. used' = used /\ ends' = ends
    BY <1>2 DEF WriteFails, table
  <2>2. CASE w.cont = "close"
    BY <1>2, <2>2, SameHolds DEF WriteFails
  <2>3. CASE w.cont # "close"
    <3>1. run' = [run EXCEPT ![w.by] = y] /\ Forget(w.by)
      BY <1>2, <2>3 DEF WriteFails
    <3>2. ASSUME w.by \in Runs PROVE Falls(x, y) /\ Gone(y) /\ y.proc # "alive"
      <4>1. q \in RunRecord /\ Falls(x, q) /\ q.quiet /\ q.proc # "alive"
        BY <1>1, <3>2, QuitType, QuitFollows DEF Follows
      <4> HIDE DEF q
      <4>2. ASSUME NEW p \in {"over", "halted"}
            PROVE  /\ Falls(q, [q EXCEPT !.pc = p]) /\ Gone([q EXCEPT !.pc = p])
                   /\ Falls(q, [q EXCEPT !.reopened = "failed", !.pc = p])
                   /\ Gone([q EXCEPT !.reopened = "failed", !.pc = p])
        <5>1. p \notin Early
          BY DEF Early
        <5> QED  BY <4>1, <5>1 DEF Falls, Gone, RunRecord
      <4>3. Falls(q, y) /\ Gone(y)
        BY <4>1, <4>2, SameFollows DEF Gone, Follows
      <4> HIDE DEF y
      <4>4. Falls(x, y)
        BY <4>1, <4>3, FallsOn
      <4>5. y.proc # "alive"
        BY <4>1, <4>3 DEF Falls
      <4> QED  BY <4>3, <4>4, <4>5
    <3> HIDE DEF y
    <3>3. CASE w.by \in Runs
      BY <2>1, <3>1, <3>2, <3>3, ForgetRun, FailHolds
    <3>4. CASE w.by \notin Runs
      <4>1. run' = run
        BY <3>1, <3>4 DEF TypeInv, TypeOK
      <4>2. cur \in 1..used => cur \in Runs
        BY Registry DEF TypeInv
      <4>3. cur # NoRun => cur \in 1..used
        BY Registry DEF TypeInv
      <4>4. cur' = cur
        BY <3>1, <3>4, <4>2, <4>3 DEF Forget
      <4> QED  BY <1>2, <4>1, <4>4, SameHolds DEF WriteFails
    <3> QED  BY <3>3, <3>4
  <2> QED  BY <2>2, <2>3
<1>3. ASSUME NEW t \in Texts, MessageFails(t) PROVE Holds
  <2>1. run' = [run EXCEPT ![msg[t].run] = HoldFailed(run[msg[t].run])]
    BY <1>3 DEF MessageFails
  <2>2. used' = used /\ ends' = ends /\ cur' = cur
    BY <1>3 DEF MessageFails, table
  <2>3. msg[t].run \in Runs => Follows(run[msg[t].run], HoldFailed(run[msg[t].run]))
    BY <1>1, HoldFailedFollows
  <2> QED  BY <2>1, <2>2, <2>3, RunHolds
<1>4. ASSUME NEW r \in 1..used, StartHalted(r) PROVE Holds
  BY <1>4, AfterResumedHolds DEF StartHalted, table
<1> QED  BY <1>2, <1>3, <1>4


-----------------------------------------------------------------------------
(* What a step does to the queue of writes. *)

\* The writes that no start waits for.
StepConts == {"reopen", "session", "resumed"}
Aside == {w \in Write : w.cont \notin StepConts}

\* A step that only calls such writes.
Grows == \E s \in Seq(Aside) : writes' = writes \o s

\* A step that calls no write, or one.
LEMMA FewGrows ==
  ASSUME TypeInv, writes' = writes \/ \E w \in Aside : writes' = Append(writes, w) PROVE Grows
<1>1. writes \in Seq(Write)
  BY DEF TypeInv, TypeOK
<1>2. <<>> \in Seq(Aside) /\ \A w \in Aside : <<w>> \in Seq(Aside)
  OBVIOUS
<1>3. writes \o <<>> = writes /\ \A w \in Aside : writes \o <<w>> = Append(writes, w)
  BY <1>1 DEF Aside
<1> QED  BY <1>2, <1>3 DEF Grows

\* The writes that the steps of a run call.
LEMMA AsideWrites ==
  ASSUME NEW x \in RunRecord, NEW r \in 0..MaxRuns
  PROVE  /\ FailWrites(x, r) \in Seq(Aside)
         /\ \A cont \in {"none", "end"} : CancelOpenWrites(x, r, cont) \in Seq(Aside)
         /\ \A job, own \in BOOLEAN : SetBackgroundWrites(x, r, job, own) \in Seq(Aside)
         /\ EndTurnWrites(x, r) \in Seq(Aside)
         /\ FirstTurnWrites(x, r) \in Seq(Aside)
         /\ WorkWrites(r) \in Seq(Aside)
<1>1. \A e \in Event : \A cont \in {"none", "call", "kill", "end", "close"} : WThen(e, r, cont) \in Aside
  BY WriteType DEF Aside, StepConts, WThen, Conts
<1>2. \A e \in Event : W(e, r) \in Aside
  BY <1>1 DEF W, WThen
<1>3. FailWrites(x, r) \in Seq(Aside)
  BY <1>1, EventType DEF FailWrites, EventKinds
<1>4. ASSUME NEW y \in RunRecord, NEW cont \in {"none", "end"}
      PROVE  CancelOpenWrites(y, r, cont) \in Seq(Aside)
  <2>1. y.open \in SUBSET Requests
    BY DEF RunRecord
  <2>2. WThen(ResolvedEvent(y.open), r, cont) \in Aside
    BY <1>1, <2>1, EventType
  <2> QED  BY <2>2 DEF CancelOpenWrites
<1>5. ASSUME NEW job \in BOOLEAN, NEW own \in BOOLEAN
      PROVE  SetBackgroundWrites(x, r, job, own) \in Seq(Aside)
  BY <1>2, EventType DEF SetBackgroundWrites
<1>6. ASSUME NEW y \in RunRecord PROVE EndTurnWrites(y, r) \in Seq(Aside)
  <2>1. CancelOpenWrites(y, r, "none") \in Seq(Aside)
    BY <1>4
  <2>2. W(Plain(IF y.turnCancelled THEN "turn-cancelled" ELSE "turn-end"), r) \in Aside
    BY <1>2, EventType DEF EventKinds
  <2> QED  BY <2>1, <2>2 DEF EndTurnWrites
<1>7. FirstTurnWrites(x, r) \in Seq(Aside)
  <2>1. [x EXCEPT !.turnCancelled = TRUE] \in RunRecord
    BY DEF RunRecord
  <2> QED  BY <1>6, <2>1 DEF FirstTurnWrites
<1>8. WorkWrites(r) \in Seq(Aside)
  BY <1>2, EventType DEF WorkWrites, EventKinds
<1> QED  BY <1>3, <1>4, <1>5, <1>6, <1>7, <1>8

\* The writes that the clients and the daemon call.
LEMMA AsideCalls ==
  ASSUME NEW r \in 0..MaxRuns
  PROVE  /\ \A t \in Texts : WThen(UserEvent(t), r, "call") \in Aside
         /\ \A t \in Texts : WThen(UserEvent(t), r, "hold") \in Aside
         /\ \A q \in Requests : W(AskEvent(q), r) \in Aside /\ W(ResolvedEvent({q}), r) \in Aside
         /\ \A cont \in {"end", "close"} : WThen(Plain("interrupted"), r, cont) \in Aside
<1>1. \A q \in Requests : {q} \in SUBSET Requests
  OBVIOUS
<1>2. \A e \in Event : W(e, r) \in Aside
                       /\ \A cont \in {"call", "end", "close"} : WThen(e, r, cont) \in Aside
  BY WriteType DEF Aside, StepConts, W, WThen, Conts
<1>3. \A t \in Texts : WThen(UserEvent(t), r, "hold") \in Aside
  BY HoldWriteType DEF Aside, StepConts, WThen
<1> QED  BY <1>1, <1>2, <1>3, EventType DEF EventKinds

\* A step that calls two parts of writes.
LEMMA TwoGrow ==
  ASSUME TypeInv, NEW s \in Seq(Aside), NEW u \in Seq(Aside), writes' = writes \o s \o u
  PROVE  Grows
<1>1. writes \in Seq(Write)
  BY DEF TypeInv, TypeOK
<1>2. s \o u \in Seq(Aside) /\ s \in Seq(Write) /\ u \in Seq(Write)
  BY DEF Aside
<1>3. writes \o s \o u = writes \o (s \o u)
  BY <1>1, <1>2, ConcatAssociative
<1> QED  BY <1>2, <1>3 DEF Grows

\* The steps of the clients, but for those that end runs.
LEMMA ClientQueue ==
  ASSUME TypeInv,
         \/ \E t \in Texts : Send(t)
         \/ \E q \in Requests : Answer(q)
         \/ SetOption \/ PickStep \/ PickAnswered
         \/ CancelOwnTurn \/ CancelTurn \/ CancelEarly
  PROVE  Grows
<1>1. cur \in 0..MaxRuns /\ (cur # NoRun => cur \in 1..used /\ run[cur] \in RunRecord)
  <2>1. cur \in 0..MaxRuns
    BY RunnerAssumption DEF TypeInv, TypeOK
  <2> QED  BY <2>1, Registry DEF TypeInv
<1>2. ASSUME NEW t \in Texts, Send(t) PROVE Grows
  BY <1>1, <1>2, AsideCalls, FewGrows
     DEF Send, RefuseMessage, Restart, JoinStart, JoinTurn, StartTurn
<1>3. ASSUME NEW q \in Requests, Answer(q) PROVE Grows
  BY <1>1, <1>3, AsideCalls, FewGrows DEF Answer, Resolve
<1>4. CASE SetOption \/ PickStep \/ PickAnswered
  BY <1>4, FewGrows
     DEF SetOption, PickStep, PickAnswered, PickRefused, PickRelaunches, PickWaits, PickDirect
<1>5. CASE CancelOwnTurn
  BY <1>1, <1>5, AsideWrites DEF CancelOwnTurn, Grows
<1>6. CASE CancelTurn
  <2> DEFINE y == [run[cur] EXCEPT !.cancelAsked = TRUE, !.unsent = <<>>]
  <2>1. run[cur] \in RunRecord /\ <<>> \in Seq(Texts)
    BY <1>1, <1>6 DEF CancelTurn
  <2>2. y \in RunRecord
    BY <2>1 DEF RunRecord
  <2>3. writes' = writes \/ writes' = writes \o CancelOpenWrites(y, cur, "none")
    BY <1>6 DEF CancelTurn
  <2> HIDE DEF y
  <2>4. CancelOpenWrites(y, cur, "none") \in Seq(Aside)
    BY <1>1, <2>2, AsideWrites
  <2> QED  BY <2>3, <2>4, FewGrows DEF Grows
<1>7. CASE CancelEarly
  BY <1>1, <1>7, AsideWrites DEF CancelEarly, Grows
<1> QED  BY <1>2, <1>3, <1>4, <1>5, <1>6, <1>7

\* The stops and ends.
LEMMA EndQueue ==
  ASSUME TypeInv,
         \/ Stop \/ EndCancels \/ EndAtOnce \/ EndWithNoRun \/ StopStarts \/ Close
         \/ EndWaited \/ EndRefused \/ EndResolves \/ EndFails
  PROVE  Grows
<1>1. cur \in 0..MaxRuns /\ (cur # NoRun => cur \in 1..used /\ run[cur] \in RunRecord)
  <2>1. cur \in 0..MaxRuns
    BY RunnerAssumption DEF TypeInv, TypeOK
  <2> QED  BY <2>1, Registry DEF TypeInv
<1>2. CASE Stop
  BY <1>1, <1>2, AsideWrites DEF Stop, Grows
<1>3. CASE EndCancels
  <2> DEFINE y == [run[cur] EXCEPT !.cancelAsked = TRUE, !.unsent = <<>>]
             z == run[cur]
  <2>1. z \in RunRecord
    BY <1>1, <1>3 DEF EndCancels
  <2>2. writes' = writes \o CancelOpenWrites(z, cur, "end")
    BY <1>3 DEF EndCancels
  <2> HIDE DEF z
  <2> QED  BY <1>1, <2>1, <2>2, AsideWrites DEF Grows
<1>4. ASSUME NEW r \in 1..used, EndNow(r) PROVE Grows
  <2> DEFINE x == run[r]
  <2>1. x \in RunRecord /\ r \in 0..MaxRuns /\ writes \in Seq(Write)
    BY Registry DEF TypeInv, TypeOK
  <2>2. CASE ~x.turning
    <3>1. writes' = writes \o CancelOpenWrites(x, r, "end") \o SetBackgroundWrites(x, r, FALSE, FALSE)
      BY <1>4, <2>2 DEF EndNow
    <3>2. CancelOpenWrites(x, r, "end") \in Seq(Aside)
          /\ SetBackgroundWrites(x, r, FALSE, FALSE) \in Seq(Aside)
      BY <2>1, AsideWrites
    <3> QED  BY <3>1, <3>2, TwoGrow
  <2>3. CASE x.turning
    BY <1>4, <2>1, <2>3, AsideCalls, FewGrows DEF EndNow
  <2> QED  BY <2>2, <2>3
<1>5. CASE EndAtOnce
  BY <1>1, <1>4, <1>5 DEF EndAtOnce
<1>6. CASE EndWaited
  <2>1. end.run \in 1..used
    BY <1>6 DEF EndWaited, TypeInv, EndHasRun
  <2> QED  BY <1>4, <1>6, <2>1 DEF EndWaited
<1>7. CASE EndWithNoRun \/ StopStarts \/ EndRefused \/ EndResolves \/ EndFails
  BY <1>7, FewGrows DEF EndWithNoRun, StopStarts, EndRefused, EndResolves, EndFails
<1>8. CASE Close
  BY <1>1, <1>8, AsideCalls, FewGrows DEF Close
<1> QED  BY <1>2, <1>3, <1>5, <1>6, <1>7, <1>8

\* The steps of a run that add no write that its start waits for.
LEMMA RunQueue ==
  ASSUME TypeInv, NEW r \in 1..used,
         \/ LaunchFails(r) \/ LaunchOver(r) \/ Spawn(r) \/ StartHalted(r)
         \/ Initialized(r) \/ SessionResumed(r) \/ SessionLost(r) \/ AgentFails(r)
         \/ OptionSent(r) \/ OptionAnswered(r) \/ OptionsQuiet(r) \/ OptionsDone(r) \/ HeldOver(r)
  PROVE  Grows
<1>1. r \in 0..MaxRuns /\ run[r] \in RunRecord /\ answers.unanswered \in Seq(Texts)
  BY Registry DEF TypeInv, TypeOK, Answers
<1>2. FailWrites(run[r], r) \in Seq(Aside)
  BY <1>1, AsideWrites
<1>3. CASE LaunchFails(r) \/ AgentFails(r)
  BY <1>2, <1>3 DEF LaunchFails, AgentFails, Grows
<1>4. CASE SessionLost(r)
  BY <1>2, <1>4, FewGrows DEF SessionLost, Grows
<1>5. CASE \/ LaunchOver(r) \/ Spawn(r) \/ StartHalted(r) \/ Initialized(r) \/ SessionResumed(r)
           \/ OptionSent(r) \/ OptionAnswered(r) \/ OptionsQuiet(r)
  BY <1>5, FewGrows
     DEF LaunchOver, Spawn, StartHalted, Initialized, SessionResumed,
         OptionSent, OptionAnswered, OptionsQuiet
<1>6. CASE OptionsDone(r)
  <2> DEFINE x == [run[r] EXCEPT !.session = TRUE]
  <2>1. x \in RunRecord
    BY <1>1 DEF RunRecord
  <2>2. writes' = writes \/ writes' = writes \o FirstTurnWrites(x, r)
    BY <1>6 DEF OptionsDone
  <2> HIDE DEF x
  <2>3. FirstTurnWrites(x, r) \in Seq(Aside)
    BY <1>1, <2>1, AsideWrites
  <2> QED  BY <2>2, <2>3, FewGrows DEF Grows
<1>7. CASE HeldOver(r)
  <2> DEFINE u == IF run[r].created THEN answers.unanswered ELSE run[r].unsent
             x == [run[r] EXCEPT !.unsent = u]
  <2>1. u \in Seq(Texts)
    BY <1>1 DEF RunRecord
  <2>2. writes' = writes \/ writes' = writes \o FirstTurnWrites(x, r)
    BY <1>7 DEF HeldOver
  <2> HIDE DEF u
  <2>3. x \in RunRecord
    BY <1>1, <2>1 DEF RunRecord
  <2> HIDE DEF x
  <2>4. FirstTurnWrites(x, r) \in Seq(Aside)
    BY <1>1, <2>3, AsideWrites
  <2> QED  BY <2>2, <2>4, FewGrows DEF Grows
<1> QED  BY <1>3, <1>4, <1>5, <1>6, <1>7

\* A turn, and what the agent sends.
LEMMA AgentQueue ==
  ASSUME TypeInv, NEW r \in 1..used,
         \/ \E reason \in BOOLEAN : PromptReturned(r, reason)
         \/ \E t \in Texts : AgentInjects(r, t) \/ SteerAnswered(r, t)
         \/ NextPrompt(r) \/ \E jobs \in BOOLEAN : TurnOver(r, jobs)
         \/ AgentWorks(r) \/ OwnOutput(r) \/ OwnTurnMarker(r)
         \/ \E jobs \in BOOLEAN : MarkerChecked(r, jobs) \/ StopChecked(r, jobs)
         \/ \E q \in Requests : Ask(r, q) \/ Resolve(r, q)
  PROVE  Grows
<1> DEFINE x == run[r]
<1>1. r \in 0..MaxRuns /\ x \in RunRecord /\ writes \in Seq(Write) /\ <<>> \in Seq(Aside)
  BY Registry DEF TypeInv, TypeOK
<1>2. CASE \/ \E reason \in BOOLEAN : PromptReturned(r, reason)
           \/ \E t \in Texts : AgentInjects(r, t) \/ SteerAnswered(r, t)
           \/ NextPrompt(r) \/ OwnTurnMarker(r)
  BY <1>2, FewGrows DEF PromptReturned, AgentInjects, SteerAnswered, NextPrompt, OwnTurnMarker
<1>3. ASSUME NEW jobs \in BOOLEAN, TurnOver(r, jobs) PROVE Grows
  <2> DEFINE w == [x EXCEPT !.endCheck = FALSE]
             y == IF jobs THEN SetBackground(w, TRUE, FALSE) ELSE w
             said == IF jobs THEN SetBackgroundWrites(w, r, TRUE, FALSE) ELSE <<>>
  <2>1. w \in RunRecord
    BY <1>1 DEF RunRecord
  <2>2. writes' = writes \o said \o EndTurnWrites(y, r)
    BY <1>3 DEF TurnOver
  <2> HIDE DEF w
  <2>3. said \in Seq(Aside)
    BY <1>1, <2>1, AsideWrites
  <2>4. y \in RunRecord
    BY <2>1, SetBackgroundType
  <2> HIDE DEF y, said
  <2>5. EndTurnWrites(y, r) \in Seq(Aside)
    BY <1>1, <2>4, AsideWrites
  <2> QED  BY <2>2, <2>3, <2>5, TwoGrow
<1>4. CASE AgentWorks(r)
  BY <1>1, <1>4, AsideWrites DEF AgentWorks, Grows
<1>5. CASE OwnOutput(r)
  <2> DEFINE y == StaleMarker(Touch(x))
             said == IF y.ownStopped THEN <<>> ELSE SetBackgroundWrites(y, r, y.job, TRUE)
  <2>1. y \in RunRecord
    BY <1>1, TouchType, StaleType
  <2>2. writes' = writes \o said \o WorkWrites(r)
    BY <1>5 DEF OwnOutput
  <2> HIDE DEF y
  <2>3. y.job \in BOOLEAN
    BY <2>1 DEF RunRecord
  <2>4. said \in Seq(Aside)
    BY <1>1, <2>1, <2>3, AsideWrites
  <2>5. WorkWrites(r) \in Seq(Aside)
    BY <1>1, AsideWrites
  <2> HIDE DEF said
  <2> QED  BY <2>2, <2>4, <2>5, TwoGrow
<1>6. ASSUME NEW jobs \in BOOLEAN, NEW y \in RunRecord,
             \/ writes' = writes \o <<>>
             \/ writes' = writes \o SetBackgroundWrites(y, r, jobs, FALSE)
      PROVE  Grows
  <2>1. SetBackgroundWrites(y, r, jobs, FALSE) \in Seq(Aside)
    BY <1>1, AsideWrites
  <2> QED  BY <1>1, <1>6, <2>1 DEF Grows
<1>7. ASSUME NEW jobs \in BOOLEAN, MarkerChecked(r, jobs) PROVE Grows
  <2>1. [x EXCEPT !.marker = "off"] \in RunRecord
    BY <1>1 DEF RunRecord, Checks
  <2> QED  BY <1>6, <1>7, <2>1 DEF MarkerChecked
<1>8. ASSUME NEW jobs \in BOOLEAN, StopChecked(r, jobs) PROVE Grows
  <2>1. [x EXCEPT !.stopper = "off"] \in RunRecord
    BY <1>1 DEF RunRecord, Checks
  <2> QED  BY <1>6, <1>8, <2>1 DEF StopChecked
<1>9. ASSUME NEW q \in Requests, Ask(r, q) \/ Resolve(r, q) PROVE Grows
  BY <1>1, <1>9, AsideCalls, FewGrows DEF Ask, Resolve
<1> QED  BY <1>2, <1>3, <1>4, <1>5, <1>7, <1>8, <1>9

\* The end of a process, the idle stop, and the messages of a start.
LEMMA OtherQueue ==
  ASSUME TypeInv, NEW r \in 1..used,
         \/ ConnectionCut(r) \/ (\E clean \in BOOLEAN : Exit(r, clean)) \/ OnExit(r) \/ GroupEnded(r)
         \/ IdleExpires(r) \/ IdleOvertaken(r)
         \/ \E jobs, ended, recent \in BOOLEAN : IdleChecked(r, jobs, ended, recent)
         \/ \E t \in Texts : \/ MessageFails(t) \/ HoldRefused(r, t) \/ HoldStopping(r, t)
                             \/ HoldAgain(r, t) \/ HoldWrite(r, t)
  PROVE  Grows
<1> DEFINE x == run[r]
<1>1. r \in 0..MaxRuns /\ x \in RunRecord /\ writes \in Seq(Write) /\ <<>> \in Seq(Aside)
  BY Registry DEF TypeInv, TypeOK
<1>2. CASE \/ ConnectionCut(r) \/ (\E clean \in BOOLEAN : Exit(r, clean)) \/ GroupEnded(r)
           \/ IdleExpires(r) \/ IdleOvertaken(r)
  BY <1>2, FewGrows DEF ConnectionCut, Exit, GroupEnded, IdleExpires, IdleOvertaken
<1>3. CASE OnExit(r)
  <2> DEFINE w == [x EXCEPT !.handled = TRUE]
  <2>1. w \in RunRecord
    BY <1>1 DEF RunRecord
  <2>2. \/ writes' = writes \o FailWrites(w, r)
        \/ writes' = writes \o SetBackgroundWrites(w, r, FALSE, FALSE)
    BY <1>3 DEF OnExit
  <2> HIDE DEF w
  <2> QED  BY <1>1, <2>1, <2>2, AsideWrites DEF Grows
<1>4. ASSUME NEW jobs \in BOOLEAN, NEW ended \in BOOLEAN, NEW recent \in BOOLEAN,
             IdleChecked(r, jobs, ended, recent)
      PROVE  Grows
  <2> DEFINE y == IF jobs THEN x ELSE SetBackground(x, FALSE, x.own)
             said == IF jobs THEN <<>> ELSE SetBackgroundWrites(x, r, FALSE, x.own)
             fails == IF jobs \/ y.own THEN FailWrites(y, r) ELSE <<>>
  <2>1. writes' = writes \o said \/ writes' = writes \o said \o fails
    BY <1>4 DEF IdleChecked
  <2>2. x.own \in BOOLEAN
    BY <1>1 DEF RunRecord
  <2>3. said \in Seq(Aside)
    BY <1>1, <2>2, AsideWrites
  <2>4. y \in RunRecord
    BY <1>1, <2>2, SetBackgroundType
  <2>5. FailWrites(y, r) \in Seq(Aside)
    <3> HIDE DEF y
    <3> QED  BY <1>1, <2>4, AsideWrites
  <2>6. fails \in Seq(Aside)
    BY <1>1, <2>5
  <2> HIDE DEF said, fails
  <2> QED  BY <2>1, <2>3, <2>6, TwoGrow DEF Grows
<1>5. ASSUME NEW t \in Texts,
             \/ MessageFails(t) \/ HoldRefused(r, t) \/ HoldStopping(r, t) \/ HoldAgain(r, t)
             \/ HoldWrite(r, t)
      PROVE  Grows
  BY <1>1, <1>5, AsideCalls, FewGrows
     DEF MessageFails, HoldRefused, HoldStopping, HoldAgain, HoldWrite
<1> QED  BY <1>2, <1>3, <1>4, <1>5

\* Every step calls only such writes, calls one that its start waits for, or ends a write.
StepWrite == \E r \in 1..used : Reopen(r) \/ SessionCreated(r) \/ PickOptionsDone(r)

LEMMA NextQueue == TypeInv /\ [Next]_vars => Grows \/ StepWrite \/ WriteStep \/ WriteFails
<1> SUFFICES ASSUME TypeInv, [Next]_vars, ~StepWrite, ~WriteStep, ~WriteFails PROVE Grows
  OBVIOUS
<1>1. CASE UNCHANGED vars
  BY <1>1, FewGrows DEF vars
<1>2. CASE ClientStep
  BY <1>2, ClientQueue, EndQueue DEF ClientStep
<1>3. CASE PickAnswered \/ PickStep
  BY <1>3, ClientQueue
<1>4. CASE Close \/ EndStep
  BY <1>4, EndQueue DEF EndStep
<1>5. ASSUME NEW t \in Texts, MessageStep(t) PROVE Grows
  <2>1. CASE MessageFails(t)
    BY <2>1, FewGrows DEF MessageFails
  <2>2. CASE Send(t)
    BY <2>2, ClientQueue
  <2>3. ASSUME NEW r \in 1..used,
               HoldRefused(r, t) \/ HoldStopping(r, t) \/ HoldAgain(r, t) \/ HoldWrite(r, t)
        PROVE  Grows
    BY <2>3, OtherQueue
  <2> QED  BY <1>5, <2>1, <2>2, <2>3 DEF MessageStep
<1>6. ASSUME NEW r \in 1..used, RunStep(r) PROVE Grows
  <2>1. ~Reopen(r) /\ ~PickOptionsDone(r)
    BY DEF StepWrite
  <2>2. CASE \/ LaunchOver(r) \/ Spawn(r) \/ StartHalted(r)
             \/ OptionSent(r) \/ OptionsQuiet(r) \/ OptionsDone(r) \/ HeldOver(r)
    BY <2>2, RunQueue
  <2>3. CASE NextPrompt(r) \/ \E jobs \in BOOLEAN : TurnOver(r, jobs)
    BY <2>3, AgentQueue
  <2> QED  BY <1>6, <2>1, <2>2, <2>3 DEF RunStep
<1>7. ASSUME NEW r \in 1..used, CheckStep(r) PROVE Grows
  <2>1. CASE IdleOvertaken(r)
    BY <2>1, OtherQueue
  <2>2. CASE \E jobs \in BOOLEAN : MarkerChecked(r, jobs) \/ StopChecked(r, jobs)
    BY <2>2, AgentQueue
  <2> QED  BY <1>7, <2>1, <2>2 DEF CheckStep
<1>8. ASSUME NEW r \in 1..used, ExitStep(r) \/ ProcessEnds(r) PROVE Grows
  BY <1>8, OtherQueue DEF ExitStep, ProcessEnds
<1>9. ASSUME NEW r \in 1..used, AgentStep(r) PROVE Grows
  <2>1. ~SessionCreated(r)
    BY DEF StepWrite
  <2>2. CASE \/ LaunchFails(r) \/ Initialized(r) \/ SessionResumed(r) \/ SessionLost(r)
             \/ AgentFails(r) \/ OptionAnswered(r)
    BY <2>2, RunQueue
  <2>3. CASE \/ AgentWorks(r) \/ OwnOutput(r) \/ OwnTurnMarker(r)
             \/ \E reason \in BOOLEAN : PromptReturned(r, reason)
             \/ \E t \in Texts : AgentInjects(r, t) \/ SteerAnswered(r, t)
    BY <2>3, AgentQueue
  <2>4. ASSUME NEW q \in Requests, Ask(r, q) \/ AgentTakesBack(r, q) PROVE Grows
    BY <2>4, AgentQueue DEF AgentTakesBack
  <2>5. CASE \/ IdleExpires(r) \/ ConnectionCut(r) \/ (\E clean \in BOOLEAN : Exit(r, clean))
             \/ \E jobs, ended, recent \in BOOLEAN : IdleChecked(r, jobs, ended, recent)
    BY <2>5, OtherQueue
  <2> QED  BY <1>9, <2>1, <2>2, <2>3, <2>4, <2>5 DEF AgentStep
<1> QED  BY <1>1, <1>2, <1>3, <1>4, <1>5, <1>6, <1>7, <1>8, <1>9 DEF Next, Outside

-----------------------------------------------------------------------------
(* An agent that is let go. *)

\* A daemon that stops does not start again.
LEMMA StoppingStays == [Next]_vars /\ stopping => stopping'
<1> SUFFICES ASSUME [Next]_vars, stopping PROVE stopping'
  OBVIOUS
<1>1. CASE UNCHANGED vars
  BY <1>1 DEF vars, daemon
<1>2. CASE StopStarts \/ Close
  BY <1>2 DEF StopStarts, Close
<1>3. ASSUME NEW t, Send(t) PROVE stopping'
  BY <1>3 DEF Send, RefuseMessage, Restart, JoinStart, JoinTurn, StartTurn, daemon
<1>4. ASSUME NEW r, NEW q, Resolve(r, q) PROVE stopping'
  BY <1>4 DEF Resolve, daemon
<1>5. CASE ClientStep \/ PickAnswered \/ PickStep \/ EndStep
  <2>1. CASE SetOption \/ PickAnswered \/ PickStep
    BY <2>1 DEF SetOption, PickAnswered, PickStep, PickRefused, PickRelaunches, PickWaits,
                PickDirect, daemon
  <2>2. CASE CancelOwnTurn \/ CancelTurn \/ CancelEarly
    BY <2>2 DEF CancelOwnTurn, CancelTurn, CancelEarly, daemon
  <2>3. CASE Stop \/ EndCancels \/ EndAtOnce \/ EndWithNoRun \/ EndStep
    BY <2>3 DEF Stop, EndCancels, EndAtOnce, EndWithNoRun, EndStep, EndWaited, EndRefused,
                EndResolves, EndFails, daemon
  <2> QED  BY <1>2, <1>3, <1>4, <1>5, <2>1, <2>2, <2>3 DEF ClientStep, Answer
<1>6. CASE WriteStep \/ WriteFails
  BY <1>6 DEF WriteStep, WriteFails, WriteDone, HoldWritten, InterruptDone, SessionStored,
              ResumedDone, daemon
<1>7. ASSUME NEW t, MessageStep(t) PROVE stopping'
  BY <1>3, <1>7 DEF MessageStep, MessageFails, HoldRefused, HoldStopping, HoldAgain, HoldWrite, daemon
<1>8. ASSUME NEW r, RunStep(r) PROVE stopping'
  <2>1. CASE Reopen(r) \/ LaunchOver(r) \/ Spawn(r) \/ StartHalted(r)
    BY <2>1 DEF Reopen, LaunchOver, Spawn, StartHalted, daemon
  <2>2. CASE \/ OptionSent(r) \/ OptionsQuiet(r) \/ OptionsDone(r) \/ PickOptionsDone(r)
             \/ HeldOver(r) \/ NextPrompt(r) \/ \E jobs \in BOOLEAN : TurnOver(r, jobs)
    BY <2>2 DEF OptionSent, OptionsQuiet, OptionsDone, PickOptionsDone, HeldOver, NextPrompt,
                TurnOver, daemon
  <2> QED  BY <1>8, <2>1, <2>2 DEF RunStep
<1>9. ASSUME NEW r, CheckStep(r) \/ ExitStep(r) PROVE stopping'
  BY <1>9 DEF CheckStep, ExitStep, IdleOvertaken, MarkerChecked, StopChecked, OnExit, GroupEnded,
              daemon
<1>10. ASSUME NEW r, NEW clean, Exit(r, clean) PROVE stopping'
  BY <1>10 DEF Exit, daemon
<1>11. ASSUME NEW r, AgentStep(r) PROVE stopping'
  <2>1. CASE \/ LaunchFails(r) \/ Initialized(r) \/ SessionResumed(r) \/ SessionLost(r)
             \/ SessionCreated(r) \/ AgentFails(r) \/ OptionAnswered(r)
    BY <2>1 DEF LaunchFails, Initialized, SessionResumed, SessionLost, SessionCreated, AgentFails,
                OptionAnswered, daemon
  <2>2. CASE \/ AgentWorks(r) \/ OwnOutput(r) \/ OwnTurnMarker(r) \/ IdleExpires(r)
             \/ ConnectionCut(r) \/ \E reason \in BOOLEAN : PromptReturned(r, reason)
    BY <2>2 DEF AgentWorks, OwnOutput, OwnTurnMarker, IdleExpires, ConnectionCut, PromptReturned,
                daemon
  <2>3. CASE \/ \E t \in Texts : AgentInjects(r, t) \/ SteerAnswered(r, t)
             \/ \E jobs, ended, recent \in BOOLEAN : IdleChecked(r, jobs, ended, recent)
             \/ \E q \in Requests : Ask(r, q)
    BY <2>3 DEF AgentInjects, SteerAnswered, IdleChecked, Ask, daemon
  <2> QED  BY <1>4, <1>10, <1>11, <2>1, <2>2, <2>3 DEF AgentStep, AgentTakesBack
<1> QED  BY <1>1, <1>2, <1>5, <1>6, <1>7, <1>8, <1>9, <1>10, <1>11 DEF Next, Outside, ProcessEnds

\* The write that asks for the end of an agent waits until it is done or fails, and then the
\* agent is ending.
KillsStep == \A r \in Runs : KillWaits(r) => KillWaits(r)' \/ run'[r].proc # "alive"

\* A step that only calls writes keeps those that wait.
LEMMA GrowsKeeps ==
  ASSUME TypeInv, NEW s \in Seq(Write), writes' = writes \o s, NEW r, KillWaits(r)
  PROVE  KillWaits(r)'
<1>1. writes \in Seq(Write)
  BY DEF TypeInv, TypeOK
<1>2. PICK i \in DOMAIN writes : writes[i].cont = "kill" /\ writes[i].by = r
  BY DEF KillWaits
<1>3. i \in DOMAIN writes' /\ writes'[i] = writes[i]
  BY <1>1, <1>2
<1> QED  BY <1>2, <1>3 DEF KillWaits

\* Once the first write is done, the writes after it still wait.
LEMMA TailKeeps ==
  ASSUME TypeInv, writes # <<>>, writes' = Tail(writes), NEW r, KillWaits(r)
  PROVE  (Head(writes).cont = "kill" /\ Head(writes).by = r) \/ KillWaits(r)'
<1>1. writes \in Seq(Write)
  BY DEF TypeInv, TypeOK
<1>2. PICK i \in DOMAIN writes : writes[i].cont = "kill" /\ writes[i].by = r
  BY DEF KillWaits
<1>3. i \in 1..Len(writes)
  BY <1>1, <1>2
<1>4. CASE i = 1
  BY <1>1, <1>2, <1>4
<1>5. CASE i > 1
  <2>1. i - 1 \in DOMAIN writes' /\ writes'[i - 1] = writes[i]
    BY <1>1, <1>3, <1>5
  <2> QED  BY <1>2, <2>1 DEF KillWaits
<1> QED  BY <1>3, <1>4, <1>5

LEMMA KillsWait == TypeInv /\ [Next]_vars => KillsStep
<1> SUFFICES ASSUME TypeInv, [Next]_vars, NEW r \in Runs, KillWaits(r)
             PROVE  KillWaits(r)' \/ run'[r].proc # "alive"
  BY DEF KillsStep
<1> DEFINE w == Head(writes)
<1>1. Aside \subseteq Write /\ run \in [Runs -> RunRecord] /\ writes \in Seq(Write)
  BY DEF Aside, TypeInv, TypeOK
<1>2. CASE Grows
  <2>1. PICK s \in Seq(Aside) : writes' = writes \o s
    BY <1>2 DEF Grows
  <2>2. s \in Seq(Write)
    BY <1>1, <2>1
  <2> QED  BY <2>1, <2>2, GrowsKeeps
<1>3. CASE StepWrite
  <2>1. PICK t \in 1..used : Reopen(t) \/ SessionCreated(t) \/ PickOptionsDone(t)
    BY <1>3 DEF StepWrite
  <2>2. t \in 0..MaxRuns
    BY Registry DEF TypeInv
  <2>3. \A c \in StepConts : WThen(Plain("interrupted"), t, c) \in Write
                             /\ WThen(Plain("other"), t, c) \in Write
                             /\ WThen(Plain("resumed"), t, c) \in Write
    BY <2>2, WriteType, EventType DEF StepConts, WThen, Conts, EventKinds
  <2>4. writes' = writes \/ \E v \in Write : writes' = Append(writes, v)
    BY <2>1, <2>3 DEF Reopen, SessionCreated, PickOptionsDone, StepConts
  <2>5. CASE writes' = writes
    BY <2>5 DEF KillWaits
  <2>6. ASSUME NEW v \in Write, writes' = Append(writes, v) PROVE KillWaits(r)'
    <3>1. <<v>> \in Seq(Write) /\ writes' = writes \o <<v>>
      BY <1>1, <2>6
    <3> QED  BY <3>1, GrowsKeeps
  <2> QED  BY <2>4, <2>5, <2>6
<1>4. CASE WriteDone
  <2>1. writes # <<>> /\ writes' = Tail(writes)
    BY <1>4 DEF WriteDone
  <2>2. CASE w.cont = "kill" /\ w.by = r
    <3>1. run' = [run EXCEPT ![r] = EndProcess(run[r])]
      BY <1>4, <2>2 DEF WriteDone
    <3>2. run'[r] = EndProcess(run[r])
      BY <1>1, <3>1
    <3> QED  BY <1>1, <3>2, EndProcessFollows
  <2> QED  BY <2>1, <2>2, TailKeeps
<1>5. CASE HoldWritten \/ \E t \in 1..used : InterruptDone(t) \/ SessionStored(t) \/ ResumedDone(t)
  <2>1. writes # <<>> /\ writes' = Tail(writes) /\ w.cont # "kill"
    BY <1>5 DEF HoldWritten, InterruptDone, SessionStored, ResumedDone
  <2> QED  BY <2>1, TailKeeps
<1>6. CASE WriteFails
  <2>1. writes # <<>> /\ writes' = Tail(writes)
    BY <1>6 DEF WriteFails
  <2>2. CASE w.cont = "kill" /\ w.by = r
    <3>1. run' = [run EXCEPT ![r] = Quit(run[r])]
      BY <1>6, <2>2 DEF WriteFails
    <3>2. run'[r] = Quit(run[r])
      BY <1>1, <3>1
    <3> QED  BY <1>1, <3>2, QuitFollows
  <2> QED  BY <2>1, <2>2, TailKeeps
<1> QED  BY <1>2, <1>3, <1>4, <1>5, <1>6, NextQueue DEF WriteStep

-----------------------------------------------------------------------------
(* The prompts of a daemon that stops. *)

\* A step that sends no prompt to the agent.
Sits(x, y) == y.pc = "prompt" => x.pc = "prompt"

\* A step that sends only the first prompt of a start that no message joined.
FirstOnly(x, y) ==
  y.pc = "prompt" /\ x.pc # "prompt" => x.pc = "options" /\ x.held = <<>>
PromptStep == \A r \in Runs : FirstOnly(run[r], run'[r])

LEMMA RunPrompts ==
  ASSUME TypeInv, NEW r, NEW y, run' = [run EXCEPT ![r] = y], r \in Runs => FirstOnly(run[r], y)
  PROVE  PromptStep
  BY DEF TypeInv, TypeOK, PromptStep, FirstOnly

LEMMA RunSits ==
  ASSUME TypeInv, NEW r, NEW y, run' = [run EXCEPT ![r] = y], r \in Runs => Sits(run[r], y)
  PROVE  PromptStep
  BY DEF TypeInv, TypeOK, PromptStep, FirstOnly, Sits

LEMMA SameSits == ASSUME run' = run PROVE PromptStep
  BY DEF PromptStep, FirstOnly

\* Where the parts of a step leave the coroutine.
LEMMA BackgroundPlace ==
  ASSUME NEW x \in RunRecord, NEW job, NEW own PROVE SetBackground(x, job, own).pc = x.pc
  BY DEF SetBackground, RunRecord

LEMMA PlaceKept ==
  ASSUME NEW x \in RunRecord
  PROVE  /\ Touch(x).pc = x.pc /\ Silence(x).pc = x.pc /\ EndProcess(x).pc = x.pc
         /\ Quit(x).pc = x.pc /\ Fail(x).pc = x.pc
         /\ StaleAll(x).pc = x.pc /\ StaleMarker(x).pc = x.pc
         /\ \A t : Hold(x, t).pc = x.pc
         /\ CancelOpen(x).pc = x.pc
         /\ ConnectionLost(x).pc # "prompt"
         /\ HoldFailed(x).pc \in {x.pc, "over"}
<1>1. Touch(x).pc = x.pc /\ Silence(x).pc = x.pc /\ EndProcess(x).pc = x.pc
  BY DEF Touch, Silence, EndProcess, RunRecord
<1>2. Silence(x) \in RunRecord /\ [x EXCEPT !.open = {}] \in RunRecord
  BY SilenceType DEF RunRecord
<1>3. \A y \in RunRecord : EndProcess(y).pc = y.pc /\ Touch(y).pc = y.pc
  BY DEF EndProcess, Touch, RunRecord
<1>4. Quit(x).pc = x.pc /\ Fail(x).pc = x.pc
  BY <1>1, <1>2, <1>3 DEF Quit, Fail
<1>5. [x EXCEPT !.open = {}].pc = x.pc
  BY DEF RunRecord
<1>6. CancelOpen(x).pc = x.pc
  BY <1>2, <1>3, <1>5 DEF CancelOpen
<1>7. /\ StaleAll(x).pc = x.pc /\ StaleMarker(x).pc = x.pc
      /\ \A t : Hold(x, t).pc = x.pc
  BY DEF StaleAll, StaleMarker, Hold, RunRecord
<1>8. ConnectionLost(x).pc # "prompt" /\ HoldFailed(x).pc \in {x.pc, "over"}
  BY DEF ConnectionLost, HoldFailed, RunRecord, AtAgent
<1> QED  BY <1>1, <1>4, <1>6, <1>7, <1>8

\* The end of a turn, and the end of a start with no message.
LEMMA PlaceLeft ==
  ASSUME NEW x \in RunRecord
  PROVE  EndTurn(x).pc # "prompt" /\ PickRelaunchOver(x).pc # "prompt" /\ Overtaken(x).pc # "prompt"
<1>1. [x EXCEPT !.turning = FALSE, !.pc = "idle", !.open = {}] \in RunRecord
      /\ [x EXCEPT !.pickRelaunch = FALSE, !.turning = FALSE, !.pc = "idle"] \in RunRecord
  BY DEF RunRecord, Places
<1>2. \A y \in RunRecord : Touch(y).pc = y.pc
  BY PlaceKept
<1>3. Overtaken(x).pc = "over"
  BY SilenceType DEF Overtaken, RunRecord
<1>4. PickRelaunchOver(x).pc = "idle"
  BY <1>1, <1>2 DEF PickRelaunchOver, RunRecord
<1>5. EndTurn(x).pc \in {"over", "idle"}
  BY <1>1, <1>2 DEF EndTurn, RunRecord
<1> QED  BY <1>3, <1>4, <1>5

\* Messages.
LEMMA SendPrompts == ASSUME TypeInv, stopping, NEW t \in Texts, Send(t) PROVE PromptStep
<1>1. ~Accepts
  BY DEF Accepts
<1>2. RefuseMessage(t)
  BY <1>1 DEF Send, Restart, JoinStart, JoinTurn, StartTurn
<1> QED  BY <1>2, SameSits DEF RefuseMessage

LEMMA HoldPrompts ==
  ASSUME TypeInv, NEW r \in 1..used, NEW t \in Texts,
         HoldRefused(r, t) \/ HoldStopping(r, t) \/ HoldAgain(r, t) \/ HoldWrite(r, t)
  PROVE  PromptStep
<1>1. run[r] \in RunRecord
  BY Registry DEF TypeInv
<1>2. Sits(run[r], HoldFailed(run[r]))
  BY <1>1, PlaceKept DEF Sits
<1>3. Sits(run[r], HoldFailed(Silence(run[r])))
  BY <1>1, SilenceType, PlaceKept DEF Sits
<1>4. CASE HoldRefused(r, t) \/ HoldAgain(r, t)
  BY <1>2, <1>4, RunSits DEF HoldRefused, HoldAgain
<1>5. CASE HoldStopping(r, t)
  BY <1>2, <1>3, <1>5, RunSits DEF HoldStopping
<1>6. CASE HoldWrite(r, t)
  BY <1>6, SameSits DEF HoldWrite
<1> QED  BY <1>4, <1>5, <1>6

\* The steps of a start.
LEMMA StartPrompts ==
  ASSUME TypeInv, stopping, NEW r \in 1..used,
         \/ Reopen(r) \/ LaunchFails(r) \/ LaunchOver(r) \/ Spawn(r) \/ StartHalted(r)
         \/ Initialized(r) \/ SessionResumed(r) \/ SessionLost(r) \/ SessionCreated(r)
         \/ AgentFails(r) \/ OptionSent(r) \/ OptionAnswered(r) \/ OptionsQuiet(r)
         \/ OptionsDone(r) \/ PickOptionsDone(r) \/ HeldOver(r)
  PROVE  PromptStep
<1> DEFINE x == run[r]
<1>1. x \in RunRecord /\ r \in Runs
  BY Registry DEF TypeInv
<1>2. \A y \in RunRecord, p \in Places \ {"prompt"} : Sits(x, [y EXCEPT !.pc = p])
  BY DEF Sits, RunRecord
<1>3. {"over", "open", "create", "options", "store", "held", "resumed", "pick", "init", "interrupt"}
        \subseteq Places \ {"prompt"}
  BY DEF Places, AtAgent
<1>4. CASE Reopen(r)
  <2>1. \A u : /\ Sits(x, Overtaken([x EXCEPT !.unsent = u]))
               /\ Sits(x, [[x EXCEPT !.unsent = u] EXCEPT !.pc = "interrupt"])
    BY <1>1 DEF Sits, Overtaken, Silence, RunRecord
  <2>2. \E u : \/ run' = [run EXCEPT ![r] = Overtaken([x EXCEPT !.unsent = u])]
               \/ run' = [run EXCEPT ![r] = [[x EXCEPT !.unsent = u] EXCEPT !.pc = "interrupt"]]
    BY <1>4 DEF Reopen
  <2> QED  BY <2>1, <2>2, RunSits
<1>5. CASE LaunchFails(r) \/ AgentFails(r)
  <2>1. run' = [run EXCEPT ![r] = [Fail(x) EXCEPT !.pc = "over"]]
    BY <1>5 DEF LaunchFails, AgentFails
  <2> QED  BY <1>1, <1>2, <1>3, <2>1, FailType, RunSits
<1>6. CASE LaunchOver(r)
  <2>1. run' = [run EXCEPT ![r] = [x EXCEPT !.pc = "over"]]
    BY <1>1, <1>6 DEF LaunchOver, TypeInv, TypeOK
  <2> QED  BY <1>1, <1>2, <1>3, <2>1, RunSits
<1>7. CASE Spawn(r)
  BY <1>7 DEF Spawn
<1>8. CASE StartHalted(r)
  <2>1. \/ run' = [run EXCEPT ![r] = PickRelaunchOver(x)]
        \/ run' = [run EXCEPT ![r] = [x EXCEPT !.pc = "held"]]
    BY <1>1, <1>8 DEF StartHalted, AfterResumed, TypeInv, TypeOK
  <2> QED  BY <1>1, <1>2, <1>3, <2>1, PlaceLeft, RunSits DEF Sits
<1>9. CASE Initialized(r)
  <2> DEFINE y == [x EXCEPT !.unsent = answers.unanswered]
  <2>1. answers.unanswered \in Seq(Texts)
    BY DEF TypeInv, TypeOK, Answers
  <2>2. y \in RunRecord
    BY <1>1, <2>1 DEF RunRecord
  <2>3. \/ run' = [run EXCEPT ![r] = [x EXCEPT !.pc = "over"]]
        \/ run' = [run EXCEPT ![r] = [x EXCEPT !.pc = "open"]]
        \/ run' = [run EXCEPT ![r] = [y EXCEPT !.pc = "create"]]
    BY <1>1, <1>9 DEF Initialized, OpenSession, RunRecord
  <2> HIDE DEF y
  <2> QED  BY <1>1, <1>2, <1>3, <2>2, <2>3, RunSits
<1>10. CASE SessionResumed(r)
  <2>1. run' = [run EXCEPT ![r] = [x EXCEPT !.pc = "options"]]
    BY <1>1, <1>10 DEF SessionResumed, TypeInv, TypeOK
  <2> QED  BY <1>1, <1>2, <1>3, <2>1, RunSits
<1>11. CASE SessionLost(r)
  <2>1. \/ run' = [run EXCEPT ![r] = [Fail(x) EXCEPT !.pc = "over"]]
        \/ run' = [run EXCEPT ![r] = [x EXCEPT !.pc = "create", !.unsent = answers.unanswered]]
    BY <1>1, <1>11 DEF SessionLost, TypeInv, TypeOK
  <2>2. Sits(x, [x EXCEPT !.pc = "create", !.unsent = answers.unanswered])
    BY <1>1 DEF Sits, RunRecord
  <2> QED  BY <1>1, <1>2, <1>3, <2>1, <2>2, FailType, RunSits
<1>12. CASE SessionCreated(r)
  <2>1. run' = [run EXCEPT ![r] = [x EXCEPT !.pc = "store", !.created = TRUE]]
    BY <1>1, <1>12 DEF SessionCreated, TypeInv, TypeOK
  <2>2. Sits(x, [x EXCEPT !.pc = "store", !.created = TRUE])
    BY <1>1 DEF Sits, RunRecord
  <2> QED  BY <2>1, <2>2, RunSits
<1>13. CASE OptionSent(r) \/ OptionAnswered(r) \/ OptionsQuiet(r)
  <2>1. \E p \in {"pick", "over", "options"} : run' = [run EXCEPT ![r] = [x EXCEPT !.pc = p]]
    BY <1>1, <1>13 DEF OptionSent, OptionAnswered, OptionsQuiet, TypeInv, TypeOK
  <2> QED  BY <1>1, <1>2, <1>3, <2>1, RunSits
<1>14. CASE OptionsDone(r)
  <2> DEFINE y == [x EXCEPT !.session = TRUE]
  <2>1. y \in RunRecord /\ x.pc = "options"
    BY <1>1, <1>14 DEF RunRecord, OptionsDone
  <2>2. CASE x.held = <<>>
    <3>1. \E z : run' = [run EXCEPT ![r] = z]
      BY <1>14 DEF OptionsDone
    <3> QED  BY <2>1, <2>2, <3>1, RunPrompts DEF FirstOnly
  <2>3. CASE x.held # <<>>
    <3>1. y.held = x.held
      BY <1>1 DEF RunRecord
    <3>2. run' = [run EXCEPT ![r] = [y EXCEPT !.pc = "held"]]
      BY <1>14, <2>3, <3>1 DEF OptionsDone
    <3> QED  BY <1>2, <1>3, <2>1, <3>2, RunSits
  <2> QED  BY <2>2, <2>3
<1>15. CASE PickOptionsDone(r)
  <2> DEFINE y == [x EXCEPT !.session = TRUE, !.reaches = TRUE]
  <2>1. y \in RunRecord
    BY <1>1 DEF RunRecord
  <2>2. \/ run' = [run EXCEPT ![r] = [y EXCEPT !.pc = "resumed"]]
        \/ run' = [run EXCEPT ![r] = PickRelaunchOver(y)]
    BY <1>15 DEF PickOptionsDone
  <2> HIDE DEF y
  <2> QED  BY <1>2, <1>3, <2>1, <2>2, PlaceLeft, RunSits DEF Sits
<1>16. CASE HeldOver(r)
  <2>1. run' = [run EXCEPT ![r] = [x EXCEPT !.pc = "over"]]
    BY <1>1, <1>16 DEF HeldOver, TypeInv, TypeOK
  <2> QED  BY <1>1, <1>2, <1>3, <2>1, RunSits
<1> QED  BY <1>4, <1>5, <1>6, <1>7, <1>8, <1>9, <1>10, <1>11, <1>12, <1>13, <1>14, <1>15, <1>16

\* A turn, and what the agent does on its own.
LEMMA AgentPrompts ==
  ASSUME TypeInv, stopping, NEW r \in 1..used,
         \/ \E reason \in BOOLEAN : PromptReturned(r, reason)
         \/ \E t \in Texts : AgentInjects(r, t) \/ SteerAnswered(r, t)
         \/ NextPrompt(r) \/ \E jobs \in BOOLEAN : TurnOver(r, jobs)
         \/ AgentWorks(r) \/ OwnOutput(r) \/ OwnTurnMarker(r)
         \/ \E jobs \in BOOLEAN : MarkerChecked(r, jobs) \/ StopChecked(r, jobs)
         \/ \E q \in Requests : Ask(r, q) \/ Resolve(r, q)
  PROVE  PromptStep
<1> DEFINE x == run[r]
<1>1. x \in RunRecord /\ r \in Runs
  BY Registry DEF TypeInv
<1>2. CASE \/ \E reason \in BOOLEAN : PromptReturned(r, reason)
           \/ \E t \in Texts : AgentInjects(r, t) \/ SteerAnswered(r, t)
  <2>1. \A u, v, w : /\ Sits(x, [x EXCEPT !.pc = "check", !.endCheck = u, !.turnCancelled = v])
                     /\ Sits(x, [x EXCEPT !.injected = u])
                     /\ Sits(x, [x EXCEPT !.steering = u, !.injected = v, !.unsent = w])
    BY <1>1 DEF Sits, RunRecord
  <2>2. ASSUME NEW reason \in BOOLEAN, PromptReturned(r, reason) PROVE PromptStep
    <3>1. run' = [run EXCEPT ![r] = [x EXCEPT !.pc = "check", !.endCheck = TRUE, !.turnCancelled = reason]]
      BY <1>1, <2>2 DEF PromptReturned, TypeInv, TypeOK
    <3> QED  BY <2>1, <3>1, RunSits
  <2>3. ASSUME NEW t \in Texts, AgentInjects(r, t) PROVE PromptStep
    <3>1. run' = [run EXCEPT ![r] = [x EXCEPT !.injected = x.injected \union {t}]]
      BY <1>1, <2>3 DEF AgentInjects, TypeInv, TypeOK, RunRecord
    <3> QED  BY <2>1, <3>1, RunSits
  <2>4. ASSUME NEW t \in Texts, SteerAnswered(r, t) PROVE PromptStep
    <3> DEFINE u == IF t \in x.injected THEN Without(x.unsent, t) ELSE x.unsent
    <3>1. run' = [run EXCEPT ![r] = [x EXCEPT !.steering = x.steering \ {t},
                                              !.injected = x.injected \ {t}, !.unsent = u]]
      BY <1>1, <2>4 DEF SteerAnswered, TypeInv, TypeOK, RunRecord
    <3> HIDE DEF u
    <3> QED  BY <2>1, <3>1, RunSits
  <2> QED  BY <1>2, <2>2, <2>3, <2>4
<1>3. CASE NextPrompt(r)
  <2>1. run' = [run EXCEPT ![r] = [x EXCEPT !.pc = "over", !.endCheck = FALSE]]
    BY <1>1, <1>3 DEF NextPrompt, TypeInv, TypeOK
  <2>2. Sits(x, [x EXCEPT !.pc = "over", !.endCheck = FALSE])
    BY <1>1 DEF Sits, RunRecord
  <2> QED  BY <2>1, <2>2, RunSits
<1>4. ASSUME NEW jobs \in BOOLEAN, TurnOver(r, jobs) PROVE PromptStep
  <2> DEFINE y == [x EXCEPT !.endCheck = FALSE]
             z == IF jobs THEN SetBackground(y, TRUE, FALSE) ELSE y
  <2>1. y \in RunRecord
    BY <1>1 DEF RunRecord
  <2>2. run' = [run EXCEPT ![r] = EndTurn(z)]
    BY <1>4 DEF TurnOver
  <2> HIDE DEF y
  <2>3. z \in RunRecord
    BY <2>1, SetBackgroundType
  <2> HIDE DEF z
  <2> QED  BY <2>2, <2>3, PlaceLeft, RunSits DEF Sits
<1>5. CASE AgentWorks(r)
  BY <1>1, <1>5, PlaceKept, RunSits DEF AgentWorks, Sits
<1>6. CASE OwnOutput(r)
  <2> DEFINE y == StaleMarker(Touch(x))
             z == IF y.ownStopped THEN y ELSE SetBackground(y, y.job, TRUE)
  <2>1. y \in RunRecord /\ y.pc = x.pc
    BY <1>1, TouchType, StaleType, PlaceKept
  <2>2. run' = [run EXCEPT ![r] = z]
    BY <1>6 DEF OwnOutput
  <2> HIDE DEF y
  <2>3. z.pc = x.pc
    BY <2>1, BackgroundPlace
  <2> QED  BY <2>2, <2>3, RunSits DEF Sits
<1>7. CASE OwnTurnMarker(r)
  <2> DEFINE m == IF x.own THEN "on" ELSE x.marker
             y == [x EXCEPT !.ownStopped = FALSE, !.marker = m]
  <2>1. m \in Checks
    BY <1>1 DEF RunRecord, Checks
  <2> HIDE DEF m
  <2>2. y \in RunRecord /\ y.pc = x.pc
    BY <1>1, <2>1 DEF RunRecord
  <2>3. run' = [run EXCEPT ![r] = Touch(y)]
    BY <1>7 DEF OwnTurnMarker, m
  <2> HIDE DEF y
  <2> QED  BY <2>2, <2>3, PlaceKept, RunSits DEF Sits
<1>8. ASSUME NEW jobs \in BOOLEAN, MarkerChecked(r, jobs) \/ StopChecked(r, jobs) PROVE PromptStep
  <2> DEFINE m == [x EXCEPT !.marker = "off"]
             s == [x EXCEPT !.stopper = "off"]
  <2>1. m \in RunRecord /\ m.pc = x.pc
    BY <1>1 DEF RunRecord, Checks
  <2>2. s \in RunRecord /\ s.pc = x.pc
    BY <1>1 DEF RunRecord, Checks
  <2>3. \E y \in {m, s} :
           run' = [run EXCEPT ![r] = y] \/ run' = [run EXCEPT ![r] = SetBackground(y, jobs, FALSE)]
    BY <1>8 DEF MarkerChecked, StopChecked
  <2> HIDE DEF m, s
  <2>4. ASSUME NEW y \in {m, s} PROVE Sits(x, y) /\ Sits(x, SetBackground(y, jobs, FALSE))
    <3>1. y \in RunRecord /\ y.pc = x.pc
      BY <2>1, <2>2, <2>4
    <3>2. SetBackground(y, jobs, FALSE).pc = y.pc
      BY <3>1, BackgroundPlace
    <3> QED  BY <3>1, <3>2 DEF Sits
  <2> QED  BY <2>3, <2>4, RunSits
<1>9. ASSUME NEW q \in Requests, Ask(r, q) \/ Resolve(r, q) PROVE PromptStep
  <2>1. ASSUME NEW o \in SUBSET Requests, run' = [run EXCEPT ![r] = Touch([x EXCEPT !.open = o])]
        PROVE  PromptStep
    <3>1. [x EXCEPT !.open = o] \in RunRecord /\ [x EXCEPT !.open = o].pc = x.pc
      BY <1>1 DEF RunRecord
    <3> QED  BY <2>1, <3>1, PlaceKept, RunSits DEF Sits
  <2>2. x.open \union {q} \in SUBSET Requests /\ x.open \ {q} \in SUBSET Requests
    BY <1>1 DEF RunRecord
  <2>3. \/ run' = [run EXCEPT ![r] = Touch([x EXCEPT !.open = x.open \union {q}])]
        \/ run' = [run EXCEPT ![r] = Touch([x EXCEPT !.open = x.open \ {q}])]
    BY <1>1, <1>9 DEF Ask, Resolve, RunRecord
  <2> QED  BY <2>1, <2>2, <2>3
<1> QED  BY <1>2, <1>3, <1>4, <1>5, <1>6, <1>7, <1>8, <1>9

\* The end of a process, the idle stop and the picks.
LEMMA ExitPrompts ==
  ASSUME TypeInv, stopping,
         \/ \E r \in 1..used :
              \/ ConnectionCut(r) \/ (\E clean \in BOOLEAN : Exit(r, clean)) \/ OnExit(r) \/ GroupEnded(r)
              \/ IdleExpires(r) \/ IdleOvertaken(r)
              \/ \E jobs, ended, recent \in BOOLEAN : IdleChecked(r, jobs, ended, recent)
         \/ SetOption \/ PickStep \/ PickAnswered
  PROVE  PromptStep
<1>1. ASSUME NEW r \in 1..used, ConnectionCut(r) \/ \E clean \in BOOLEAN : Exit(r, clean)
      PROVE  PromptStep
  <2> DEFINE y == ConnectionLost(run[r])
  <2>1. y \in RunRecord /\ y.pc # "prompt"
    BY Registry, ConnectionLostType, PlaceKept DEF TypeInv
  <2>2. \/ run' = [run EXCEPT ![r] = [y EXCEPT !.proc = "cut"]]
        \/ \E clean : run' = [run EXCEPT ![r] = [y EXCEPT !.proc = "exited", !.clean = clean]]
    BY <1>1 DEF ConnectionCut, Exit
  <2> HIDE DEF y
  <2>3. /\ Sits(run[r], [y EXCEPT !.proc = "cut"])
        /\ \A clean : Sits(run[r], [y EXCEPT !.proc = "exited", !.clean = clean])
    BY <2>1 DEF Sits, RunRecord
  <2> QED  BY <2>2, <2>3, RunSits
<1>2. ASSUME NEW r \in 1..used, OnExit(r) PROVE PromptStep
  <2> DEFINE w == [run[r] EXCEPT !.handled = TRUE]
             y == IF ExitFails(w) THEN Fail(w) ELSE SetBackground(w, FALSE, FALSE)
  <2>1. run[r] \in RunRecord
    BY Registry DEF TypeInv
  <2>2. w \in RunRecord /\ w.pc = run[r].pc
    BY <2>1 DEF RunRecord
  <2>3. run' = [run EXCEPT ![r] = [y EXCEPT !.open = {}, !.idle = "off"]]
    BY <1>2 DEF OnExit
  <2> HIDE DEF w
  <2>4. y \in RunRecord /\ y.pc = w.pc
    <3>1. SetBackground(w, FALSE, FALSE) \in RunRecord /\ SetBackground(w, FALSE, FALSE).pc = w.pc
      BY <2>2, SetBackgroundType, BackgroundPlace
    <3>2. Fail(w) \in RunRecord /\ Fail(w).pc = w.pc
      BY <2>2, FailType, PlaceKept
    <3> QED  BY <3>1, <3>2
  <2> HIDE DEF y
  <2>5. Sits(run[r], [y EXCEPT !.open = {}, !.idle = "off"])
    BY <2>2, <2>4 DEF Sits, RunRecord
  <2> QED  BY <2>3, <2>5, RunSits
<1>3. ASSUME NEW r \in 1..used, GroupEnded(r) \/ IdleOvertaken(r) PROVE PromptStep
  <2>1. r \in Runs /\ run[r] \in RunRecord
    BY Registry DEF TypeInv
  <2>2. run'[r].pc = run[r].pc /\ \A s \in Runs : s # r => run'[s] = run[s]
    BY <1>3, <2>1 DEF GroupEnded, IdleOvertaken, TypeInv, TypeOK, RunRecord
  <2> QED  BY <2>2 DEF PromptStep, FirstOnly
<1>4. ASSUME NEW r \in 1..used,
             IdleExpires(r) \/ \E jobs, ended, recent \in BOOLEAN : IdleChecked(r, jobs, ended, recent)
      PROVE  PromptStep
  BY <1>4 DEF IdleExpires, IdleChecked
<1>5. CASE SetOption \/ PickStep \/ PickAnswered
  BY <1>5, SameSits
     DEF SetOption, PickStep, PickAnswered, PickRefused, PickRelaunches, PickWaits, PickDirect, Accepts
<1> QED  BY <1>1, <1>2, <1>3, <1>4, <1>5

\* The cancels, stops and ends.
LEMMA EndPrompts ==
  ASSUME TypeInv, stopping,
         \/ CancelOwnTurn \/ CancelTurn \/ CancelEarly
         \/ Stop \/ EndCancels \/ EndAtOnce \/ EndWithNoRun \/ StopStarts \/ Close
         \/ EndWaited \/ EndRefused \/ EndResolves \/ EndFails
  PROVE  PromptStep
<1>1. cur # NoRun => run[cur] \in RunRecord
  BY Registry DEF TypeInv
<1>2. CASE CancelOwnTurn
  <2> DEFINE y == CancelOpen(run[cur])
  <2>1. y \in RunRecord /\ y.pc = run[cur].pc
    BY <1>1, <1>2, CancelOpenType, PlaceKept DEF CancelOwnTurn
  <2>2. run' = [run EXCEPT ![cur] = [y EXCEPT !.ownStopped = TRUE, !.stopper = "on"]]
    BY <1>2 DEF CancelOwnTurn
  <2> HIDE DEF y
  <2>3. Sits(run[cur], [y EXCEPT !.ownStopped = TRUE, !.stopper = "on"])
    BY <2>1 DEF Sits, RunRecord
  <2> QED  BY <2>2, <2>3, RunSits
<1>3. CASE CancelTurn
  <2> DEFINE y == [run[cur] EXCEPT !.cancelAsked = TRUE, !.unsent = <<>>]
  <2>1. run[cur] \in RunRecord /\ <<>> \in Seq(Texts)
    BY <1>1, <1>3 DEF CancelTurn
  <2>2. y \in RunRecord /\ y.pc = run[cur].pc
    BY <2>1 DEF RunRecord
  <2>3. run' = [run EXCEPT ![cur] = y] \/ run' = [run EXCEPT ![cur] = CancelOpen(y)]
    BY <1>3 DEF CancelTurn
  <2> HIDE DEF y
  <2> QED  BY <2>2, <2>3, PlaceKept, RunSits DEF Sits
<1>4. CASE CancelEarly
  <2> DEFINE u == IF answers.answered THEN <<>> ELSE run[cur].unsent
             y == [run[cur] EXCEPT !.cancelledEarly = TRUE, !.earlyCancels = run[cur].earlyCancels + 1,
                                   !.unsent = u]
  <2>1. run[cur] \in RunRecord /\ <<>> \in Seq(Texts)
    BY <1>1, <1>4 DEF CancelEarly
  <2>2. u \in Seq(Texts) /\ run[cur].earlyCancels + 1 \in Nat
    BY <2>1 DEF RunRecord
  <2>3. run' = [run EXCEPT ![cur] = CancelOpen(y)]
    BY <1>4, <2>1 DEF CancelEarly, RunRecord
  <2> HIDE DEF u
  <2>4. y \in RunRecord /\ y.pc = run[cur].pc
    BY <2>1, <2>2 DEF RunRecord
  <2> HIDE DEF y
  <2> QED  BY <2>3, <2>4, PlaceKept, RunSits DEF Sits
<1>5. CASE Stop
  <2>1. run[cur] \in RunRecord
    BY <1>1, <1>5 DEF Stop
  <2> DEFINE y == SetBackground(run[cur], FALSE, FALSE)
  <2>2. y \in RunRecord /\ y.pc = run[cur].pc
    BY <2>1, SetBackgroundType, BackgroundPlace
  <2>3. run' = [run EXCEPT ![cur] = Quit(y)]
    BY <1>5 DEF Stop
  <2> HIDE DEF y
  <2>4. Sits(run[cur], Quit(y))
    BY <2>2, PlaceKept DEF Sits
  <2> QED  BY <2>3, <2>4, RunSits
<1>6. CASE EndCancels \/ EndAtOnce \/ EndWithNoRun \/ StopStarts \/ EndWaited \/ EndResolves
  BY <1>6 DEF EndCancels, EndAtOnce, EndWithNoRun, StopStarts, EndWaited, EndResolves
<1>7. CASE EndRefused \/ EndFails
  BY <1>7, SameSits DEF EndRefused, EndFails
<1>8. CASE Close
  <2> SUFFICES ASSUME NEW r \in Runs PROVE run'[r].pc = run[r].pc
    BY DEF PromptStep, FirstOnly
  <2>1. run[r] \in RunRecord /\ run'[r] = Closing(r)
    BY <1>8 DEF TypeInv, TypeOK, Close
  <2>2. Silence(run[r]) \in RunRecord
    BY <2>1, SilenceType
  <2> QED  BY <2>1, <2>2, PlaceKept DEF Closing
<1> QED  BY <1>2, <1>3, <1>4, <1>5, <1>6, <1>7, <1>8

\* The ends of writes.
LEMMA WritePrompts ==
  ASSUME TypeInv, WriteStep \/ WriteFails \/ \E t \in Texts : MessageFails(t) PROVE PromptStep
<1>1. \A r \in Runs : run[r] \in RunRecord
  BY DEF TypeInv, TypeOK
<1>2. \A r, p : r \in Runs /\ p # "prompt" => Sits(run[r], [run[r] EXCEPT !.pc = p])
  BY <1>1 DEF Sits, RunRecord
<1>3. CASE WriteDone
  <2>1. \A r \in Runs : Sits(run[r], EndProcess(run[r]))
    BY <1>1, PlaceKept DEF Sits
  <2> QED  BY <1>3, <2>1, SameSits, RunSits DEF WriteDone
<1>4. CASE HoldWritten
  <2> DEFINE r == Head(writes).by
  <2>1. \A s \in Runs : s # r => run'[s] = run[s]
    BY <1>4 DEF HoldWritten, TypeInv, TypeOK
  <2>2. r \in Runs => run'[r].pc \in {run[r].pc, "launch"}
    BY <1>1, <1>4 DEF HoldWritten, TypeInv, TypeOK, RunRecord
  <2> QED  BY <2>1, <2>2 DEF PromptStep, FirstOnly
<1>5. ASSUME NEW r \in 1..used, InterruptDone(r) PROVE PromptStep
  <2>1. run[r] \in RunRecord /\ r \in Runs
    BY Registry DEF TypeInv
  <2>2. Sits(run[r], Overtaken(run[r]))
    BY <2>1, PlaceLeft DEF Sits
  <2>3. \A p \in {"launch", "hold"} :
           Sits(run[r], [run[r] EXCEPT !.reopened = "ok", !.pc = p])
    BY <2>1 DEF Sits, RunRecord
  <2>4. \/ run' = [run EXCEPT ![r] = Overtaken(run[r])]
        \/ \E p \in {"launch", "hold"} : run' = [run EXCEPT ![r] = [run[r] EXCEPT !.reopened = "ok", !.pc = p]]
    BY <1>5, <2>1 DEF InterruptDone, TypeInv, TypeOK
  <2> QED  BY <2>2, <2>3, <2>4, RunSits
<1>6. ASSUME NEW r \in 1..used, SessionStored(r) \/ ResumedDone(r) PROVE PromptStep
  <2>1. run[r] \in RunRecord /\ r \in Runs
    BY Registry DEF TypeInv
  <2>2. Sits(run[r], PickRelaunchOver(run[r]))
    BY <2>1, PlaceLeft DEF Sits
  <2>3. \/ run' = [run EXCEPT ![r] = PickRelaunchOver(run[r])]
        \/ \E p \in {"options", "held"} : run' = [run EXCEPT ![r] = [run[r] EXCEPT !.pc = p]]
    BY <1>6, <2>1 DEF SessionStored, ResumedDone, AfterResumed, TypeInv, TypeOK
  <2> QED  BY <1>2, <2>1, <2>2, <2>3, RunSits
<1>7. CASE WriteFails
  <2> DEFINE r == Head(writes).by
             x == Quit(run[r])
  <2>1. r \in Runs => x \in RunRecord /\ x.pc = run[r].pc
    BY <1>1, QuitType, PlaceKept
  <2>2. \/ run' = run
        \/ run' = [run EXCEPT ![r] = [x EXCEPT !.reopened = "failed", !.pc = "over"]]
        \/ run' = [run EXCEPT ![r] = [x EXCEPT !.pc = "over"]]
        \/ run' = [run EXCEPT ![r] = [x EXCEPT !.pc = "halted"]]
        \/ run' = [run EXCEPT ![r] = x]
    BY <1>7 DEF WriteFails
  <2> HIDE DEF x
  <2>3. r \in Runs =>
          /\ Sits(run[r], [x EXCEPT !.reopened = "failed", !.pc = "over"])
          /\ Sits(run[r], [x EXCEPT !.pc = "over"]) /\ Sits(run[r], [x EXCEPT !.pc = "halted"])
          /\ Sits(run[r], x)
    BY <2>1 DEF Sits, RunRecord
  <2> QED  BY <2>2, <2>3, RunSits, SameSits
<1>8. ASSUME NEW t \in Texts, MessageFails(t) PROVE PromptStep
  <2> DEFINE r == msg[t].run
  <2>1. run' = [run EXCEPT ![r] = HoldFailed(run[r])]
    BY <1>8 DEF MessageFails
  <2> HIDE DEF r
  <2>2. r \in Runs => Sits(run[r], HoldFailed(run[r]))
    BY <1>1, PlaceKept DEF Sits
  <2> QED  BY <2>1, <2>2, RunSits
<1> QED  BY <1>3, <1>4, <1>5, <1>6, <1>7, <1>8 DEF WriteStep

LEMMA StopPrompts == TypeInv /\ stopping /\ [Next]_vars => PromptStep
<1> SUFFICES ASSUME TypeInv, stopping, [Next]_vars PROVE PromptStep
  OBVIOUS
<1>1. CASE UNCHANGED vars
  BY <1>1, SameSits DEF vars
<1>2. ASSUME NEW r \in 1..used, NEW q \in Requests, Resolve(r, q) PROVE PromptStep
  BY <1>2, AgentPrompts
<1>3. CASE ClientStep
  <2>1. ASSUME NEW q \in Requests, Answer(q) PROVE PromptStep
    <3>1. cur \in 1..used /\ Resolve(cur, q)
      BY <2>1, Registry DEF Answer, TypeInv
    <3> QED  BY <1>2, <3>1
  <2>2. ASSUME NEW t \in Texts, Send(t) PROVE PromptStep
    BY <2>2, SendPrompts
  <2>3. SetOption => PromptStep
    BY ExitPrompts
  <2>4. CancelOwnTurn \/ CancelTurn \/ CancelEarly
          \/ Stop \/ EndCancels \/ EndAtOnce \/ EndWithNoRun \/ StopStarts => PromptStep
    BY EndPrompts
  <2> QED  BY <1>3, <2>1, <2>2, <2>3, <2>4 DEF ClientStep
<1>4. CASE PickAnswered \/ PickStep
  BY <1>4, ExitPrompts
<1>5. CASE Close \/ EndStep
  BY <1>5, EndPrompts DEF EndStep
<1>6. CASE WriteFails \/ WriteStep
  BY <1>6, WritePrompts
<1>7. ASSUME NEW t \in Texts, MessageStep(t) PROVE PromptStep
  <2>1. Send(t) => PromptStep
    BY SendPrompts
  <2>2. MessageFails(t) => PromptStep
    BY WritePrompts
  <2>3. ASSUME NEW r \in 1..used,
               HoldRefused(r, t) \/ HoldStopping(r, t) \/ HoldAgain(r, t) \/ HoldWrite(r, t)
        PROVE  PromptStep
    BY <2>3, HoldPrompts
  <2> QED  BY <1>7, <2>1, <2>2, <2>3 DEF MessageStep
<1>8. ASSUME NEW r \in 1..used, RunStep(r) PROVE PromptStep
  <2>1. Reopen(r) \/ LaunchOver(r) \/ Spawn(r) \/ StartHalted(r) \/ OptionSent(r) \/ OptionsQuiet(r)
          \/ OptionsDone(r) \/ PickOptionsDone(r) \/ HeldOver(r) => PromptStep
    BY StartPrompts
  <2>2. NextPrompt(r) \/ (\E jobs \in BOOLEAN : TurnOver(r, jobs)) => PromptStep
    BY AgentPrompts
  <2> QED  BY <1>8, <2>1, <2>2 DEF RunStep
<1>9. ASSUME NEW r \in 1..used, CheckStep(r) PROVE PromptStep
  <2>1. IdleOvertaken(r) => PromptStep
    BY ExitPrompts
  <2>2. (\E jobs \in BOOLEAN : MarkerChecked(r, jobs) \/ StopChecked(r, jobs)) => PromptStep
    BY AgentPrompts
  <2> QED  BY <1>9, <2>1, <2>2 DEF CheckStep
<1>10. ASSUME NEW r \in 1..used, ExitStep(r) \/ ProcessEnds(r) PROVE PromptStep
  BY <1>10, ExitPrompts DEF ExitStep, ProcessEnds
<1>11. ASSUME NEW r \in 1..used, AgentStep(r) PROVE PromptStep
  <2>1. LaunchFails(r) \/ Initialized(r) \/ SessionResumed(r) \/ SessionLost(r)
          \/ SessionCreated(r) \/ AgentFails(r) \/ OptionAnswered(r) => PromptStep
    BY StartPrompts
  <2>2. \/ AgentWorks(r) \/ OwnOutput(r) \/ OwnTurnMarker(r)
        \/ \E reason \in BOOLEAN : PromptReturned(r, reason)
        \/ \E t \in Texts : AgentInjects(r, t) \/ SteerAnswered(r, t)
        => PromptStep
    BY AgentPrompts
  <2>3. ASSUME NEW q \in Requests, Ask(r, q) \/ AgentTakesBack(r, q) PROVE PromptStep
    BY <2>3, AgentPrompts DEF AgentTakesBack
  <2>4. \/ IdleExpires(r) \/ ConnectionCut(r) \/ (\E clean \in BOOLEAN : Exit(r, clean))
        \/ \E jobs, ended, recent \in BOOLEAN : IdleChecked(r, jobs, ended, recent)
        => PromptStep
    BY ExitPrompts
  <2> QED  BY <1>11, <2>1, <2>2, <2>3, <2>4 DEF AgentStep
<1> QED  BY <1>1, <1>3, <1>4, <1>5, <1>6, <1>7, <1>8, <1>9, <1>10, <1>11 DEF Next, Outside

-----------------------------------------------------------------------------
(* The places of the coroutines, and who waits for them. *)

\* The place where a coroutine waits for each of its own writes.
StepPlace == [reopen |-> "interrupt", session |-> "store", resumed |-> "resumed"]

\* The places that a write or a pick relies on.
Relied == {"interrupt", "store", "resumed", "halted", "options", "pick"}

TurnFits(x) == ~x.turning => x.pc \in {"idle", "over"}
TurnsFit == \A r \in 1..used : TurnFits(run[r])

\* A write that a coroutine waits for finds it there, and each waits for one write.
StepFits ==
  \A i \in DOMAIN writes : writes[i].cont \in StepConts =>
     /\ writes[i].by \in 1..used
     /\ run[writes[i].by].pc = StepPlace[writes[i].cont]
StepsDiffer ==
  \A i, j \in DOMAIN writes :
     writes[i].cont \in StepConts /\ writes[j].cont \in StepConts /\ i # j =>
        writes[i].by # writes[j].by

\* The run of a pick is at the step that answers it.
PickFits ==
  /\ pick.st # "none" => pick.run \in 1..used
  /\ pick.st = "waiting" => cur = pick.run
  /\ pick.st = "setting" => run[pick.run].pc = "pick"
  /\ pick.st = "applied" => run[pick.run].pc \in {"options", "resumed", "halted"}
  /\ pick.st = "direct" => Connected(run[pick.run])

PlaceInv == TurnsFit /\ StepFits /\ StepsDiffer /\ PickFits

\* A step that leaves the place, the turn and the connection of a run.
Stands(x, y) == y.pc = x.pc /\ y.turning = x.turning /\ (Connected(x) => Connected(y))

\* A step that leaves no place that a write or a pick relies on.
Moves(x, y) ==
  TurnFits(x) =>
    /\ TurnFits(y)
    /\ x.pc \in Relied => y.pc = x.pc
    /\ Connected(x) => Connected(y)

RunsMove == \A r \in 1..used : Moves(run[r], run'[r])

\* A step that answers the pick, or leaves it with its run.
PickRests ==
  \/ pick'.st = "none"
  \/ pick'.st = pick.st /\ pick'.run = pick.run /\ (pick.st = "waiting" => cur' = cur)

MoveStep == RunsMove /\ PickRests /\ used' = used

\* The first write is done, and no coroutine waits for it.
TailStep == writes # <<>> /\ Head(writes).cont \notin StepConts /\ writes' = Tail(writes)

-----------------------------------------------------------------------------
(* Steps that leave the places, and steps that move on. *)

LEMMA StandsMoves == ASSUME NEW x, NEW y, Stands(x, y) PROVE Moves(x, y)
  BY DEF Stands, Moves, TurnFits

LEMMA StandsOn ==
  ASSUME NEW x, NEW y, NEW z, Stands(x, y), Stands(y, z) PROVE Stands(x, z)
  BY DEF Stands

LEMMA StandsThenMoves ==
  ASSUME NEW x, NEW y, NEW z, Stands(x, y), Moves(y, z) PROVE Moves(x, z)
  BY DEF Stands, Moves, TurnFits

LEMMA SameStands == ASSUME NEW x PROVE Stands(x, x)
  BY DEF Stands

\* The parts of a step that leave the places.
LEMMA TouchStands == ASSUME NEW x \in RunRecord PROVE Stands(x, Touch(x))
  BY DEF Stands, Touch, Connected, RunRecord

LEMMA SilenceStands == ASSUME NEW x \in RunRecord PROVE Stands(x, Silence(x))
  BY DEF Stands, Silence, Connected, RunRecord

LEMMA EndProcessStands == ASSUME NEW x \in RunRecord PROVE Stands(x, EndProcess(x))
  BY DEF Stands, EndProcess, Connected, RunRecord

LEMMA QuitStands == ASSUME NEW x \in RunRecord PROVE Stands(x, Quit(x))
  BY SilenceStands, SilenceType, EndProcessStands, StandsOn DEF Quit

LEMMA FailStands == ASSUME NEW x \in RunRecord PROVE Stands(x, Fail(x))
  BY SilenceStands, SameStands DEF Fail

LEMMA SetBackgroundStands ==
  ASSUME NEW x \in RunRecord, NEW job, NEW own PROVE Stands(x, SetBackground(x, job, own))
  BY DEF Stands, SetBackground, Connected, RunRecord

LEMMA CancelOpenStands == ASSUME NEW x \in RunRecord PROVE Stands(x, CancelOpen(x))
<1>1. [x EXCEPT !.open = {}] \in RunRecord /\ Stands(x, [x EXCEPT !.open = {}])
  BY DEF Stands, Connected, RunRecord
<1> QED  BY <1>1, TouchStands, StandsOn, SameStands DEF CancelOpen

LEMMA StaleStands ==
  ASSUME NEW x \in RunRecord PROVE Stands(x, StaleAll(x)) /\ Stands(x, StaleMarker(x))
<1>1. \A m, s : Stands(x, [x EXCEPT !.marker = m, !.stopper = s])
  BY DEF Stands, Connected, RunRecord
<1>2. \A m : Stands(x, [x EXCEPT !.marker = m])
  BY DEF Stands, Connected, RunRecord
<1> QED  BY <1>1, <1>2 DEF StaleAll, StaleMarker

LEMMA HoldStands == ASSUME NEW x \in RunRecord, NEW t PROVE Stands(x, Hold(x, t))
  BY DEF Stands, Hold, Connected, RunRecord

\* A change of the place.
LEMMA PlaceMoves ==
  ASSUME NEW x \in RunRecord, NEW p, x.pc \notin Relied, x.turning \/ p \in {"idle", "over"}
  PROVE  Moves(x, [x EXCEPT !.pc = p])
  BY DEF Moves, TurnFits, Connected, RunRecord

LEMMA FailOverMoves ==
  ASSUME NEW x \in RunRecord, x.pc \notin Relied PROVE Moves(x, [Fail(x) EXCEPT !.pc = "over"])
<1>1. Fail(x) \in RunRecord /\ Stands(x, Fail(x))
  BY FailType, FailStands
<1>2. Fail(x).pc \notin Relied
  BY <1>1 DEF Stands
<1>3. Moves(Fail(x), [Fail(x) EXCEPT !.pc = "over"])
  BY <1>1, <1>2, PlaceMoves
<1> QED  BY <1>1, <1>3, StandsThenMoves

LEMMA HoldFailedMoves == ASSUME NEW x \in RunRecord PROVE Moves(x, HoldFailed(x))
  BY DEF Moves, TurnFits, Connected, RunRecord, HoldFailed, Relied

\* The end and the begin of a turn, from a place that nobody relies on.
LEMMA EndTurnFits ==
  ASSUME NEW x \in RunRecord
  PROVE  EndTurn(x).pc \in {"idle", "over"} /\ (Connected(x) => Connected(EndTurn(x)))
<1> DEFINE y == [x EXCEPT !.turning = FALSE, !.pc = "idle", !.open = {}]
           z == [x EXCEPT !.turning = FALSE, !.pc = "over"]
<1>1. y \in RunRecord /\ y.pc = "idle" /\ (Connected(x) => Connected(y))
  <2>1. y \in RunRecord
    BY DEF RunRecord, Places
  <2>2. y.pc = "idle" /\ y.proc = x.proc
    BY DEF RunRecord
  <2> QED  BY <2>1, <2>2 DEF Connected
<1>2. z.pc = "over" /\ (Connected(x) => Connected(z))
  BY DEF RunRecord, Connected
<1>3. EndTurn(x) = IF x.quiet THEN z ELSE Touch(y)
  BY DEF EndTurn
<1> HIDE DEF y, z
<1> QED  BY <1>1, <1>2, <1>3, TouchStands DEF Stands

LEMMA RunTurnFits ==
  ASSUME NEW x \in RunRecord
  PROVE  /\ RunTurn(x).turning = x.turning
         /\ Connected(x) => Connected(RunTurn(x))
<1> DEFINE y == [x EXCEPT !.unsent = <<>>, !.cancelAsked = FALSE, !.turnCancelled = FALSE]
<1>1. <<>> \in Seq(Texts)
  OBVIOUS
<1>2. y \in RunRecord /\ Stands(x, y)
  BY <1>1 DEF Stands, Connected, RunRecord
<1>3. RunTurn(x) = IF Connected(x) THEN [y EXCEPT !.pc = "prompt"]
                   ELSE EndProcess([y EXCEPT !.pc = "over"])
  BY DEF RunTurn
<1> HIDE DEF y
<1>4. [y EXCEPT !.pc = "prompt"].turning = y.turning
      /\ [y EXCEPT !.pc = "prompt"].proc = y.proc
      /\ [y EXCEPT !.pc = "over"].turning = y.turning
  BY <1>2 DEF RunRecord
<1>5. [y EXCEPT !.pc = "over"] \in RunRecord
  BY <1>2, PlaceType DEF Places
<1>6. EndProcess([y EXCEPT !.pc = "over"]).turning = y.turning
  BY <1>4, <1>5, EndProcessStands DEF Stands
<1> QED  BY <1>2, <1>3, <1>4, <1>6 DEF Stands, Connected

LEMMA RunTurnMoves ==
  ASSUME NEW x \in RunRecord, x.pc \notin Relied, x.turning PROVE Moves(x, RunTurn(x))
  BY RunTurnFits DEF Moves, TurnFits

LEMMA EndTurnMoves ==
  ASSUME NEW x \in RunRecord, x.pc \notin Relied PROVE Moves(x, EndTurn(x))
  BY EndTurnFits DEF Moves, TurnFits

\* The result of `begin` keeps the turn, or ends it.
LEMMA FirstTurnFits ==
  ASSUME TypeOK, NEW x \in RunRecord, x.turning
  PROVE  TurnFits(FirstTurn(x)) /\ (Connected(x) => Connected(FirstTurn(x)))
<1> DEFINE y == [x EXCEPT !.reaches = TRUE]
           u == IF answers.answered THEN <<>> ELSE y.unsent
           z == [y EXCEPT !.unsent = u, !.turnCancelled = TRUE]
<1>1. y \in RunRecord /\ Stands(x, y)
  BY DEF Stands, Connected, RunRecord
<1>2. <<>> \in Seq(Texts)
  OBVIOUS
<1>3. u \in Seq(Texts)
  BY <1>1, <1>2 DEF RunRecord
<1>4. FirstTurn(x) = IF ~x.cancelledEarly THEN RunTurn(y) ELSE EndTurn(z)
  BY DEF FirstTurn
<1> HIDE DEF u, y
<1>5. z \in RunRecord /\ Stands(y, z)
  BY <1>1, <1>3 DEF Stands, Connected, RunRecord
<1> HIDE DEF z
<1>6. /\ EndTurn(z).pc \in {"idle", "over"}
      /\ Connected(z) => Connected(EndTurn(z))
  BY <1>5, EndTurnFits
<1>7. /\ RunTurn(y).turning = y.turning
      /\ Connected(y) => Connected(RunTurn(y))
  BY <1>1, RunTurnFits
<1> QED  BY <1>1, <1>4, <1>5, <1>6, <1>7 DEF Stands, TurnFits

LEMMA FirstTurnMoves ==
  ASSUME TypeOK, NEW x \in RunRecord, x.pc \notin Relied, x.turning PROVE Moves(x, FirstTurn(x))
  BY FirstTurnFits DEF Moves

\* The end of a start that a pick began.
LEMMA PickRelaunchOverFits ==
  ASSUME NEW x \in RunRecord
  PROVE  TurnFits(PickRelaunchOver(x)) /\ (Connected(x) => Connected(PickRelaunchOver(x)))
<1> DEFINE y == [x EXCEPT !.pickRelaunch = FALSE, !.turning = FALSE, !.pc = "idle"]
<1>1. y \in RunRecord /\ y.pc = "idle" /\ (Connected(x) => Connected(y))
  <2>1. y \in RunRecord
    BY DEF RunRecord, Places
  <2>2. y.pc = "idle" /\ y.proc = x.proc
    BY DEF RunRecord
  <2> QED  BY <2>1, <2>2 DEF Connected
<1>2. PickRelaunchOver(x) = Touch(y)
  BY DEF PickRelaunchOver
<1> HIDE DEF y
<1> QED  BY <1>1, <1>2, TouchStands DEF Stands, TurnFits

LEMMA OvertakenFits ==
  ASSUME NEW x \in RunRecord
  PROVE  TurnFits(Overtaken(x)) /\ (Connected(x) => Connected(Overtaken(x)))
  BY DEF Overtaken, Silence, TurnFits, Connected, RunRecord

-----------------------------------------------------------------------------
(* Steps that keep the places. *)

\* A step of one run.
LEMMA RunMoves ==
  ASSUME TypeInv, NEW r, NEW y, run' = [run EXCEPT ![r] = y], r \in 1..used => Moves(run[r], y)
  PROVE  RunsMove
<1>1. \A s \in 1..used : s \in Runs
  BY Registry DEF TypeInv
<1>2. \A s \in 1..used : run'[s] = IF s = r THEN y ELSE run[s]
  BY <1>1 DEF TypeInv, TypeOK
<1>3. \A s : Moves(run[s], run[s])
  BY SameStands, StandsMoves
<1> QED  BY <1>2, <1>3 DEF RunsMove

LEMMA SameMoves == ASSUME run' = run PROVE RunsMove
  BY SameStands, StandsMoves DEF RunsMove

\* `forget` answers the pick that waits for the run, and no other.
LEMMA ForgetRests == ASSUME TypeInv, PlaceInv, NEW r, Forget(r) PROVE PickRests
<1>1. pick \in Pick
  BY DEF TypeInv, TypeOK
<1>2. CASE pick.st = "waiting" /\ pick.run = r
  BY <1>1, <1>2 DEF Forget, PickRests, Pick
<1>3. CASE ~(pick.st = "waiting" /\ pick.run = r)
  BY <1>3 DEF Forget, PickRests, PlaceInv, PickFits
<1> QED  BY <1>2, <1>3

\* So does the answer to a pick.
LEMMA AnswerRests ==
  ASSUME TypeInv, cur' = cur,
         pick' = pick \/ pick' = [pick EXCEPT !.st = "none", !.settled = pick.settled + 1]
  PROVE  PickRests
  BY DEF TypeInv, TypeOK, Pick, PickRests

\* The places and the picks after a step that moves no run from where somebody waits for it.
LEMMA PickKept == ASSUME TypeInv, PlaceInv, MoveStep PROVE PickFits'
<1>1. pick.st # "none" => pick.run \in 1..used
  BY DEF PlaceInv, PickFits
<1>2. CASE pick'.st = "none"
  BY <1>2 DEF PickFits
<1>3. CASE pick'.st # "none"
  <2>1. pick'.st = pick.st /\ pick'.run = pick.run /\ (pick.st = "waiting" => cur' = cur)
    BY <1>3 DEF MoveStep, PickRests
  <2>2. Moves(run[pick.run], run'[pick.run]) /\ TurnFits(run[pick.run])
    BY <1>1, <1>3, <2>1 DEF MoveStep, RunsMove, PlaceInv, TurnsFit
  <2> QED  BY <1>1, <1>3, <2>1, <2>2 DEF MoveStep, Moves, PlaceInv, PickFits, Relied, Connected
<1> QED  BY <1>2, <1>3

LEMMA TurnsKept == ASSUME PlaceInv, MoveStep PROVE TurnsFit'
  BY DEF PlaceInv, MoveStep, RunsMove, Moves, TurnsFit

\* The places of the writes that wait.
PlacesStay ==
  /\ 1..used \subseteq 1..used'
  /\ \A r \in 1..used : run[r].pc \in {"interrupt", "store", "resumed"} => run'[r].pc = run[r].pc

LEMMA MovesStay == ASSUME PlaceInv, MoveStep PROVE PlacesStay
  BY DEF PlaceInv, TurnsFit, MoveStep, RunsMove, Moves, Relied, PlacesStay

LEMMA StepPlaces ==
  \A c \in StepConts : StepPlace[c] \in {"interrupt", "store", "resumed"}
  BY DEF StepConts, StepPlace

LEMMA StepsGrow ==
  ASSUME TypeInv, PlaceInv, PlacesStay, Grows PROVE StepFits' /\ StepsDiffer'
<1>1. writes \in Seq(Write)
  BY DEF TypeInv, TypeOK
<1>2. PICK s \in Seq(Aside) : writes' = writes \o s
  BY DEF Grows
<1>3. ASSUME NEW i \in DOMAIN writes', writes'[i].cont \in StepConts
      PROVE  i \in DOMAIN writes /\ writes'[i] = writes[i]
  <2>1. CASE i \in 1..Len(writes)
    BY <1>1, <1>2, <2>1
  <2>2. CASE i \notin 1..Len(writes)
    <3>1. i - Len(writes) \in 1..Len(s) /\ writes'[i] = s[i - Len(writes)]
      BY <1>1, <1>2, <2>2
    <3>2. writes'[i] \in Aside
      BY <3>1
    <3> QED  BY <1>3, <3>2 DEF Aside
  <2> QED  BY <2>1, <2>2
<1>4. StepFits'
  BY <1>3, StepPlaces DEF PlaceInv, StepFits, PlacesStay
<1>5. StepsDiffer'
  BY <1>3 DEF PlaceInv, StepsDiffer
<1> QED  BY <1>4, <1>5

LEMMA StepsTail ==
  ASSUME TypeInv, PlaceInv, writes # <<>>, writes' = Tail(writes), 1..used \subseteq 1..used',
         \A r \in 1..used : run[r].pc \in {"interrupt", "store", "resumed"} =>
            run'[r].pc = run[r].pc \/ (Head(writes).cont \in StepConts /\ Head(writes).by = r)
  PROVE  StepFits' /\ StepsDiffer'
<1>1. writes \in Seq(Write) /\ Len(writes) \in Nat /\ Len(writes) > 0
  BY DEF TypeInv, TypeOK
<1>2. ASSUME NEW i \in DOMAIN writes'
      PROVE  i + 1 \in DOMAIN writes /\ writes'[i] = writes[i + 1] /\ i + 1 # 1 /\ i \in Nat
  BY <1>1
<1>3. 1 \in DOMAIN writes /\ Head(writes) = writes[1]
  BY <1>1
<1>4. ASSUME NEW i \in DOMAIN writes', writes'[i].cont \in StepConts
      PROVE  /\ writes'[i].by \in 1..used'
             /\ run'[writes'[i].by].pc = StepPlace[writes'[i].cont]
  <2> DEFINE w == writes[i + 1]
  <2>1. writes'[i] = w /\ w.cont \in StepConts /\ i + 1 # 1 /\ i + 1 \in DOMAIN writes
    BY <1>2, <1>4
  <2>2. w.by \in 1..used /\ run[w.by].pc = StepPlace[w.cont]
    BY <2>1 DEF PlaceInv, StepFits
  <2>3. ~(Head(writes).cont \in StepConts /\ Head(writes).by = w.by)
    BY <1>3, <2>1 DEF PlaceInv, StepsDiffer
  <2>4. run[w.by].pc \in {"interrupt", "store", "resumed"}
    BY <2>1, <2>2, StepPlaces
  <2> QED  BY <2>1, <2>2, <2>3, <2>4
<1>5. ASSUME NEW i \in DOMAIN writes', NEW j \in DOMAIN writes',
             writes'[i].cont \in StepConts, writes'[j].cont \in StepConts, i # j
      PROVE  writes'[i].by # writes'[j].by
  <2>1. i + 1 # j + 1
    BY <1>2, <1>5
  <2> QED  BY <1>2, <1>5, <2>1 DEF PlaceInv, StepsDiffer
<1> QED  BY <1>4, <1>5 DEF StepFits, StepsDiffer

LEMMA StepsAppend ==
  ASSUME TypeInv, PlaceInv, PlacesStay, NEW w \in Write, writes' = Append(writes, w),
         w.cont \in StepConts, w.by \in 1..used, run'[w.by].pc = StepPlace[w.cont],
         run[w.by].pc \notin {"interrupt", "store", "resumed"}
  PROVE  StepFits' /\ StepsDiffer'
<1>1. writes \in Seq(Write) /\ Len(writes) \in Nat
  BY DEF TypeInv, TypeOK
<1>2. ASSUME NEW i \in DOMAIN writes'
      PROVE  i = Len(writes) + 1 \/ (i \in DOMAIN writes /\ writes'[i] = writes[i])
  BY <1>1
<1>3. writes'[Len(writes) + 1] = w
  BY <1>1
<1>4. ASSUME NEW i \in DOMAIN writes, writes[i].cont \in StepConts PROVE writes[i].by # w.by
  BY <1>4, StepPlaces DEF PlaceInv, StepFits
<1>5. StepFits'
  <2> SUFFICES ASSUME NEW i \in DOMAIN writes', writes'[i].cont \in StepConts
               PROVE  /\ writes'[i].by \in 1..used'
                      /\ run'[writes'[i].by].pc = StepPlace[writes'[i].cont]
    BY DEF StepFits
  <2>1. CASE i = Len(writes) + 1
    BY <1>3, <2>1 DEF PlacesStay
  <2>2. CASE i \in DOMAIN writes /\ writes'[i] = writes[i]
    BY <2>2, StepPlaces DEF PlacesStay, PlaceInv, StepFits
  <2> QED  BY <1>2, <2>1, <2>2
<1>6. StepsDiffer'
  BY <1>2, <1>3, <1>4 DEF PlaceInv, StepsDiffer
<1> QED  BY <1>5, <1>6

\* A step that moves no run from where somebody waits for it, and adds no step write.
LEMMA MoveHolds ==
  ASSUME TypeInv, PlaceInv, MoveStep, Grows \/ TailStep PROVE PlaceInv'
<1>1. PickFits' /\ TurnsFit' /\ PlacesStay
  BY PickKept, TurnsKept, MovesStay
<1>2. StepFits' /\ StepsDiffer'
  BY <1>1, StepsGrow, StepsTail DEF TailStep, PlacesStay
<1> QED  BY <1>1, <1>2 DEF PlaceInv

-----------------------------------------------------------------------------
(* One lemma for each group of actions that moves no run from such a place. *)

\* Messages, but for the one that starts a run.
LEMMA SendMoves ==
  ASSUME TypeInv, PlaceInv, NEW t \in Texts,
         RefuseMessage(t) \/ JoinStart(t) \/ JoinTurn(t) \/ StartTurn(t)
  PROVE  MoveStep
<1> DEFINE x == run[cur]
<1>1. used' = used /\ cur' = cur /\ pick' = pick
  BY DEF RefuseMessage, JoinStart, JoinTurn, StartTurn, table
<1>2. CASE RefuseMessage(t)
  BY <1>1, <1>2, SameMoves DEF RefuseMessage, MoveStep, PickRests
<1>3. CASE JoinStart(t) \/ JoinTurn(t) \/ StartTurn(t)
  <2>1. cur # NoRun
    BY <1>3 DEF JoinStart, JoinTurn, StartTurn
  <2>2. x \in RunRecord /\ cur \in 1..used
    BY <2>1, Registry DEF TypeInv
  <2>3. CASE JoinStart(t)
    <3> DEFINE y == IF x.pickRelaunch
                    THEN [x EXCEPT !.pickRelaunch = FALSE, !.reaches = FALSE, !.earlierPicks = pick.issued]
                    ELSE x
    <3>1. pick.issued \in 0..MaxPicks
      BY DEF TypeInv, TypeOK, Pick
    <3>2. [x EXCEPT !.pickRelaunch = FALSE, !.reaches = FALSE, !.earlierPicks = pick.issued]
            \in RunRecord
      BY <2>2, <3>1 DEF RunRecord
    <3>3. Stands(x, [x EXCEPT !.pickRelaunch = FALSE, !.reaches = FALSE, !.earlierPicks = pick.issued])
      BY <2>2 DEF Stands, Connected, RunRecord
    <3>4. y \in RunRecord /\ Stands(x, y)
      BY <2>2, <3>2, <3>3, SameStands
    <3>5. run' = [run EXCEPT ![cur] = Hold(y, t)]
      BY <2>3 DEF JoinStart
    <3> HIDE DEF y
    <3>6. Stands(x, Hold(y, t))
      BY <3>4, HoldStands, StandsOn
    <3> QED  BY <1>1, <3>5, <3>6, StandsMoves, RunMoves DEF MoveStep, PickRests
  <2>4. CASE JoinTurn(t)
    <3> DEFINE u == Append(x.unsent, t)
               s == IF ~x.cancelAsked /\ Connected(x) THEN x.steering \union {t} ELSE x.steering
               y == [x EXCEPT !.unsent = u, !.job = FALSE, !.own = FALSE, !.steering = s]
    <3>1. u \in Seq(Texts) /\ s \in SUBSET Texts
      BY <2>2 DEF RunRecord
    <3>2. run' = [run EXCEPT ![cur] = Touch(y)]
      BY <2>2, <2>4 DEF JoinTurn, RunRecord
    <3> HIDE DEF u, s
    <3>3. y \in RunRecord
      BY <2>2, <3>1 DEF RunRecord
    <3>4. Stands(x, y)
      BY <2>2 DEF Stands, Connected, RunRecord
    <3> HIDE DEF y
    <3>5. Stands(x, Touch(y))
      BY <3>3, <3>4, TouchStands, StandsOn
    <3> QED  BY <1>1, <3>2, <3>5, StandsMoves, RunMoves DEF MoveStep, PickRests
  <2>5. CASE StartTurn(t)
    <3> DEFINE y == [x EXCEPT !.turning = TRUE, !.job = FALSE, !.own = FALSE, !.ownStopped = FALSE]
               z == Touch(StaleAll(y))
    <3>1. x.pc \notin Relied
      BY <2>2, <2>5 DEF StartTurn, PlaceInv, TurnsFit, TurnFits, Relied
    <3>2. y \in RunRecord
      BY <2>2 DEF RunRecord
    <3>3. y.pc = x.pc /\ y.turning /\ y.proc = x.proc
      BY <2>2 DEF RunRecord
    <3>4. run' = [run EXCEPT ![cur] = RunTurn(z)]
      BY <2>5 DEF StartTurn
    <3> HIDE DEF y
    <3>5. z \in RunRecord /\ Stands(y, z)
      BY <3>2, StaleType, StaleStands, TouchType, TouchStands, StandsOn
    <3> HIDE DEF z
    <3>6. Moves(z, RunTurn(z)) /\ z.turning
      BY <3>1, <3>3, <3>5, RunTurnMoves DEF Stands
    <3>7. Moves(x, RunTurn(z))
      BY <3>1, <3>3, <3>5, <3>6 DEF Moves, Stands, TurnFits, Connected
    <3> QED  BY <1>1, <3>4, <3>7, RunMoves DEF MoveStep, PickRests
  <2> QED  BY <1>3, <2>3, <2>4, <2>5
<1> QED  BY <1>2, <1>3

\* The messages of a start.
LEMMA HoldMoves ==
  ASSUME TypeInv, PlaceInv, NEW r \in 1..used, NEW t \in Texts,
         HoldRefused(r, t) \/ HoldStopping(r, t) \/ HoldAgain(r, t) \/ HoldWrite(r, t)
  PROVE  MoveStep
<1>1. run[r] \in RunRecord
  BY Registry DEF TypeInv
<1>2. used' = used
  BY DEF HoldRefused, HoldStopping, HoldAgain, HoldWrite, table
<1>3. Moves(run[r], HoldFailed(run[r]))
  BY <1>1, HoldFailedMoves
<1>4. CASE HoldRefused(r, t) \/ HoldAgain(r, t)
  BY <1>2, <1>3, <1>4, RunMoves DEF HoldRefused, HoldAgain, MoveStep, PickRests
<1>5. CASE HoldWrite(r, t)
  BY <1>2, <1>5, SameMoves DEF HoldWrite, MoveStep, PickRests
<1>6. CASE HoldStopping(r, t) /\ ChatBusy(fold)
  <2>1. cur' = cur /\ (pick' = pick \/ pick' = [pick EXCEPT !.st = "none", !.settled = pick.settled + 1])
    BY <1>6 DEF HoldStopping
  <2>2. run' = [run EXCEPT ![r] = HoldFailed(run[r])]
    BY <1>6 DEF HoldStopping
  <2> QED  BY <1>2, <1>3, <2>1, <2>2, RunMoves, AnswerRests DEF MoveStep
<1>7. CASE HoldStopping(r, t) /\ ~ChatBusy(fold)
  <2> DEFINE y == Silence(run[r])
  <2>1. run' = [run EXCEPT ![r] = HoldFailed(y)] /\ Forget(r)
    BY <1>7 DEF HoldStopping
  <2>2. y \in RunRecord /\ Stands(run[r], y)
    BY <1>1, SilenceType, SilenceStands
  <2> HIDE DEF y
  <2>3. Moves(run[r], HoldFailed(y))
    BY <2>2, HoldFailedMoves, StandsThenMoves
  <2> QED  BY <1>2, <2>1, <2>3, RunMoves, ForgetRests DEF MoveStep
<1> QED  BY <1>4, <1>5, <1>6, <1>7

\* A start, from the launch to its first turn.
LEMMA StartMoves ==
  ASSUME TypeInv, PlaceInv, NEW r \in 1..used,
         \/ LaunchFails(r) \/ LaunchOver(r) \/ Spawn(r)
         \/ Initialized(r) \/ SessionResumed(r) \/ SessionLost(r) \/ AgentFails(r)
         \/ HeldOver(r)
  PROVE  MoveStep
<1> DEFINE x == run[r]
<1>1. x \in RunRecord /\ r \in Runs /\ TypeOK
  BY Registry DEF TypeInv
<1>2. used' = used
  BY DEF LaunchFails, LaunchOver, Spawn, Initialized, SessionResumed, SessionLost, AgentFails,
         HeldOver, table
<1>3. x.pc \notin Relied /\ x.pc \notin {"idle", "over"}
  BY DEF LaunchFails, LaunchOver, Spawn, Initialized, SessionResumed, SessionLost, AgentFails,
         HeldOver, Relied, AtAgent
<1>4. x.turning
  BY <1>1, <1>3 DEF PlaceInv, TurnsFit, TurnFits
<1>5. Moves(x, [Fail(x) EXCEPT !.pc = "over"])
  BY <1>1, <1>3, FailOverMoves
<1>6. \A p : Moves(x, [x EXCEPT !.pc = p])
  BY <1>1, <1>3, <1>4, PlaceMoves
<1>7. \A u : Moves(x, [x EXCEPT !.pc = "create", !.unsent = u])
  BY <1>1, <1>3, <1>4 DEF Moves, TurnFits, Connected, RunRecord
<1>8. ASSUME run' = [run EXCEPT ![r] = [Fail(x) EXCEPT !.pc = "over"]],
             IF x.quiet THEN UNCHANGED <<cur, pick>> ELSE Forget(r)
      PROVE  MoveStep
  <2>1. PickRests
    BY <1>8, ForgetRests DEF PickRests
  <2> QED  BY <1>2, <1>5, <1>8, <2>1, RunMoves DEF MoveStep
<1>9. CASE LaunchFails(r) \/ AgentFails(r) \/ (SessionLost(r) /\ answers.answered)
  BY <1>8, <1>9 DEF LaunchFails, AgentFails, SessionLost
<1>10. CASE LaunchOver(r)
  <2>1. run' = [run EXCEPT ![r] = [x EXCEPT !.pc = "over"]]
    BY <1>1, <1>10 DEF LaunchOver
  <2>2. cur' = cur /\ (pick' = pick \/ pick' = [pick EXCEPT !.st = "none", !.settled = pick.settled + 1])
    BY <1>10 DEF LaunchOver
  <2> QED  BY <1>2, <1>6, <2>1, <2>2, RunMoves, AnswerRests DEF MoveStep
<1>11. CASE Spawn(r)
  <2>1. run' = [run EXCEPT ![r] = [x EXCEPT !.pc = "init", !.proc = "alive", !.idle = "on"]]
    BY <1>1, <1>11 DEF Spawn, TypeOK
  <2>2. Moves(x, [x EXCEPT !.pc = "init", !.proc = "alive", !.idle = "on"])
    BY <1>1, <1>3, <1>4 DEF Moves, TurnFits, Connected, RunRecord
  <2> QED  BY <1>2, <1>11, <2>1, <2>2, RunMoves DEF Spawn, MoveStep, PickRests
<1>12. CASE Initialized(r) \/ SessionResumed(r) \/ (SessionLost(r) /\ ~answers.answered)
  <2>1. \/ \E p : run' = [run EXCEPT ![r] = [x EXCEPT !.pc = p]]
        \/ \E u : run' = [run EXCEPT ![r] = [x EXCEPT !.pc = "create", !.unsent = u]]
    <3>1. CASE Initialized(r)
      BY <1>1, <3>1 DEF Initialized, OpenSession, TypeOK
    <3>2. CASE SessionResumed(r)
      BY <1>1, <3>2 DEF SessionResumed, TypeOK
    <3>3. CASE SessionLost(r) /\ ~answers.answered
      BY <1>1, <3>3 DEF SessionLost, TypeOK
    <3> QED  BY <1>12, <3>1, <3>2, <3>3
  <2>2. RunsMove
    BY <1>6, <1>7, <2>1, RunMoves
  <2> QED  BY <1>2, <1>12, <2>2 DEF Initialized, SessionResumed, SessionLost, MoveStep, PickRests
<1>13. CASE HeldOver(r)
  <2> DEFINE u == IF x.created THEN answers.unanswered ELSE x.unsent
             y == [x EXCEPT !.unsent = u]
  <2>1. u \in Seq(Texts)
    BY <1>1 DEF TypeOK, RunRecord, Answers
  <2>2. \/ run' = [run EXCEPT ![r] = [x EXCEPT !.pc = "over"]]
        \/ run' = [run EXCEPT ![r] = FirstTurn(y)]
    BY <1>1, <1>13 DEF HeldOver, TypeOK
  <2> HIDE DEF u
  <2>3. y \in RunRecord
    BY <1>1, <2>1 DEF RunRecord
  <2>4. Stands(x, y)
    BY <1>1 DEF Stands, Connected, RunRecord
  <2> HIDE DEF y
  <2>5. Moves(y, FirstTurn(y))
    BY <1>1, <1>3, <1>4, <2>3, <2>4, FirstTurnMoves DEF Stands
  <2>6. Moves(x, FirstTurn(y))
    BY <2>4, <2>5, StandsThenMoves
  <2> QED  BY <1>2, <1>6, <1>13, <2>2, <2>6, RunMoves DEF HeldOver, MoveStep, PickRests
<1> QED  BY <1>9, <1>10, <1>11, <1>12, <1>13

\* A turn, and what the agent does on its own.
LEMMA AgentMoves ==
  ASSUME TypeInv, PlaceInv, NEW r \in 1..used,
         \/ \E reason \in BOOLEAN : PromptReturned(r, reason)
         \/ \E t \in Texts : AgentInjects(r, t) \/ SteerAnswered(r, t)
         \/ NextPrompt(r) \/ \E jobs \in BOOLEAN : TurnOver(r, jobs)
         \/ AgentWorks(r) \/ OwnOutput(r) \/ OwnTurnMarker(r)
         \/ \E jobs \in BOOLEAN : MarkerChecked(r, jobs) \/ StopChecked(r, jobs)
         \/ \E q \in Requests : Ask(r, q) \/ Resolve(r, q)
  PROVE  MoveStep
<1> DEFINE x == run[r]
<1>1. x \in RunRecord /\ r \in Runs
  BY Registry DEF TypeInv
<1>2. used' = used /\ PickRests
  BY DEF PromptReturned, AgentInjects, SteerAnswered, NextPrompt, TurnOver, AgentWorks, OwnOutput,
         OwnTurnMarker, MarkerChecked, StopChecked, Ask, Resolve, table, PickRests
<1> SUFFICES RunsMove
  BY <1>2 DEF MoveStep
<1>3. ASSUME NEW reason \in BOOLEAN, PromptReturned(r, reason) PROVE RunsMove
  <2>1. run' = [run EXCEPT ![r] = [x EXCEPT !.pc = "check", !.endCheck = TRUE, !.turnCancelled = reason]]
    BY <1>1, <1>3 DEF PromptReturned, TypeInv, TypeOK
  <2>2. x.pc = "prompt"
    BY <1>3 DEF PromptReturned
  <2>3. Moves(x, [x EXCEPT !.pc = "check", !.endCheck = TRUE, !.turnCancelled = reason])
    BY <1>1, <2>2 DEF Moves, TurnFits, Connected, RunRecord, Relied
  <2> QED  BY <2>1, <2>3, RunMoves
<1>4. ASSUME NEW t \in Texts, AgentInjects(r, t) \/ SteerAnswered(r, t) PROVE RunsMove
  <2>1. \A s, i, u : Stands(x, [x EXCEPT !.injected = i])
                     /\ Stands(x, [x EXCEPT !.steering = s, !.injected = i, !.unsent = u])
    BY <1>1 DEF Stands, Connected, RunRecord
  <2>2. CASE AgentInjects(r, t)
    <3>1. run' = [run EXCEPT ![r] = [x EXCEPT !.injected = x.injected \union {t}]]
      BY <1>1, <2>2 DEF AgentInjects, TypeInv, TypeOK, RunRecord
    <3> QED  BY <2>1, <3>1, StandsMoves, RunMoves
  <2>3. CASE SteerAnswered(r, t)
    <3> DEFINE u == IF t \in x.injected THEN Without(x.unsent, t) ELSE x.unsent
    <3>1. run' = [run EXCEPT ![r] = [x EXCEPT !.steering = x.steering \ {t},
                                              !.injected = x.injected \ {t}, !.unsent = u]]
      BY <1>1, <2>3 DEF SteerAnswered, TypeInv, TypeOK, RunRecord
    <3> HIDE DEF u
    <3> QED  BY <2>1, <3>1, StandsMoves, RunMoves
  <2> QED  BY <1>4, <2>2, <2>3
<1>5. CASE NextPrompt(r) \/ \E jobs \in BOOLEAN : TurnOver(r, jobs)
  <2> DEFINE y == [x EXCEPT !.endCheck = FALSE]
  <2>1. x.pc = "check"
    BY <1>5 DEF NextPrompt, TurnOver
  <2>2. x.turning /\ x.pc \notin Relied
    BY <1>1, <2>1 DEF PlaceInv, TurnsFit, TurnFits, Relied
  <2>3. y \in RunRecord
    BY <1>1 DEF RunRecord
  <2>4. Stands(x, y)
    BY <1>1 DEF Stands, Connected, RunRecord
  <2>5. y.turning /\ y.pc \notin Relied
    BY <2>2, <2>4 DEF Stands
  <2>6. CASE NextPrompt(r)
    <3>1. \/ run' = [run EXCEPT ![r] = [x EXCEPT !.pc = "over", !.endCheck = FALSE]]
          \/ run' = [run EXCEPT ![r] = RunTurn(y)]
      BY <1>1, <2>6 DEF NextPrompt, TypeInv, TypeOK
    <3>2. Moves(x, [x EXCEPT !.pc = "over", !.endCheck = FALSE])
      BY <1>1, <2>2 DEF Moves, TurnFits, Connected, RunRecord
    <3> HIDE DEF y
    <3>3. Moves(x, RunTurn(y))
      BY <2>3, <2>4, <2>5, RunTurnMoves, StandsThenMoves
    <3> QED  BY <3>1, <3>2, <3>3, RunMoves
  <2>7. ASSUME NEW jobs \in BOOLEAN, TurnOver(r, jobs) PROVE RunsMove
    <3> DEFINE z == IF jobs THEN SetBackground(y, TRUE, FALSE) ELSE y
    <3>1. run' = [run EXCEPT ![r] = EndTurn(z)]
      BY <2>7 DEF TurnOver
    <3> HIDE DEF y
    <3>2. z \in RunRecord /\ Stands(y, z)
      BY <2>3, SetBackgroundType, SetBackgroundStands, SameStands
    <3> HIDE DEF z
    <3>3. Moves(z, EndTurn(z))
      BY <2>5, <3>2, EndTurnMoves DEF Stands
    <3>4. Moves(x, EndTurn(z))
      BY <2>4, <3>2, <3>3, StandsOn, StandsThenMoves
    <3> QED  BY <3>1, <3>4, RunMoves
  <2> QED  BY <1>5, <2>6, <2>7
<1>6. CASE AgentWorks(r)
  BY <1>1, <1>6, TouchStands, StandsMoves, RunMoves DEF AgentWorks
<1>7. CASE OwnOutput(r)
  <2> DEFINE y == StaleMarker(Touch(x))
             z == IF y.ownStopped THEN y ELSE SetBackground(y, y.job, TRUE)
  <2>1. y \in RunRecord /\ Stands(x, y)
    BY <1>1, TouchType, StaleType, TouchStands, StaleStands, StandsOn
  <2>2. run' = [run EXCEPT ![r] = z]
    BY <1>7 DEF OwnOutput
  <2> HIDE DEF y
  <2>3. Stands(y, z)
    BY <2>1, SetBackgroundStands, SameStands
  <2> HIDE DEF z
  <2> QED  BY <2>1, <2>2, <2>3, StandsOn, StandsMoves, RunMoves
<1>8. CASE OwnTurnMarker(r)
  <2> DEFINE m == IF x.own THEN "on" ELSE x.marker
             y == [x EXCEPT !.ownStopped = FALSE, !.marker = m]
  <2>1. m \in Checks
    BY <1>1 DEF RunRecord, Checks
  <2>2. run' = [run EXCEPT ![r] = Touch(y)]
    BY <1>8 DEF OwnTurnMarker
  <2> HIDE DEF m
  <2>3. y \in RunRecord
    BY <1>1, <2>1 DEF RunRecord
  <2>4. Stands(x, y)
    BY <1>1 DEF Stands, Connected, RunRecord
  <2> HIDE DEF y
  <2> QED  BY <2>2, <2>3, <2>4, TouchStands, StandsOn, StandsMoves, RunMoves
<1>9. ASSUME NEW jobs \in BOOLEAN, MarkerChecked(r, jobs) \/ StopChecked(r, jobs) PROVE RunsMove
  <2> DEFINE m == [x EXCEPT !.marker = "off"]
             s == [x EXCEPT !.stopper = "off"]
  <2>1. m \in RunRecord /\ s \in RunRecord
    BY <1>1 DEF RunRecord, Checks
  <2>2. Stands(x, m) /\ Stands(x, s)
    BY <1>1 DEF Stands, Connected, RunRecord
  <2>3. \E y \in {m, s} :
           run' = [run EXCEPT ![r] = y] \/ run' = [run EXCEPT ![r] = SetBackground(y, jobs, FALSE)]
    BY <1>9 DEF MarkerChecked, StopChecked
  <2> HIDE DEF m, s
  <2>4. ASSUME NEW y \in {m, s} PROVE Moves(x, y) /\ Moves(x, SetBackground(y, jobs, FALSE))
    <3>1. y \in RunRecord /\ Stands(x, y)
      BY <2>1, <2>2, <2>4
    <3>2. Stands(x, SetBackground(y, jobs, FALSE))
      BY <3>1, SetBackgroundStands, StandsOn
    <3> QED  BY <3>1, <3>2, StandsMoves
  <2> QED  BY <2>3, <2>4, RunMoves
<1>10. ASSUME NEW q \in Requests, Ask(r, q) \/ Resolve(r, q) PROVE RunsMove
  <2>1. ASSUME NEW o \in SUBSET Requests, run' = [run EXCEPT ![r] = Touch([x EXCEPT !.open = o])]
        PROVE  RunsMove
    <3> DEFINE y == [x EXCEPT !.open = o]
    <3>1. y \in RunRecord
      BY <1>1 DEF RunRecord
    <3>2. Stands(x, y)
      BY <1>1 DEF Stands, Connected, RunRecord
    <3>3. Stands(x, Touch(y))
      BY <3>1, <3>2, TouchStands, StandsOn
    <3> QED  BY <2>1, <3>3, StandsMoves, RunMoves
  <2>2. x.open \union {q} \in SUBSET Requests /\ x.open \ {q} \in SUBSET Requests
    BY <1>1 DEF RunRecord
  <2>3. \/ run' = [run EXCEPT ![r] = Touch([x EXCEPT !.open = x.open \union {q}])]
        \/ run' = [run EXCEPT ![r] = Touch([x EXCEPT !.open = x.open \ {q}])]
    BY <1>1, <1>10 DEF Ask, Resolve, RunRecord
  <2> QED  BY <2>1, <2>2, <2>3
<1> QED  BY <1>3, <1>4, <1>5, <1>6, <1>7, <1>8, <1>9, <1>10

\* The end of a process, and the idle stop.
LEMMA ExitMoves ==
  ASSUME TypeInv, PlaceInv, NEW r \in 1..used,
         \/ OnExit(r) \/ GroupEnded(r) \/ IdleExpires(r) \/ IdleOvertaken(r)
         \/ \E jobs, ended, recent \in BOOLEAN : IdleChecked(r, jobs, ended, recent)
  PROVE  MoveStep
<1> DEFINE x == run[r]
<1>1. x \in RunRecord /\ r \in Runs
  BY Registry DEF TypeInv
<1>2. used' = used
  BY DEF OnExit, GroupEnded, IdleExpires, IdleOvertaken, IdleChecked, table
<1>3. ASSUME NEW y, Stands(x, y), run' = [run EXCEPT ![r] = y] PROVE RunsMove
  BY <1>3, StandsMoves, RunMoves
<1>4. UNCHANGED <<cur, pick>> => PickRests
  BY DEF PickRests
<1>5. CASE OnExit(r)
  <2> DEFINE h == [x EXCEPT !.handled = TRUE]
             y == IF ExitFails(h) THEN Fail(h) ELSE SetBackground(h, FALSE, FALSE)
             z == [y EXCEPT !.open = {}, !.idle = "off"]
  <2>1. run' = [run EXCEPT ![r] = z] /\ Forget(r)
    BY <1>5 DEF OnExit
  <2>2. h \in RunRecord
    BY <1>1 DEF RunRecord
  <2>3. Stands(x, h)
    BY <1>1 DEF Stands, Connected, RunRecord
  <2> HIDE DEF h
  <2>4. y \in RunRecord /\ Stands(x, y)
    BY <2>2, <2>3, FailType, FailStands, SetBackgroundType, SetBackgroundStands, StandsOn
  <2> HIDE DEF y
  <2>5. Stands(y, z)
    BY <2>4 DEF Stands, Connected, RunRecord
  <2> HIDE DEF z
  <2>6. Stands(x, z)
    BY <2>4, <2>5, StandsOn
  <2> QED  BY <1>2, <1>3, <2>1, <2>6, ForgetRests DEF MoveStep
<1>6. CASE GroupEnded(r)
  <2>1. run' = [run EXCEPT ![r] = [x EXCEPT !.proc = "ended"]] /\ x.proc = "exited"
    BY <1>1, <1>6 DEF GroupEnded, TypeInv, TypeOK
  <2>2. Stands(x, [x EXCEPT !.proc = "ended"])
    BY <1>1, <2>1 DEF Stands, Connected, RunRecord
  <2> QED  BY <1>2, <1>3, <1>4, <1>6, <2>1, <2>2 DEF GroupEnded, MoveStep
<1>7. \A i : Stands(x, [x EXCEPT !.idle = i])
  BY <1>1 DEF Stands, Connected, RunRecord
<1>8. CASE IdleExpires(r)
  <2>1. \/ run' = [run EXCEPT ![r] = [x EXCEPT !.idle = "check"]] /\ UNCHANGED <<cur, pick>>
        \/ run' = [run EXCEPT ![r] = Quit(x)] /\ Forget(r)
    BY <1>1, <1>8 DEF IdleExpires, TypeInv, TypeOK
  <2>2. Stands(x, Quit(x))
    BY <1>1, QuitStands
  <2> QED  BY <1>2, <1>3, <1>4, <1>7, <2>1, <2>2, ForgetRests DEF MoveStep
<1>9. CASE IdleOvertaken(r)
  <2>1. \E i : run' = [run EXCEPT ![r] = [x EXCEPT !.idle = i]]
    BY <1>1, <1>9 DEF IdleOvertaken, TypeInv, TypeOK
  <2> QED  BY <1>2, <1>3, <1>4, <1>7, <1>9, <2>1 DEF IdleOvertaken, MoveStep
<1>10. ASSUME NEW jobs \in BOOLEAN, NEW ended \in BOOLEAN, NEW recent \in BOOLEAN,
              IdleChecked(r, jobs, ended, recent)
       PROVE  MoveStep
  <2> DEFINE y == IF jobs THEN x ELSE SetBackground(x, FALSE, x.own)
  <2>1. y \in RunRecord /\ Stands(x, y)
    <3>1. x.own \in BOOLEAN
      BY <1>1 DEF RunRecord
    <3> QED  BY <1>1, <3>1, SameStands, SetBackgroundType, SetBackgroundStands
  <2>2. \/ run' = [run EXCEPT ![r] = [y EXCEPT !.idle = "on"]] /\ UNCHANGED <<cur, pick>>
        \/ (run' = [run EXCEPT ![r] = Fail(y)] \/ run' = [run EXCEPT ![r] = Quit(y)]) /\ Forget(r)
    BY <1>10 DEF IdleChecked
  <2> HIDE DEF y
  <2>3. Stands(y, [y EXCEPT !.idle = "on"])
    BY <2>1 DEF Stands, Connected, RunRecord
  <2>4. Stands(x, [y EXCEPT !.idle = "on"]) /\ Stands(x, Fail(y)) /\ Stands(x, Quit(y))
    BY <2>1, <2>3, FailStands, QuitStands, StandsOn
  <2> QED  BY <1>2, <1>3, <1>4, <2>2, <2>4, ForgetRests DEF MoveStep
<1> QED  BY <1>5, <1>6, <1>8, <1>9, <1>10

\* Picks that start no run and wait for none, and cancels.
LEMMA CancelMoves ==
  ASSUME TypeInv, PlaceInv,
         \/ SetOption \/ PickRefused \/ PickAnswered
         \/ CancelOwnTurn \/ CancelTurn \/ CancelEarly
  PROVE  MoveStep
<1> DEFINE x == run[cur]
<1>1. used' = used /\ cur' = cur
  BY DEF SetOption, PickRefused, PickAnswered, CancelOwnTurn, CancelTurn, CancelEarly, table
<1>2. CASE SetOption \/ PickRefused \/ PickAnswered
  <2>1. run' = run
    BY <1>2 DEF SetOption, PickRefused, PickAnswered
  <2>2. pick'.st = "none" \/ (pick'.st = pick.st /\ pick'.run = pick.run)
    BY <1>2 DEF SetOption, PickRefused, PickAnswered, TypeInv, TypeOK, Pick
  <2> QED  BY <1>1, <2>1, <2>2, SameMoves DEF MoveStep, PickRests
<1>3. CASE CancelOwnTurn \/ CancelTurn \/ CancelEarly
  <2>1. cur # NoRun
    BY <1>3 DEF CancelOwnTurn, CancelTurn, CancelEarly
  <2>2. x \in RunRecord /\ PickRests
    BY <1>1, <1>3, <2>1, Registry DEF TypeInv, CancelOwnTurn, CancelTurn, CancelEarly, PickRests
  <2>3. ASSUME NEW y, Stands(x, y), run' = [run EXCEPT ![cur] = y] PROVE MoveStep
    BY <1>1, <2>2, <2>3, StandsMoves, RunMoves DEF MoveStep
  <2>4. CASE CancelOwnTurn
    <3> DEFINE y == CancelOpen(x)
               z == [y EXCEPT !.ownStopped = TRUE, !.stopper = "on"]
    <3>1. run' = [run EXCEPT ![cur] = z]
      BY <2>4 DEF CancelOwnTurn
    <3>2. y \in RunRecord /\ Stands(x, y)
      BY <2>2, CancelOpenType, CancelOpenStands
    <3> HIDE DEF y
    <3>3. Stands(y, z)
      BY <3>2 DEF Stands, Connected, RunRecord
    <3> HIDE DEF z
    <3> QED  BY <2>3, <3>1, <3>2, <3>3, StandsOn
  <2>5. CASE CancelTurn
    <3> DEFINE y == [x EXCEPT !.cancelAsked = TRUE, !.unsent = <<>>]
    <3>1. run' = [run EXCEPT ![cur] = y] \/ run' = [run EXCEPT ![cur] = CancelOpen(y)]
      BY <2>5 DEF CancelTurn
    <3>2. <<>> \in Seq(Texts)
      OBVIOUS
    <3>3. y \in RunRecord
      BY <2>2, <3>2 DEF RunRecord
    <3>4. Stands(x, y)
      BY <2>2 DEF Stands, Connected, RunRecord
    <3> HIDE DEF y
    <3> QED  BY <2>3, <3>1, <3>3, <3>4, CancelOpenStands, StandsOn
  <2>6. CASE CancelEarly
    <3> DEFINE u == IF answers.answered THEN <<>> ELSE x.unsent
               n == x.earlyCancels + 1
               y == [x EXCEPT !.cancelledEarly = TRUE, !.earlyCancels = n, !.unsent = u]
    <3>1. run' = [run EXCEPT ![cur] = CancelOpen(y)]
      BY <2>2, <2>6 DEF CancelEarly, RunRecord
    <3>2. <<>> \in Seq(Texts)
      OBVIOUS
    <3>3. u \in Seq(Texts) /\ n \in Nat
      BY <2>2, <3>2 DEF RunRecord
    <3> HIDE DEF u, n
    <3>4. y \in RunRecord
      BY <2>2, <3>3 DEF RunRecord
    <3>5. Stands(x, y)
      BY <2>2 DEF Stands, Connected, RunRecord
    <3> HIDE DEF y
    <3> QED  BY <2>3, <3>1, <3>4, <3>5, CancelOpenStands, StandsOn
  <2> QED  BY <1>3, <2>4, <2>5, <2>6
<1> QED  BY <1>2, <1>3

\* The stops and ends of a chat, and of the daemon.
LEMMA EndMoves ==
  ASSUME TypeInv, PlaceInv,
         \/ Stop \/ EndCancels \/ EndAtOnce \/ EndWithNoRun
         \/ EndWaited \/ EndRefused \/ EndResolves \/ EndFails
         \/ StopStarts \/ Close
  PROVE  MoveStep
<1> DEFINE x == run[cur]
<1>1. (cur # NoRun => cur \in 1..used) /\ \A r \in 1..used : r \in Runs /\ run[r] \in RunRecord
  BY Registry DEF TypeInv
<1>2. used' = used
  BY DEF Stop, EndCancels, EndAtOnce, EndWithNoRun, EndWaited, EndRefused, EndResolves, EndFails,
         StopStarts, Close, table
<1>3. UNCHANGED <<cur, pick>> => PickRests
  BY DEF PickRests
<1>4. ASSUME NEW r \in 1..used, Forget(r),
             \/ run' = [run EXCEPT ![r] = Quit(run[r])]
             \/ run' = [run EXCEPT ![r] = Quit(SetBackground(run[r], FALSE, FALSE))]
      PROVE  MoveStep
  <2> DEFINE y == SetBackground(run[r], FALSE, FALSE)
  <2>1. y \in RunRecord /\ Stands(run[r], y)
    BY <1>1, SetBackgroundType, SetBackgroundStands
  <2>2. run' = [run EXCEPT ![r] = Quit(run[r])] \/ run' = [run EXCEPT ![r] = Quit(y)]
    BY <1>4
  <2> HIDE DEF y
  <2>3. Moves(run[r], Quit(run[r])) /\ Moves(run[r], Quit(y))
    BY <1>1, <2>1, QuitStands, StandsOn, StandsMoves
  <2>4. RunsMove
    BY <2>2, <2>3, RunMoves
  <2> QED  BY <1>2, <1>4, <2>4, ForgetRests DEF MoveStep
<1>5. ASSUME NEW r \in 1..used, EndNow(r) PROVE MoveStep
  BY <1>4, <1>5 DEF EndNow
<1>6. CASE Stop \/ EndAtOnce
  BY <1>1, <1>4, <1>5, <1>6 DEF Stop, EndAtOnce
<1>7. CASE EndWaited
  <2>1. end.run \in 1..used
    BY <1>7 DEF EndWaited, TypeInv, EndHasRun
  <2> QED  BY <1>5, <1>7, <2>1 DEF EndWaited
<1>8. CASE EndWithNoRun \/ EndRefused \/ EndResolves \/ EndFails
  <2>1. run' = run /\ UNCHANGED <<cur, pick>>
    BY <1>8 DEF EndWithNoRun, EndRefused, EndResolves, EndFails
  <2> QED  BY <1>2, <1>3, <2>1, SameMoves DEF MoveStep
<1>9. CASE EndCancels
  <2> DEFINE y == [x EXCEPT !.cancelAsked = TRUE, !.unsent = <<>>]
  <2>1. x \in RunRecord /\ <<>> \in Seq(Texts)
    BY <1>1, <1>9 DEF EndCancels
  <2>2. y \in RunRecord
    BY <2>1 DEF RunRecord
  <2>3. Stands(x, y)
    BY <2>1 DEF Stands, Connected, RunRecord
  <2>4. run' = [run EXCEPT ![cur] = CancelOpen(y)] /\ UNCHANGED <<cur, pick>>
    BY <1>9 DEF EndCancels
  <2> HIDE DEF y
  <2>5. Moves(x, CancelOpen(y))
    BY <2>2, <2>3, CancelOpenStands, StandsOn, StandsMoves
  <2> QED  BY <1>2, <1>3, <2>4, <2>5, RunMoves DEF MoveStep
<1>10. CASE StopStarts
  <2>1. \A r \in 1..used : run'[r] = run[r] \/ run'[r] = [run[r] EXCEPT !.idle = "off"]
    BY <1>1, <1>10 DEF StopStarts
  <2>2. ASSUME NEW r \in 1..used PROVE Moves(run[r], run'[r])
    <3>1. Stands(run[r], [run[r] EXCEPT !.idle = "off"])
      BY <1>1 DEF Stands, Connected, RunRecord
    <3> QED  BY <2>1, <3>1, SameStands, StandsMoves
  <2> QED  BY <1>2, <1>3, <1>10, <2>2 DEF StopStarts, RunsMove, MoveStep
<1>11. CASE Close
  <2>1. ASSUME NEW r \in 1..used PROVE Moves(run[r], run'[r])
    <3> DEFINE y == IF r = cur THEN Silence(run[r]) ELSE run[r]
    <3>1. y \in RunRecord /\ Stands(run[r], y)
      BY <1>1, SilenceType, SilenceStands, SameStands
    <3>2. run'[r] = EndProcess(y)
      BY <1>1, <1>11 DEF Close, Closing
    <3> HIDE DEF y
    <3> QED  BY <3>1, <3>2, EndProcessStands, StandsOn, StandsMoves
  <2>2. Forget(cur)
    BY <1>11 DEF Close
  <2> QED  BY <1>2, <2>1, <2>2, ForgetRests DEF RunsMove, MoveStep
<1> QED  BY <1>6, <1>7, <1>8, <1>9, <1>10, <1>11

\* The end of a write that no coroutine waits for, or its failure.
LEMMA WriteMoves ==
  ASSUME TypeInv, PlaceInv,
         \/ WriteDone \/ HoldWritten
         \/ WriteFails /\ Head(writes).cont \notin StepConts
  PROVE  MoveStep /\ TailStep
<1> DEFINE w == Head(writes)
<1>1. used' = used /\ TailStep
  BY DEF WriteDone, HoldWritten, WriteFails, TailStep, StepConts, table
<1>2. \A r \in 1..used : r \in Runs /\ run[r] \in RunRecord
  BY Registry DEF TypeInv
<1>3. UNCHANGED <<cur, pick>> => PickRests
  BY DEF PickRests
<1>4. CASE WriteDone
  <2>1. (run' = [run EXCEPT ![w.by] = EndProcess(run[w.by])] \/ run' = run) /\ UNCHANGED <<cur, pick>>
    BY <1>4 DEF WriteDone
  <2>2. w.by \in 1..used => Moves(run[w.by], EndProcess(run[w.by]))
    BY <1>2, EndProcessStands, StandsMoves
  <2> HIDE DEF w
  <2>3. RunsMove
    BY <2>1, <2>2, SameMoves, RunMoves
  <2> QED  BY <1>1, <1>3, <2>1, <2>3 DEF MoveStep
<1>5. CASE HoldWritten
  <2> DEFINE r == w.by
             t == w.ev.text[1]
             u == IF Keeps(r, t) THEN Append(run[r].unsent, t) ELSE run[r].unsent
             p == IF run[r].pc = "hold" THEN "launch" ELSE run[r].pc
             y == [run[r] EXCEPT !.unsent = u, !.pc = p]
  <2>1. CASE r \in 1..used
    <3>1. run' = [run EXCEPT ![r] = y] /\ UNCHANGED <<cur, pick>>
      BY <1>2, <1>5, <2>1 DEF HoldWritten, w, TypeInv, TypeOK
    <3>2. y.pc = p /\ y.turning = run[r].turning /\ y.proc = run[r].proc
      <4> HIDE DEF u, p, r
      <4> QED  BY <1>2, <2>1 DEF RunRecord, r
    <3>3. p = run[r].pc \/ (run[r].pc = "hold" /\ p = "launch")
      OBVIOUS
    <3> HIDE DEF y, p
    <3>4. Moves(run[r], y)
      BY <3>2, <3>3 DEF Moves, TurnFits, Relied, Connected
    <3> HIDE DEF r
    <3>5. RunsMove
      BY <3>1, <3>4, RunMoves
    <3> QED  BY <1>1, <1>3, <3>1, <3>5 DEF MoveStep
  <2>2. CASE r \notin 1..used
    <3>1. \A s \in 1..used : run'[s] = run[s]
      BY <1>2, <1>5, <2>2 DEF HoldWritten, w, TypeInv, TypeOK
    <3>2. RunsMove
      BY <3>1, SameStands, StandsMoves DEF RunsMove
    <3> QED  BY <1>1, <1>3, <1>5, <3>2 DEF HoldWritten, MoveStep
  <2> QED  BY <2>1, <2>2
<1>6. CASE WriteFails /\ w.cont \notin StepConts
  <2>1. CASE w.cont = "close"
    BY <1>1, <1>3, <1>6, <2>1, SameMoves DEF WriteFails, MoveStep
  <2>2. CASE w.cont # "close"
    <3>1. run' = [run EXCEPT ![w.by] = Quit(run[w.by])] /\ Forget(w.by)
      BY <1>6, <2>2 DEF WriteFails, StepConts
    <3>2. w.by \in 1..used => Moves(run[w.by], Quit(run[w.by]))
      BY <1>2, QuitStands, StandsMoves
    <3> HIDE DEF w
    <3>3. RunsMove
      BY <3>1, <3>2, RunMoves
    <3> QED  BY <1>1, <3>1, <3>3, ForgetRests DEF MoveStep
  <2> QED  BY <2>1, <2>2
<1> QED  BY <1>1, <1>4, <1>5, <1>6

\* The caller of a message whose write failed gets that.
LEMMA MessageMoves == ASSUME TypeInv, PlaceInv, NEW t \in Texts, MessageFails(t) PROVE MoveStep
<1> DEFINE r == msg[t].run
<1>1. run' = [run EXCEPT ![r] = HoldFailed(run[r])] /\ used' = used /\ PickRests
  BY DEF MessageFails, table, PickRests
<1>2. r \in 1..used => Moves(run[r], HoldFailed(run[r]))
  BY Registry, HoldFailedMoves DEF TypeInv
<1> HIDE DEF r
<1>3. RunsMove
  BY <1>1, <1>2, RunMoves
<1> QED  BY <1>1, <1>3 DEF MoveStep

-----------------------------------------------------------------------------
(* The steps that take a run to such a place, or from it. *)

\* What a pick of this state asks of its run.
PickAt(st, x) ==
  /\ st = "setting" => x.pc = "pick"
  /\ st = "applied" => x.pc \in {"options", "resumed", "halted"}
  /\ st = "direct" => Connected(x)

LEMMA PickAtRun == ASSUME PlaceInv, NEW r, pick.run = r PROVE PickAt(pick.st, run[r])
  BY DEF PlaceInv, PickFits, PickAt

\* A step of one run.
LEMMA OneRunPlaces ==
  ASSUME TypeInv, PlaceInv, NEW r \in 1..used, NEW y, run' = [run EXCEPT ![r] = y], used' = used
  PROVE  /\ run'[r] = y
         /\ \A s \in 1..used : s # r => run'[s] = run[s]
         /\ TurnFits(y) => TurnsFit'
         /\ run[r].pc \notin {"interrupt", "store", "resumed"} => PlacesStay
<1>1. \A s \in 1..used : s \in Runs
  BY Registry DEF TypeInv
<1>2. \A s \in 1..used : run'[s] = IF s = r THEN y ELSE run[s]
  BY <1>1 DEF TypeInv, TypeOK
<1> QED  BY <1>2 DEF PlaceInv, TurnsFit, PlacesStay

LEMMA PickStays ==
  ASSUME TypeInv, PlaceInv, NEW r \in 1..used, NEW y, run' = [run EXCEPT ![r] = y], used' = used,
         PickRests \/ (pick'.run = r /\ pick'.st # "waiting"),
         pick'.run = r => PickAt(pick'.st, y)
  PROVE  PickFits'
<1>1. run'[r] = y /\ \A s \in 1..used : s # r => run'[s] = run[s]
  BY OneRunPlaces
<1>2. CASE pick'.st = "none"
  BY <1>2 DEF PickFits
<1>3. CASE pick'.st # "none" /\ pick'.run = r
  <2>1. pick'.st = "waiting" => cur' = pick'.run
    BY <1>3 DEF PickRests, PlaceInv, PickFits
  <2>2. PickAt(pick'.st, run'[pick'.run])
    BY <1>1, <1>3
  <2> QED  BY <1>3, <2>1, <2>2 DEF PickAt, PickFits, Connected
<1>4. CASE pick'.st # "none" /\ pick'.run # r
  <2>1. pick'.st = pick.st /\ pick'.run = pick.run /\ (pick.st = "waiting" => cur' = cur)
    BY <1>4 DEF PickRests
  <2>2. pick.run \in 1..used /\ run'[pick'.run] = run[pick.run]
    BY <1>1, <1>4, <2>1 DEF PlaceInv, PickFits
  <2> QED  BY <1>4, <2>1, <2>2 DEF PlaceInv, PickFits, Connected
<1> QED  BY <1>2, <1>3, <1>4

\* A run is registered: its coroutine waits for the last process, and no pick waits.
LEMMA RegisterPlaces ==
  ASSUME TypeInv, PlaceInv, NEW x \in RunRecord, x.turning, Register(x), Grows,
         pick' = pick \/ (pick'.st = "waiting" /\ pick'.run = used + 1), cur = NoRun
  PROVE  PlaceInv'
<1> DEFINE y == Registered(x)
<1>1. run' = [run EXCEPT ![used + 1] = y] /\ used' = used + 1 /\ cur' = used + 1
  BY DEF Register
<1>2. used \in Nat /\ \A r \in 1..(used + 1) : r \in Runs
  BY RunnerAssumption DEF Register, TypeInv, TypeOK, Runs
<1>3. TurnFits(y)
  BY DEF Registered, RunRecord, TurnFits
<1> HIDE DEF y
<1>4. \A r \in 1..(used + 1) : run'[r] = IF r = used + 1 THEN y ELSE run[r]
  BY <1>1, <1>2 DEF TypeInv, TypeOK
<1>5. /\ 1..(used + 1) = 1..used \union {used + 1} /\ used + 1 \notin 1..used
      /\ \A r \in 1..used : r # NoRun
  BY <1>2 DEF NoRun
<1>6. TurnsFit' /\ PlacesStay
  BY <1>1, <1>3, <1>4, <1>5 DEF PlaceInv, TurnsFit, PlacesStay
<1>7. PickFits'
  <2>1. pick.st # "waiting" /\ (pick.st # "none" => pick.run \in 1..used)
    BY <1>5 DEF PlaceInv, PickFits
  <2>2. CASE pick'.st = "waiting" /\ pick'.run = used + 1
    BY <1>1, <1>5, <2>2 DEF PickFits
  <2>3. CASE pick' = pick
    <3>1. pick.st # "none" => run'[pick.run] = run[pick.run] /\ pick.run \in 1..used'
      BY <1>1, <1>4, <1>5, <2>1
    <3> QED  BY <2>1, <2>3, <3>1 DEF PlaceInv, PickFits, Connected
  <2> QED  BY <2>2, <2>3
<1> QED  BY <1>6, <1>7, StepsGrow DEF PlaceInv

LEMMA RestartPlaces ==
  ASSUME TypeInv, PlaceInv, PickRelaunches \/ \E t \in Texts : Restart(t) PROVE PlaceInv'
<1>1. Grows
  BY FewGrows DEF PickRelaunches, Restart
<1>2. ASSUME NEW t \in Texts, Restart(t) PROVE PlaceInv'
  <2> DEFINE x == Hold(NewRun, t)
  <2>1. x \in RunRecord
    BY NewRunType, HoldType
  <2>2. x.turning
    <3>1. NewRun.turning
      BY DEF NewRun
    <3> QED  BY <3>1, NewRunType, HoldStands DEF Stands
  <2>3. Register(x) /\ pick' = pick /\ cur = NoRun
    BY <1>2 DEF Restart
  <2> HIDE DEF x
  <2> QED  BY <1>1, <2>1, <2>2, <2>3, RegisterPlaces
<1>3. CASE PickRelaunches
  <2> DEFINE x == [NewRun EXCEPT !.byPick = TRUE, !.pickRelaunch = TRUE]
  <2>1. x \in RunRecord
    BY NewRunType DEF RunRecord
  <2>2. x.turning
    <3>1. NewRun.turning
      BY DEF NewRun
    <3> QED  BY <3>1, NewRunType DEF RunRecord
  <2>3. Register(x) /\ cur = NoRun
    BY <1>3 DEF PickRelaunches
  <2>4. pick'.st = "waiting" /\ pick'.run = used + 1
    BY <1>3 DEF PickRelaunches, TypeInv, TypeOK, Pick
  <2> HIDE DEF x
  <2> QED  BY <1>1, <2>1, <2>2, <2>3, <2>4, RegisterPlaces
<1> QED  BY <1>2, <1>3

\* A pick of the run of the chat: it waits, goes to the agent, or is refused.
LEMMA PickPlaces == ASSUME TypeInv, PlaceInv, PickWaits \/ PickDirect PROVE PlaceInv'
<1>1. Grows /\ used' = used /\ cur' = cur
  BY FewGrows DEF PickWaits, PickDirect, table
<1>2. cur \in 1..used /\ run[cur] \in RunRecord /\ pick \in Pick
  BY Registry DEF PickWaits, PickDirect, TypeInv, TypeOK
<1>3. CASE PickWaits
  <2>1. PickFits'
    BY <1>1, <1>2, <1>3 DEF PickWaits, Pick, PickFits
  <2>2. TurnsFit' /\ PlacesStay
    BY <1>1, <1>3 DEF PickWaits, PlaceInv, TurnsFit, PlacesStay
  <2> QED  BY <1>1, <2>1, <2>2, StepsGrow DEF PlaceInv
<1>4. CASE PickDirect
  <2> DEFINE y == Touch(run[cur])
  <2>1. run' = [run EXCEPT ![cur] = y] /\ pick.st = "none"
    BY <1>4 DEF PickDirect, PickIsNext
  <2>2. Stands(run[cur], y)
    BY <1>2, TouchStands
  <2> HIDE DEF y
  <2>3. RunsMove
    BY <2>1, <2>2, StandsMoves, RunMoves
  <2>4. CASE Connected(run[cur])
    <3>1. pick'.st = "direct" /\ pick'.run = cur
      BY <1>2, <1>4, <2>4 DEF PickDirect, Pick
    <3>2. PickAt(pick'.st, y)
      BY <2>2, <2>4, <3>1 DEF Stands, PickAt
    <3>3. PickFits'
      BY <1>1, <1>2, <2>1, <3>1, <3>2, PickStays
    <3>4. TurnsFit' /\ PlacesStay
      <4>1. \A r \in 1..used : Moves(run[r], run'[r])
        BY <2>3 DEF RunsMove
      <4> QED  BY <1>1, <4>1 DEF PlaceInv, TurnsFit, Moves, Relied, PlacesStay
    <3> QED  BY <1>1, <3>3, <3>4, StepsGrow DEF PlaceInv
  <2>5. CASE ~Connected(run[cur])
    <3>1. pick' = [pick EXCEPT !.settled = pick.settled + 1]
      BY <1>4, <2>5 DEF PickDirect
    <3>2. pick'.st = "none"
      BY <1>2, <2>1, <3>1 DEF Pick
    <3> QED  BY <1>1, <2>3, <3>2, MoveHolds DEF MoveStep, PickRests
  <2> QED  BY <2>4, <2>5
<1> QED  BY <1>3, <1>4

\* The answer to a pick that its agent has applied.
LEMMA AnswerAt ==
  ASSUME TypeInv, PlaceInv, NEW r, NEW y, AnswerPick(r), cur' = cur, run[r].pc # "pick",
         Connected(run[r]) => Connected(y)
  PROVE  PickRests /\ (pick'.run = r => PickAt(pick'.st, y))
<1>1. CASE pick.st = "applied" /\ pick.run = r
  <2>1. pick'.st = "none"
    BY <1>1 DEF AnswerPick, TypeInv, TypeOK, Pick
  <2> QED  BY <2>1 DEF PickRests, PickAt
<1>2. CASE ~(pick.st = "applied" /\ pick.run = r)
  <2>1. pick' = pick
    BY <1>2 DEF AnswerPick
  <2> QED  BY <1>2, <2>1 DEF PickRests, PickAt, PlaceInv, PickFits
<1> QED  BY <1>1, <1>2

\* The end of a start that a pick began, or a message joined.
LEMMA AfterResumedPlaces ==
  ASSUME TypeInv, PlaceInv, NEW r \in 1..used, AfterResumed(r), used' = used, cur' = cur,
         run[r].pc \in {"resumed", "halted"}
  PROVE  /\ TurnsFit' /\ PickFits'
         /\ \A s \in 1..used : s # r => run'[s] = run[s]
<1> DEFINE x == run[r]
<1>1. x \in RunRecord /\ x.turning
  BY Registry DEF TypeInv, PlaceInv, TurnsFit, TurnFits
<1>2. \/ run' = [run EXCEPT ![r] = PickRelaunchOver(x)]
      \/ run' = [run EXCEPT ![r] = [x EXCEPT !.pc = "held"]]
  BY <1>1, Registry DEF AfterResumed, TypeInv, TypeOK
<1>3. /\ TurnFits(PickRelaunchOver(x))
      /\ Connected(x) => Connected(PickRelaunchOver(x))
  BY <1>1, PickRelaunchOverFits
<1>4. /\ TurnFits([x EXCEPT !.pc = "held"])
      /\ Connected(x) => Connected([x EXCEPT !.pc = "held"])
  BY <1>1 DEF TurnFits, Connected, RunRecord
<1>5. PICK y : run' = [run EXCEPT ![r] = y] /\ TurnFits(y) /\ (Connected(x) => Connected(y))
  BY <1>2, <1>3, <1>4
<1>6. PickRests /\ (pick'.run = r => PickAt(pick'.st, y))
  BY <1>5, AnswerAt DEF AfterResumed
<1>7. PickFits'
  BY <1>5, <1>6, PickStays
<1> QED  BY <1>5, <1>7, OneRunPlaces

\* The options of a start.
LEMMA OptionPlaces ==
  ASSUME TypeInv, PlaceInv, NEW r \in 1..used,
         \/ OptionSent(r) \/ OptionAnswered(r) \/ OptionsQuiet(r) \/ OptionsDone(r)
         \/ StartHalted(r)
  PROVE  PlaceInv'
<1> DEFINE x == run[r]
<1>1. x \in RunRecord /\ r \in Runs /\ TypeOK /\ pick \in Pick
  BY Registry DEF TypeInv, TypeOK
<1>2. used' = used /\ cur' = cur /\ Grows
  BY RunQueue DEF OptionSent, OptionAnswered, OptionsQuiet, OptionsDone, StartHalted, table
<1>3. x.pc \in {"options", "pick", "halted"}
  BY DEF OptionSent, OptionAnswered, OptionsQuiet, OptionsDone, StartHalted
<1>4. x.turning
  BY <1>3 DEF PlaceInv, TurnsFit, TurnFits
<1>6. ASSUME NEW y, run' = [run EXCEPT ![r] = y], TurnFits(y),
             PickRests \/ (pick'.run = r /\ pick'.st # "waiting"),
             pick'.run = r => PickAt(pick'.st, y)
      PROVE  PlaceInv'
  <2>1. TurnsFit' /\ PlacesStay
    BY <1>2, <1>3, <1>6, OneRunPlaces
  <2>2. PickFits'
    BY <1>2, <1>6, PickStays
  <2> QED  BY <1>2, <2>1, <2>2, StepsGrow DEF PlaceInv
<1>7. CASE OptionSent(r) /\ Connected(x)
  <2> DEFINE y == [x EXCEPT !.pc = "pick"]
  <2>1. run' = [run EXCEPT ![r] = y] /\ pick' = [pick EXCEPT !.st = "setting"] /\ pick.run = r
    BY <1>1, <1>7 DEF OptionSent, WaitsFor, TypeOK
  <2>2. y.pc = "pick" /\ TurnFits(y)
    BY <1>1, <1>4 DEF TurnFits, RunRecord
  <2>3. pick'.st = "setting" /\ pick'.run = r
    BY <1>1, <2>1 DEF Pick
  <2> HIDE DEF y
  <2>4. PickAt(pick'.st, y)
    BY <2>2, <2>3 DEF PickAt
  <2> QED  BY <1>6, <2>1, <2>2, <2>3, <2>4
<1>8. CASE OptionSent(r) /\ ~Connected(x)
  <2> DEFINE y == [x EXCEPT !.pc = "over"]
  <2>1. run' = [run EXCEPT ![r] = y]
        /\ pick' = [pick EXCEPT !.st = "none", !.settled = pick.settled + 1]
    BY <1>1, <1>8 DEF OptionSent, TypeOK
  <2>2. TurnFits(y)
    BY <1>1, <1>4 DEF TurnFits, RunRecord
  <2>3. pick'.st = "none"
    BY <1>1, <2>1 DEF Pick
  <2> HIDE DEF y
  <2> QED  BY <1>6, <2>1, <2>2, <2>3 DEF PickRests, PickAt
<1>9. CASE OptionAnswered(r)
  <2> DEFINE y == [x EXCEPT !.pc = "options"]
  <2>1. run' = [run EXCEPT ![r] = y] /\ pick' = [pick EXCEPT !.st = "applied"] /\ pick.run = r
    BY <1>1, <1>9 DEF OptionAnswered, TypeOK
  <2>2. y.pc = "options" /\ TurnFits(y)
    BY <1>1, <1>4 DEF TurnFits, RunRecord
  <2>3. pick'.st = "applied" /\ pick'.run = r
    BY <1>1, <2>1 DEF Pick
  <2> HIDE DEF y
  <2>4. PickAt(pick'.st, y)
    BY <2>2, <2>3 DEF PickAt
  <2> QED  BY <1>6, <2>1, <2>2, <2>3, <2>4
<1>10. ASSUME NEW y, run' = [run EXCEPT ![r] = y], TurnFits(y), Connected(x) => Connected(y),
              AnswerPick(r), x.pc # "pick"
       PROVE  PlaceInv'
  <2>1. PickRests /\ (pick'.run = r => PickAt(pick'.st, y))
    BY <1>2, <1>10, AnswerAt
  <2> QED  BY <1>6, <1>10, <2>1
<1>11. CASE OptionsQuiet(r)
  <2> DEFINE y == [x EXCEPT !.pc = "over"]
  <2>1. run' = [run EXCEPT ![r] = y] /\ AnswerPick(r) /\ x.pc # "pick"
    BY <1>1, <1>11 DEF OptionsQuiet, TypeOK
  <2>2. TurnFits(y) /\ (Connected(x) => Connected(y))
    BY <1>1, <1>4 DEF TurnFits, Connected, RunRecord
  <2> HIDE DEF y
  <2> QED  BY <1>10, <2>1, <2>2
<1>12. CASE OptionsDone(r)
  <2> DEFINE z == [x EXCEPT !.session = TRUE]
  <2>1. AnswerPick(r) /\ x.pc # "pick"
    BY <1>12 DEF OptionsDone
  <2>2. \/ run' = [run EXCEPT ![r] = [z EXCEPT !.pc = "held"]]
        \/ run' = [run EXCEPT ![r] = FirstTurn(z)]
    BY <1>12 DEF OptionsDone
  <2>3. z \in RunRecord
    BY <1>1 DEF RunRecord
  <2>4. Stands(x, z)
    BY <1>1 DEF Stands, Connected, RunRecord
  <2> HIDE DEF z
  <2>5. z.turning
    BY <1>4, <2>4 DEF Stands
  <2>6. TurnFits([z EXCEPT !.pc = "held"]) /\ (Connected(z) => Connected([z EXCEPT !.pc = "held"]))
    BY <2>3, <2>5 DEF TurnFits, Connected, RunRecord
  <2>7. TurnFits(FirstTurn(z)) /\ (Connected(z) => Connected(FirstTurn(z)))
    BY <1>1, <2>3, <2>5, FirstTurnFits
  <2> QED  BY <1>10, <2>1, <2>2, <2>4, <2>6, <2>7 DEF Stands
<1>13. CASE StartHalted(r)
  <2>1. AfterResumed(r) /\ x.pc = "halted"
    BY <1>13 DEF StartHalted
  <2>2. TurnsFit' /\ PickFits' /\ \A s \in 1..used : s # r => run'[s] = run[s]
    BY <1>2, <2>1, AfterResumedPlaces
  <2>3. PlacesStay
    BY <1>2, <2>1, <2>2 DEF PlacesStay
  <2> QED  BY <1>2, <2>2, <2>3, StepsGrow DEF PlaceInv
<1> QED  BY <1>7, <1>8, <1>9, <1>11, <1>12, <1>13

\* The connection of a run closes, or its process exits.
LEMMA LostPlaces ==
  ASSUME TypeInv, PlaceInv, NEW r \in 1..used,
         ConnectionCut(r) \/ \E clean \in BOOLEAN : Exit(r, clean)
  PROVE  PlaceInv'
<1> DEFINE x == run[r]
           y == ConnectionLost(x)
<1>1. x \in RunRecord /\ y \in RunRecord /\ pick \in Pick
  BY Registry, ConnectionLostType DEF TypeInv, TypeOK
<1>2. used' = used /\ cur' = cur /\ Grows /\ LostPick(r)
  BY OtherQueue DEF ConnectionCut, Exit, table
<1>3. y.pc = (IF x.pc \in AtAgent THEN "over" ELSE x.pc) /\ y.turning = x.turning
  BY <1>1 DEF ConnectionLost, RunRecord
<1>4. \/ run' = [run EXCEPT ![r] = [y EXCEPT !.proc = "cut"]]
      \/ \E clean \in BOOLEAN : run' = [run EXCEPT ![r] = [y EXCEPT !.proc = "exited", !.clean = clean]]
  BY DEF ConnectionCut, Exit
<1> HIDE DEF y
<1>5. PICK z : run' = [run EXCEPT ![r] = z] /\ z.pc = y.pc /\ z.turning = y.turning
  <2>1. [y EXCEPT !.proc = "cut"].pc = y.pc /\ [y EXCEPT !.proc = "cut"].turning = y.turning
    BY <1>1 DEF RunRecord
  <2>2. ASSUME NEW clean
        PROVE  /\ [y EXCEPT !.proc = "exited", !.clean = clean].pc = y.pc
               /\ [y EXCEPT !.proc = "exited", !.clean = clean].turning = y.turning
    BY <1>1 DEF RunRecord
  <2> QED  BY <1>4, <2>1, <2>2
<1>6. TurnFits(z)
  BY <1>3, <1>5 DEF PlaceInv, TurnsFit, TurnFits
<1>7. run'[r] = z /\ (\A s \in 1..used : s # r => run'[s] = run[s]) /\ TurnsFit'
  BY <1>2, <1>5, <1>6, OneRunPlaces
<1>8. PlacesStay
  BY <1>2, <1>3, <1>5, <1>7 DEF PlacesStay, AtAgent
<1>9. PickFits'
  <2>1. CASE pick.st \in {"setting", "direct"} /\ pick.run = r
    <3>1. pick' = [pick EXCEPT !.st = "none", !.settled = pick.settled + 1]
      BY <1>2, <2>1 DEF LostPick
    <3>2. pick'.st = "none"
      BY <1>1, <3>1 DEF Pick
    <3> QED  BY <3>2 DEF PickFits
  <2>2. CASE ~(pick.st \in {"setting", "direct"} /\ pick.run = r)
    <3>1. pick' = pick
      BY <1>2, <2>2 DEF LostPick
    <3>2. pick.run = r => PickAt(pick.st, z)
      BY <1>3, <1>5, <2>2 DEF PickAt, PlaceInv, PickFits, AtAgent
    <3> QED  BY <1>2, <1>5, <3>1, <3>2, PickStays DEF PickRests
  <2> QED  BY <2>1, <2>2
<1> QED  BY <1>2, <1>7, <1>8, <1>9, StepsGrow DEF PlaceInv

\* A coroutine calls a write that it waits for.
LEMMA CallPlaces ==
  ASSUME TypeInv, PlaceInv, NEW r \in 1..used, Reopen(r) \/ SessionCreated(r) \/ PickOptionsDone(r)
  PROVE  PlaceInv'
<1> DEFINE x == run[r]
<1>1. x \in RunRecord /\ r \in Runs /\ r \in 0..MaxRuns /\ pick \in Pick
  BY Registry DEF TypeInv, TypeOK
<1>2. used' = used
  BY DEF Reopen, SessionCreated, PickOptionsDone, table
<1>3. x.pc \in {"reopen", "create", "options"}
  BY DEF Reopen, SessionCreated, PickOptionsDone
<1>4. x.turning
  BY <1>3 DEF PlaceInv, TurnsFit, TurnFits
<1>5. \A c \in StepConts : /\ WThen(Plain("interrupted"), r, c) \in Write
                           /\ WThen(Plain("other"), r, c) \in Write
                           /\ WThen(Plain("resumed"), r, c) \in Write
  BY <1>1, WriteType, EventType DEF StepConts, WThen, Conts, EventKinds
<1>6. ASSUME NEW y, NEW e, NEW c \in StepConts, WThen(e, r, c) \in Write,
             run' = [run EXCEPT ![r] = y], writes' = Append(writes, WThen(e, r, c)),
             y.pc = StepPlace[c], y.turning, PickRests,
             pick'.run = r => PickAt(pick'.st, y)
      PROVE  PlaceInv'
  <2>1. TurnFits(y)
    BY <1>6 DEF TurnFits
  <2>2. TurnsFit' /\ PlacesStay /\ run'[r] = y
    BY <1>2, <1>3, <1>6, <2>1, OneRunPlaces
  <2>3. PickFits'
    BY <1>2, <1>6, PickStays
  <2>4. WThen(e, r, c).by = r /\ WThen(e, r, c).cont = c
    BY DEF WThen
  <2>5. StepFits' /\ StepsDiffer'
    BY <1>3, <1>6, <2>2, <2>4, StepsAppend
  <2> QED  BY <2>2, <2>3, <2>5 DEF PlaceInv
<1>7. CASE Reopen(r)
  <2> DEFINE u == IF x.earlyCancels > 0 /\ answers.answered THEN <<>> ELSE TextsBefore(x)
             y == [x EXCEPT !.unsent = u]
             z == [y EXCEPT !.pc = "interrupt"]
  <2>1. \/ run' = [run EXCEPT ![r] = Overtaken(y)] /\ Forget(r) /\ writes' = writes
        \/ /\ run' = [run EXCEPT ![r] = z] /\ UNCHANGED <<cur, pick>>
           /\ writes' = Append(writes, WThen(Plain("interrupted"), r, "reopen"))
    BY <1>7 DEF Reopen
  <2>2. u \in Seq(Texts)
    <3>1. x.prev # NoRun => x.prev \in Runs
      BY <1>1 DEF RunRecord, Runs, NoRun
    <3>2. TextsBefore(x) \in Seq(Texts)
      BY <3>1 DEF TextsBefore, TypeInv, TypeOK, Answers, RunRecord
    <3>3. <<>> \in Seq(Texts)
      OBVIOUS
    <3> QED  BY <3>2, <3>3
  <2> HIDE DEF u
  <2>3. y \in RunRecord
    BY <1>1, <2>2 DEF RunRecord
  <2>4. Stands(x, y)
    BY <1>1 DEF Stands, Connected, RunRecord
  <2> HIDE DEF y
  <2>5. CASE run' = [run EXCEPT ![r] = Overtaken(y)] /\ Forget(r) /\ writes' = writes
    <3>1. TurnFits(Overtaken(y)) /\ (Connected(y) => Connected(Overtaken(y)))
      BY <2>3, OvertakenFits
    <3>2. x.pc = "reopen"
      BY <1>7 DEF Reopen
    <3>3. Moves(x, Overtaken(y))
      BY <2>4, <3>1, <3>2 DEF Stands, Moves, Relied
    <3>4. RunsMove /\ PickRests /\ Grows
      BY <2>5, <3>3, RunMoves, ForgetRests, FewGrows
    <3> QED  BY <1>2, <3>4, MoveHolds DEF MoveStep
  <2>6. CASE /\ run' = [run EXCEPT ![r] = z] /\ UNCHANGED <<cur, pick>>
             /\ writes' = Append(writes, WThen(Plain("interrupted"), r, "reopen"))
    <3>1. z.pc = "interrupt" /\ z.turning = y.turning /\ z.proc = y.proc
      BY <2>3 DEF RunRecord
    <3> HIDE DEF z
    <3>2. x.pc = "reopen"
      BY <1>7 DEF Reopen
    <3>3. pick'.run = r => PickAt(pick'.st, z)
      BY <2>4, <2>6, <3>1, <3>2 DEF PickAt, PlaceInv, PickFits, Stands, Connected
    <3>4. z.pc = StepPlace["reopen"] /\ "reopen" \in StepConts /\ z.turning
      BY <1>4, <2>4, <3>1 DEF StepPlace, StepConts, Stands
    <3> QED  BY <1>5, <1>6, <2>6, <3>3, <3>4 DEF PickRests
  <2> QED  BY <2>1, <2>5, <2>6
<1>8. CASE SessionCreated(r)
  <2> DEFINE y == [x EXCEPT !.pc = "store", !.created = TRUE]
  <2>1. /\ run' = [run EXCEPT ![r] = y] /\ UNCHANGED <<cur, pick>> /\ x.pc = "create"
        /\ writes' = Append(writes, WThen(Plain("other"), r, "session"))
    BY <1>1, <1>8 DEF SessionCreated, TypeInv, TypeOK
  <2>2. y.pc = "store" /\ y.turning = x.turning /\ y.proc = x.proc
    BY <1>1 DEF RunRecord
  <2> HIDE DEF y
  <2>3. pick'.run = r => PickAt(pick'.st, y)
    BY <2>1, <2>2 DEF PickAt, PlaceInv, PickFits, Connected
  <2>4. y.pc = StepPlace["session"] /\ "session" \in StepConts /\ y.turning
    BY <1>4, <2>2 DEF StepPlace, StepConts
  <2> QED  BY <1>5, <1>6, <2>1, <2>3, <2>4 DEF PickRests
<1>9. CASE PickOptionsDone(r)
  <2> DEFINE y == [x EXCEPT !.session = TRUE, !.reaches = TRUE]
             z == [y EXCEPT !.pc = "resumed"]
  <2>1. x.pc = "options" /\ cur' = cur
    BY <1>9 DEF PickOptionsDone
  <2>2. \/ /\ run' = [run EXCEPT ![r] = z] /\ pick' = pick
           /\ writes' = Append(writes, WThen(Plain("resumed"), r, "resumed"))
        \/ run' = [run EXCEPT ![r] = PickRelaunchOver(y)] /\ AnswerPick(r) /\ writes' = writes
    BY <1>9 DEF PickOptionsDone
  <2>3. y \in RunRecord
    BY <1>1 DEF RunRecord
  <2>4. Stands(x, y)
    BY <1>1 DEF Stands, Connected, RunRecord
  <2> HIDE DEF y
  <2>5. CASE /\ run' = [run EXCEPT ![r] = z] /\ pick' = pick
             /\ writes' = Append(writes, WThen(Plain("resumed"), r, "resumed"))
    <3>1. z.pc = "resumed" /\ z.turning = y.turning /\ z.proc = y.proc
      BY <2>3 DEF RunRecord
    <3> HIDE DEF z
    <3>2. pick'.run = r => PickAt(pick'.st, z)
      BY <2>1, <2>4, <2>5, <3>1 DEF PickAt, PlaceInv, PickFits, Stands, Connected
    <3>3. z.pc = StepPlace["resumed"] /\ "resumed" \in StepConts /\ z.turning
      BY <1>4, <2>4, <3>1 DEF StepPlace, StepConts, Stands
    <3> QED  BY <1>5, <1>6, <2>1, <2>5, <3>2, <3>3 DEF PickRests
  <2>6. CASE run' = [run EXCEPT ![r] = PickRelaunchOver(y)] /\ AnswerPick(r) /\ writes' = writes
    <3> DEFINE v == PickRelaunchOver(y)
    <3>1. TurnFits(v) /\ (Connected(x) => Connected(v))
      BY <2>3, <2>4, PickRelaunchOverFits DEF Stands
    <3> HIDE DEF v
    <3>2. run' = [run EXCEPT ![r] = v]
      BY <2>6 DEF v
    <3>3. PickRests /\ (pick'.run = r => PickAt(pick'.st, v))
      BY <2>1, <2>6, <3>1, AnswerAt
    <3>4. TurnsFit' /\ PlacesStay
      BY <1>2, <1>3, <3>1, <3>2, OneRunPlaces
    <3>5. PickFits'
      BY <1>2, <3>2, <3>3, PickStays
    <3> QED  BY <2>6, <3>4, <3>5, FewGrows, StepsGrow DEF PlaceInv
  <2> QED  BY <2>2, <2>5, <2>6
<1> QED  BY <1>7, <1>8, <1>9

\* A write that a coroutine waits for is done, or fails.
LEMMA ReturnPlaces ==
  ASSUME TypeInv, PlaceInv,
         \/ \E r \in 1..used : InterruptDone(r) \/ SessionStored(r) \/ ResumedDone(r)
         \/ WriteFails /\ Head(writes).cont \in StepConts
  PROVE  PlaceInv'
<1> DEFINE w == Head(writes)
           r == w.by
           x == run[r]
<1>1. used' = used /\ writes # <<>> /\ writes' = Tail(writes) /\ w.cont \in StepConts
  BY DEF InterruptDone, SessionStored, ResumedDone, WriteFails, table, StepConts
<1>2. 1 \in DOMAIN writes /\ w = writes[1]
  <2>1. writes \in Seq(Write)
    BY DEF TypeInv, TypeOK
  <2> QED  BY <1>1, <2>1
<1>3. r \in 1..used /\ x.pc = StepPlace[w.cont]
  BY <1>1, <1>2 DEF PlaceInv, StepFits
<1>4. x \in RunRecord /\ r \in Runs /\ pick \in Pick
  BY <1>3, Registry DEF TypeInv, TypeOK
<1>5. x.pc \in {"interrupt", "store", "resumed"}
  BY <1>1, <1>3, StepPlaces
<1>6. x.turning
  BY <1>3, <1>5 DEF PlaceInv, TurnsFit, TurnFits
<1>7. ASSUME TurnsFit', PickFits', \A s \in 1..used : s # r => run'[s] = run[s] PROVE PlaceInv'
  <2>1. StepFits' /\ StepsDiffer'
    BY <1>1, <1>7, StepsTail
  <2> QED  BY <1>7, <2>1 DEF PlaceInv
<1> HIDE DEF w, r
<1>8. ASSUME NEW y, run' = [run EXCEPT ![r] = y], TurnFits(y), PickRests,
             pick'.run = r => PickAt(pick'.st, y)
      PROVE  PlaceInv'
  <2>1. TurnsFit' /\ \A s \in 1..used : s # r => run'[s] = run[s]
    BY <1>1, <1>3, <1>8, OneRunPlaces
  <2>2. PickFits'
    BY <1>1, <1>3, <1>8, PickStays
  <2> QED  BY <1>7, <2>1, <2>2
<1>10. Forget(r) \/ UNCHANGED <<cur, pick>> => PickRests
  BY ForgetRests DEF PickRests
\* A pick in progress finds the run where it waits only if the run was there before.
<1>11. ASSUME NEW y, PickRests, Connected(x) => Connected(y),
              x.pc = "resumed" => y.pc \in {"resumed", "halted"}
       PROVE  pick'.run = r => PickAt(pick'.st, y)
  BY <1>5, <1>11 DEF PickRests, PickAt, PlaceInv, PickFits
<1>12. CASE InterruptDone(r)
  <2>1. x.pc = "interrupt"
    BY <1>12 DEF InterruptDone
  <2> DEFINE p == IF x.byPick THEN "launch" ELSE "hold"
             y == [x EXCEPT !.reopened = "ok", !.pc = p]
  <2>2. \/ run' = [run EXCEPT ![r] = Overtaken(x)] /\ Forget(r)
        \/ run' = [run EXCEPT ![r] = y] /\ UNCHANGED <<cur, pick>>
    BY <1>4, <1>12 DEF InterruptDone, TypeInv, TypeOK
  <2> HIDE DEF p
  <2>3. TurnFits(y) /\ (Connected(x) => Connected(y))
    BY <1>4, <1>6 DEF TurnFits, Connected, RunRecord
  <2> HIDE DEF y
  <2>4. TurnFits(Overtaken(x)) /\ (Connected(x) => Connected(Overtaken(x)))
    BY <1>4, OvertakenFits
  <2> QED  BY <1>8, <1>10, <1>11, <2>1, <2>2, <2>3, <2>4
<1>13. CASE SessionStored(r)
  <2>1. x.pc = "store"
    BY <1>13 DEF SessionStored
  <2> DEFINE y == [x EXCEPT !.pc = "options"]
  <2>2. run' = [run EXCEPT ![r] = y] /\ UNCHANGED <<cur, pick>>
    BY <1>4, <1>13 DEF SessionStored, TypeInv, TypeOK
  <2>3. TurnFits(y) /\ (Connected(x) => Connected(y))
    BY <1>4, <1>6 DEF TurnFits, Connected, RunRecord
  <2> HIDE DEF y
  <2> QED  BY <1>8, <1>10, <1>11, <2>1, <2>2, <2>3
<1>14. CASE ResumedDone(r)
  <2>1. AfterResumed(r) /\ cur' = cur /\ x.pc = "resumed"
    BY <1>14 DEF ResumedDone
  <2>2. TurnsFit' /\ PickFits' /\ \A s \in 1..used : s # r => run'[s] = run[s]
    BY <1>1, <1>3, <2>1, AfterResumedPlaces
  <2> QED  BY <1>7, <2>2
<1>15. CASE WriteFails
  <2> DEFINE q == Quit(x)
             y == CASE w.cont = "reopen" -> [q EXCEPT !.reopened = "failed", !.pc = "over"]
                    [] w.cont = "session" -> [q EXCEPT !.pc = "over"]
                    [] w.cont = "resumed" -> [q EXCEPT !.pc = "halted"]
                    [] OTHER -> q
  <2>1. run' = [run EXCEPT ![r] = y] /\ Forget(r)
    BY <1>1, <1>15 DEF WriteFails, w, r, StepConts
  <2>2. q \in RunRecord /\ Stands(x, q)
    BY <1>4, QuitType, QuitStands
  <2> HIDE DEF q
  <2>3. ASSUME NEW p
        PROVE  /\ [q EXCEPT !.pc = p].pc = p /\ [q EXCEPT !.pc = p].turning = q.turning
               /\ [q EXCEPT !.pc = p].proc = q.proc
               /\ [q EXCEPT !.reopened = "failed", !.pc = p].pc = p
               /\ [q EXCEPT !.reopened = "failed", !.pc = p].turning = q.turning
               /\ [q EXCEPT !.reopened = "failed", !.pc = p].proc = q.proc
    BY <2>2 DEF RunRecord
  <2>4. y.turning = q.turning /\ y.proc = q.proc
    BY <1>1, <2>3 DEF StepConts
  <2>5. w.cont = "resumed" => y.pc = "halted"
    BY <2>3
  <2> HIDE DEF y
  <2>6. TurnFits(y) /\ (Connected(x) => Connected(y))
    BY <1>6, <2>2, <2>4 DEF Stands, TurnFits, Connected
  <2>7. x.pc = "resumed" => w.cont = "resumed"
    BY <1>1, <1>3 DEF StepConts, StepPlace
  <2> QED  BY <1>8, <1>10, <1>11, <2>1, <2>5, <2>6, <2>7
<1>16. \A s \in 1..used : InterruptDone(s) \/ SessionStored(s) \/ ResumedDone(s) => s = r
  BY DEF InterruptDone, SessionStored, ResumedDone, w, r
<1> QED  BY <1>12, <1>13, <1>14, <1>15, <1>16

\* Every step of the runner, of its clients and of its agents keeps the places.
LEMMA NextPlaces == TypeInv /\ PlaceInv /\ [Next]_vars => PlaceInv'
<1> SUFFICES ASSUME TypeInv, PlaceInv, [Next]_vars PROVE PlaceInv'
  OBVIOUS
<1>1. MoveStep /\ Grows => PlaceInv'
  BY MoveHolds
<1>2. CASE UNCHANGED vars
  <2>1. MoveStep /\ Grows
    BY <1>2, SameMoves, FewGrows DEF vars, table, MoveStep, PickRests
  <2> QED  BY <1>1, <2>1
<1>3. ASSUME NEW t \in Texts, Send(t) PROVE PlaceInv'
  <2>1. CASE Restart(t)
    BY <2>1, RestartPlaces
  <2>2. CASE RefuseMessage(t) \/ JoinStart(t) \/ JoinTurn(t) \/ StartTurn(t)
    <3>1. MoveStep
      BY <2>2, SendMoves
    <3>2. Grows
      BY <1>3, ClientQueue
    <3> QED  BY <1>1, <3>1, <3>2
  <2> QED  BY <1>3, <2>1, <2>2 DEF Send
<1>4. CASE ClientStep
  <2>1. ASSUME NEW q \in Requests, Answer(q) PROVE PlaceInv'
    <3>1. cur \in 1..used /\ Resolve(cur, q)
      BY <2>1, Registry DEF Answer, TypeInv
    <3>2. MoveStep
      BY <3>1, AgentMoves
    <3>3. Grows
      BY <2>1, ClientQueue
    <3> QED  BY <1>1, <3>2, <3>3
  <2>2. SetOption \/ CancelOwnTurn \/ CancelTurn \/ CancelEarly => PlaceInv'
    BY <1>1, CancelMoves, ClientQueue
  <2>3. Stop \/ EndCancels \/ EndAtOnce \/ EndWithNoRun \/ StopStarts => PlaceInv'
    BY <1>1, EndMoves, EndQueue
  <2> QED  BY <1>3, <1>4, <2>1, <2>2, <2>3 DEF ClientStep
<1>5. CASE PickAnswered \/ PickStep
  <2>1. PickAnswered \/ PickRefused => PlaceInv'
    BY <1>1, <1>5, CancelMoves, ClientQueue
  <2>2. PickRelaunches => PlaceInv'
    BY RestartPlaces
  <2>3. PickWaits \/ PickDirect => PlaceInv'
    BY PickPlaces
  <2> QED  BY <1>5, <2>1, <2>2, <2>3 DEF PickStep
<1>6. CASE Close \/ EndStep
  BY <1>1, <1>6, EndMoves, EndQueue DEF EndStep
<1>7. CASE WriteStep \/ WriteFails
  <2>1. WriteDone \/ HoldWritten \/ (WriteFails /\ Head(writes).cont \notin StepConts) => PlaceInv'
    BY WriteMoves, MoveHolds
  <2>2. \/ \E r \in 1..used : InterruptDone(r) \/ SessionStored(r) \/ ResumedDone(r)
        \/ WriteFails /\ Head(writes).cont \in StepConts
        => PlaceInv'
    BY ReturnPlaces
  <2> QED  BY <1>7, <2>1, <2>2 DEF WriteStep
<1>8. ASSUME NEW t \in Texts, MessageStep(t) PROVE PlaceInv'
  <2>1. CASE MessageFails(t)
    <3>1. MoveStep
      BY <2>1, MessageMoves
    <3>2. Grows
      BY <2>1, FewGrows DEF MessageFails
    <3> QED  BY <1>1, <3>1, <3>2
  <2>2. ASSUME NEW r \in 1..used,
               HoldRefused(r, t) \/ HoldStopping(r, t) \/ HoldAgain(r, t) \/ HoldWrite(r, t)
        PROVE  PlaceInv'
    <3>1. MoveStep
      BY <2>2, HoldMoves
    <3>2. Grows
      BY <2>2, OtherQueue
    <3> QED  BY <1>1, <3>1, <3>2
  <2> QED  BY <1>3, <1>8, <2>1, <2>2 DEF MessageStep
<1>9. ASSUME NEW r \in 1..used, RunStep(r) PROVE PlaceInv'
  <2>1. Reopen(r) \/ PickOptionsDone(r) => PlaceInv'
    BY CallPlaces
  <2>2. LaunchOver(r) \/ Spawn(r) \/ HeldOver(r) => PlaceInv'
    BY <1>1, StartMoves, RunQueue
  <2>3. StartHalted(r) \/ OptionSent(r) \/ OptionsQuiet(r) \/ OptionsDone(r) => PlaceInv'
    BY OptionPlaces
  <2>4. NextPrompt(r) \/ (\E jobs \in BOOLEAN : TurnOver(r, jobs)) => PlaceInv'
    BY <1>1, AgentMoves, AgentQueue
  <2> QED  BY <1>9, <2>1, <2>2, <2>3, <2>4 DEF RunStep
<1>10. ASSUME NEW r \in 1..used, CheckStep(r) PROVE PlaceInv'
  <2>1. IdleOvertaken(r) => PlaceInv'
    BY <1>1, ExitMoves, OtherQueue
  <2>2. (\E jobs \in BOOLEAN : MarkerChecked(r, jobs) \/ StopChecked(r, jobs)) => PlaceInv'
    BY <1>1, AgentMoves, AgentQueue
  <2> QED  BY <1>10, <2>1, <2>2 DEF CheckStep
<1>11. ASSUME NEW r \in 1..used, ExitStep(r) \/ ProcessEnds(r) PROVE PlaceInv'
  <2>1. OnExit(r) \/ GroupEnded(r) => PlaceInv'
    BY <1>1, ExitMoves, OtherQueue
  <2>2. (\E clean \in BOOLEAN : Exit(r, clean)) => PlaceInv'
    BY LostPlaces
  <2> QED  BY <1>11, <2>1, <2>2 DEF ExitStep, ProcessEnds
<1>12. ASSUME NEW r \in 1..used, AgentStep(r) PROVE PlaceInv'
  <2>1. SessionCreated(r) => PlaceInv'
    BY CallPlaces
  <2>2. LaunchFails(r) \/ Initialized(r) \/ SessionResumed(r) \/ SessionLost(r) \/ AgentFails(r)
          => PlaceInv'
    BY <1>1, StartMoves, RunQueue
  <2>3. OptionAnswered(r) => PlaceInv'
    BY OptionPlaces
  <2>4. \/ AgentWorks(r) \/ OwnOutput(r) \/ OwnTurnMarker(r)
        \/ \E reason \in BOOLEAN : PromptReturned(r, reason)
        \/ \E t \in Texts : AgentInjects(r, t) \/ SteerAnswered(r, t)
        => PlaceInv'
    BY <1>1, AgentMoves, AgentQueue
  <2>5. ASSUME NEW q \in Requests, Ask(r, q) \/ AgentTakesBack(r, q) PROVE PlaceInv'
    BY <1>1, <2>5, AgentMoves, AgentQueue DEF AgentTakesBack
  <2>6. \/ IdleExpires(r)
        \/ \E jobs, ended, recent \in BOOLEAN : IdleChecked(r, jobs, ended, recent)
        => PlaceInv'
    BY <1>1, ExitMoves, OtherQueue
  <2>7. ConnectionCut(r) \/ (\E clean \in BOOLEAN : Exit(r, clean)) => PlaceInv'
    BY LostPlaces
  <2> QED  BY <1>12, <2>1, <2>2, <2>3, <2>4, <2>5, <2>6, <2>7 DEF AgentStep
<1> QED  BY <1>2, <1>4, <1>5, <1>6, <1>7, <1>8, <1>9, <1>10, <1>11, <1>12 DEF Next, Outside

-----------------------------------------------------------------------------
(* The theorems. *)

\* A chat that comes to the runner has at most the process of its first run.
LEMMA InitHolds == Init => StartInv
<1> SUFFICES ASSUME Init PROVE StartInv
  OBVIOUS
<1>1. NewRun.proc = "none" /\ NewRun.pc = "reopen"
  BY DEF NewRun
<1>2. "init" \notin Early
  BY DEF Early
<1>3. CASE \E t \in Texts : InitStarted(t)
  <2> DEFINE x == [NewRun EXCEPT !.pc = "init", !.proc = "alive", !.idle = "on"]
  <2>1. x.pc = "init"
    BY NewRunType DEF RunRecord
  <2> HIDE DEF x
  <2>2. run = [r \in Runs |-> IF r = 1 THEN x ELSE NewRun] /\ used = 1 /\ ends = 1
    BY <1>3 DEF InitStarted, x
  <2>3. 1 \in Runs /\ 1..used = {1}
    BY <2>2, RunnerAssumption DEF Runs
  <2>4. Unspawned /\ LiveIsLast
    BY <1>1, <1>2, <2>1, <2>2 DEF Unspawned, LiveIsLast, Live
  <2>5. \A r \in 1..used : ~Starting(r)
    BY <1>2, <2>1, <2>2, <2>3 DEF Starting
  <2> QED  BY <2>4, <2>5 DEF StartInv, StartIsCurrent, StartWaited
<1>4. ASSUME NEW session, NEW answered, NEW stopped, InitLoaded(session, answered, stopped)
      PROVE  StartInv
  <2>1. run = [r \in Runs |-> NewRun] /\ used = 0
    BY <1>4 DEF InitLoaded
  <2>2. Unspawned /\ LiveIsLast
    BY <1>1, <2>1 DEF Unspawned, LiveIsLast, Live
  <2>3. 1..used = {}
    BY <2>1
  <2> QED  BY <2>2, <2>3 DEF StartInv, StartIsCurrent, StartWaited
<1> QED  BY <1>3, <1>4 DEF Init

\* Every step of the runner, of its clients and of its agents keeps the invariant.
LEMMA NextHolds == TypeInv /\ StartInv /\ [Next]_vars => Holds
<1> SUFFICES ASSUME TypeInv, StartInv, [Next]_vars PROVE Holds
  OBVIOUS
<1>1. CASE UNCHANGED vars
  BY <1>1, SameHolds DEF vars
<1>2. CASE ClientStep
  <2>1. ASSUME NEW t \in Texts, Send(t) PROVE Holds
    BY <2>1, SendHolds
  <2>2. ASSUME NEW q \in Requests, Answer(q) PROVE Holds
    <3>1. cur \in 1..used /\ Resolve(cur, q)
      BY <2>2, Registry DEF Answer, TypeInv
    <3> QED  BY <3>1, RequestStepHolds
  <2>3. SetOption => Holds
    BY PickStepHolds
  <2>4. CancelOwnTurn \/ CancelTurn \/ CancelEarly => Holds
    BY CancelStepHolds
  <2>5. Stop \/ EndCancels \/ EndAtOnce \/ EndWithNoRun => Holds
    BY EndStepHolds
  <2>6. StopStarts => Holds
    BY DaemonStepHolds
  <2> QED  BY <1>2, <2>1, <2>2, <2>3, <2>4, <2>5, <2>6 DEF ClientStep
<1>3. CASE PickAnswered \/ PickStep
  BY <1>3, PickStepHolds
<1>4. CASE WriteFails
  BY <1>4, FaultStepHolds
<1>5. CASE Close
  BY <1>5, DaemonStepHolds
<1>6. CASE WriteStep
  BY <1>6, WriteStepHolds DEF WriteStep
<1>7. CASE EndStep
  BY <1>7, EndStepHolds DEF EndStep
<1>8. ASSUME NEW t \in Texts, MessageStep(t) PROVE Holds
  <2>1. Send(t) => Holds
    BY SendHolds
  <2>2. MessageFails(t) => Holds
    BY FaultStepHolds
  <2>3. ASSUME NEW r \in 1..used,
               HoldRefused(r, t) \/ HoldStopping(r, t) \/ HoldAgain(r, t) \/ HoldWrite(r, t)
        PROVE  Holds
    BY <2>3, HoldStepHolds
  <2> QED  BY <1>8, <2>1, <2>2, <2>3 DEF MessageStep
<1>9. ASSUME NEW r \in 1..used, RunStep(r) PROVE Holds
  <2>1. Reopen(r) \/ LaunchOver(r) \/ Spawn(r) => Holds
    BY LaunchStepHolds
  <2>2. StartHalted(r) => Holds
    BY FaultStepHolds
  <2>3. OptionSent(r) \/ OptionsQuiet(r) \/ OptionsDone(r) \/ PickOptionsDone(r) \/ HeldOver(r)
          => Holds
    BY OptionStepHolds
  <2>4. NextPrompt(r) \/ (\E jobs \in BOOLEAN : TurnOver(r, jobs)) => Holds
    BY TurnStepHolds
  <2> QED  BY <1>9, <2>1, <2>2, <2>3, <2>4 DEF RunStep
<1>10. ASSUME NEW r \in 1..used, CheckStep(r) PROVE Holds
  <2>1. IdleOvertaken(r) => Holds
    BY IdleStepHolds
  <2>2. (\E jobs \in BOOLEAN : MarkerChecked(r, jobs) \/ StopChecked(r, jobs)) => Holds
    BY BackgroundStepHolds
  <2> QED  BY <1>10, <2>1, <2>2 DEF CheckStep
<1>11. ASSUME NEW r \in 1..used, ExitStep(r) PROVE Holds
  BY <1>11, ProcessStepHolds DEF ExitStep
<1>12. ASSUME NEW r \in 1..used, AgentStep(r) PROVE Holds
  <2>1. LaunchFails(r) => Holds
    BY LaunchStepHolds
  <2>2. Initialized(r) \/ SessionResumed(r) \/ SessionLost(r) \/ SessionCreated(r) \/ AgentFails(r)
          => Holds
    BY SessionStepHolds
  <2>3. OptionAnswered(r) => Holds
    BY OptionStepHolds
  <2>4. AgentWorks(r) \/ OwnOutput(r) \/ OwnTurnMarker(r) => Holds
    BY BackgroundStepHolds
  <2>5. IdleExpires(r) \/ (\E jobs, ended, recent \in BOOLEAN : IdleChecked(r, jobs, ended, recent))
          => Holds
    BY IdleStepHolds
  <2>6. ConnectionCut(r) \/ (\E clean \in BOOLEAN : Exit(r, clean)) => Holds
    BY ProcessStepHolds
  <2>7. \/ \E reason \in BOOLEAN : PromptReturned(r, reason)
        \/ \E t \in Texts : AgentInjects(r, t) \/ SteerAnswered(r, t)
        => Holds
    BY TurnStepHolds
  <2>8. ASSUME NEW q \in Requests, Ask(r, q) \/ AgentTakesBack(r, q) PROVE Holds
    BY <2>8, RequestStepHolds DEF AgentTakesBack
  <2> QED  BY <1>12, <2>1, <2>2, <2>3, <2>4, <2>5, <2>6, <2>7, <2>8 DEF AgentStep
<1>13. ASSUME NEW r \in 1..used, ProcessEnds(r) PROVE Holds
  BY <1>13, ProcessStepHolds DEF ProcessEnds
<1> QED  BY <1>1, <1>2, <1>3, <1>4, <1>5, <1>6, <1>7, <1>8, <1>9, <1>10, <1>11, <1>12, <1>13
         DEF Next, Outside

\* In every reachable state, a run that will still spawn its agent is the current one, keeps the
\* promise of the last process, and past its wait that process has ended.  Only the process of
\* the last spawn is alive.
THEOREM StartsWait == Spec => []StartInv
<1>1. Init => StartInv
  BY InitHolds
<1>2. TypeInv /\ StartInv /\ [Next]_vars => StartInv'
  BY NextHolds DEF Holds
<1> QED  BY <1>1, <1>2, TypesHold, PTL DEF Spec

\* In every reachable state, at most one agent process of the chat is alive: `reopen` waits for
\* the end of the last one before a run spawns the next.
THEOREM OneProcessHolds == Spec => []OneProcess
<1>1. StartInv => OneProcess
  BY DEF StartInv, LiveIsLast, OneProcess
<1> QED  BY <1>1, StartsWait, PTL

\* In every reachable state, an agent that nobody uses any more is ending, or its end waits for
\* the write of its failure, or the daemon stops: a run that goes quiet or is replaced lets no
\* process live on.
THEOREM LooseAgentsEnd == Spec => []LooseEnds
<1>1. Init => LooseEnds
  <2> SUFFICES ASSUME Init, NEW r \in Runs PROVE ~Loose(r)
    BY DEF LooseEnds
  <2>1. NewRun.proc # "alive"
    BY DEF NewRun
  <2>2. CASE \E t \in Texts : InitStarted(t)
    <3> DEFINE x == [NewRun EXCEPT !.pc = "init", !.proc = "alive", !.idle = "on"]
    <3>1. ~x.quiet
      BY DEF NewRun
    <3> HIDE DEF x
    <3>2. run = [s \in Runs |-> IF s = 1 THEN x ELSE NewRun] /\ cur = 1
      BY <2>2 DEF InitStarted, x
    <3> QED  BY <2>1, <3>1, <3>2 DEF Loose
  <2>3. CASE \E session, answered, stopped : InitLoaded(session, answered, stopped)
    BY <2>1, <2>3 DEF InitLoaded, Loose
  <2> QED  BY <2>2, <2>3 DEF Init
<1>2. TypeInv /\ StartInv /\ LooseEnds /\ [Next]_vars => LooseEnds'
  <2> SUFFICES ASSUME TypeInv, StartInv, LooseEnds, [Next]_vars, NEW r \in Runs, Loose(r)'
               PROVE  stopping' \/ KillWaits(r)'
    BY DEF LooseEnds
  <2>1. LooseStep /\ KillsStep
    BY NextHolds, KillsWait DEF Holds
  <2>2. run'[r].proc = "alive"
    BY DEF Loose
  <2> QED  BY <2>1, <2>2, StoppingStays DEF LooseStep, KillsStep, LooseEnds
<1> QED  BY <1>1, <1>2, StartsWait, TypesHold, PTL DEF Spec

\* In every reachable state, an agent that is not the agent of the chat is ending, or waits for
\* the write of its failure, or the daemon stops.
THEOREM NoStrayAgentHolds == Spec => []NoStrayAgent
<1>1. LooseEnds => NoStrayAgent
  BY DEF LooseEnds, NoStrayAgent, Loose, KillWaits
<1> QED  BY <1>1, LooseAgentsEnd, PTL

\* After `stopStarts` no agent comes to life, and the only prompt is the first one of a start
\* that had no message to wait for.
THEOREM StopHoldsAlways == Spec => StopHolds
<1>1. TypeInv /\ StartInv /\ [Next]_vars =>
        [stopping => \A r \in Runs :
           /\ run'[r].proc = "alive" => run[r].proc = "alive"
           /\ run'[r].pc = "prompt" /\ run[r].pc # "prompt" =>
                run[r].pc = "options" /\ run[r].held = <<>>]_vars
  BY NextHolds, StopPrompts DEF Holds, AliveStep, PromptStep, FirstOnly
<1> QED  BY <1>1, StartsWait, TypesHold, PTL DEF Spec, StopHolds

\* In every reachable state, a write that a coroutine waits for finds it at the await of that
\* write, no two such writes are of one run, and a pick in progress finds its run at the step that
\* answers it.  A run that is idle or over has no turn.
THEOREM PlacesHold == Spec => []PlaceInv
<1>1. Init => PlaceInv
  <2> SUFFICES ASSUME Init PROVE PlaceInv
    OBVIOUS
  <2>1. writes = <<>> /\ pick.st = "none"
    BY DEF Init, InitCommon, NoPick
  <2>2. TurnsFit
    <3>1. NewRun.turning
      BY DEF NewRun
    <3>2. CASE \E t \in Texts : InitStarted(t)
      <4> DEFINE x == [NewRun EXCEPT !.pc = "init", !.proc = "alive", !.idle = "on"]
      <4>1. x.turning
        BY DEF NewRun
      <4> HIDE DEF x
      <4>2. run = [r \in Runs |-> IF r = 1 THEN x ELSE NewRun] /\ 1..used \subseteq Runs
        BY <3>2, RunnerAssumption DEF InitStarted, x, Runs
      <4> QED  BY <3>1, <4>1, <4>2 DEF TurnsFit, TurnFits
    <3>3. ASSUME NEW session, NEW answered, NEW stopped, InitLoaded(session, answered, stopped)
          PROVE  TurnsFit
      BY <3>3 DEF InitLoaded, TurnsFit
    <3> QED  BY <3>2, <3>3 DEF Init
  <2>3. DOMAIN writes = {}
    BY <2>1
  <2> QED  BY <2>1, <2>2, <2>3 DEF PlaceInv, StepFits, StepsDiffer, PickFits
<1>2. TypeInv /\ PlaceInv /\ [Next]_vars => PlaceInv'
  BY NextPlaces
<1> QED  BY <1>1, <1>2, TypesHold, PTL DEF Spec

\* In every reachable state, a pick that waits, is being set or was applied has a run that will
\* answer it, and one that went to the agent has a connection: no client waits for a dead run.
THEOREM PickHasOwnerHolds == Spec => []PickHasOwner
<1>1. TypeInv /\ PlaceInv => PickHasOwner
  BY DEF TypeInv, PlaceInv, PickFits, PickHasOwner, NoRun, Connected
<1> QED  BY <1>1, PlacesHold, TypesHold, PTL
=============================================================================
