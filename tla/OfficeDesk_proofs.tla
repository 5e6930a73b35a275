-------------------------- MODULE OfficeDesk_proofs --------------------------
(***************************************************************************)
(* Proofs about the Office desk, for any bounds.  TypeInv gives the shapes *)
(* of the records; with it the decisions of every document anywhere, since *)
(* a document is legal (Good) when its accepted decision was stored.       *)
(***************************************************************************)
EXTENDS OfficeDesk, TLAPS

USE BoundsAssumption

Docs == [geo : Values, dec : [st : {"none", "pending", "accepted", "keep"}, val : Values]]
Good == {d \in Docs : d.dec.st = "accepted" => d.dec.val \in hist.stored}

Revs == [tok : Nat, val : Values, hid : Nat, editable : BOOLEAN]
Sks == [ver : Nat, doc : Good]
Saves == [gen : Nat, kept : Nat, ver : Nat, saving : BOOLEAN,
          phase : Failed \cup {"saved", "unsaved", "saving"}]
Sessions == [on : BOOLEAN, orig : Values, applied : Values]

Offices == [tok : Nat, val : Values, hid : Nat, editable : BOOLEAN, sk : Sks]
Forms == [rev : Revs, val : Values, dirty : BOOLEAN, mine : BOOLEAN, review : BOOLEAN,
          server : Revs, remote : BOOLEAN]
Ops == [kind : {"none", "save", "keep", "load", "status", "finalize"}, st : {"none", "sent", "done"},
        body : Revs, mine : BOOLEAN, res : {"none", "ok", "conflict", "error"}, rev : Revs, sk : Sks]
Polls == [st : {"none", "done"}, rev : Revs]
Eds == [open : BOOLEAN, loading : BOOLEAN, doc : Good, past : Seq(Good), future : Seq(Good),
        save : Saves, conflict : BOOLEAN, confirm : BOOLEAN, closing : BOOLEAN,
        proposal : {"none", "preview", "review", "confirm"}, shape : Values,
        pre : [doc : Good, save : Saves], session : Sessions]
Puts == [doc : Good, gen : Nat, ver : Nat, st : {"sent"}, res : {"none"}, live : BOOLEAN]
        \cup [doc : Good, gen : Nat, ver : Nat, st : {"done"},
              res : {"ok", "conflict", "locked", "error"}, live : BOOLEAN]
Gets == [kind : {"none", "load", "reload"}, st : {"none", "done"}, sk : Sks]
Hists == [acts : Nat, events : Nat, safe : BOOLEAN, late : BOOLEAN, stored : SUBSET Values,
          ownRev : SUBSET Nat, ownSk : SUBSET Nat, disk : Docs]

(* The value of an accepted save, until its answer and its promotions are through. *)
AnswerStored ==
    op.kind = "finalize" \/ (op.kind \in {"save", "keep"} /\ op.res = "ok") => op.rev.val \in hist.stored

TypeInv ==
    /\ office \in Offices /\ ws \in Forms /\ op \in Ops /\ poll \in Polls
    /\ ed \in Eds /\ puts \in SUBSET Puts /\ get \in Gets /\ hist \in Hists
    /\ AnswerStored

(* A step that keeps the shapes, in terms of the documents good before it. *)
TypeStep ==
    /\ hist' \in Hists /\ hist.stored \subseteq hist'.stored
    /\ office' \in Offices /\ ws' \in Forms /\ op' \in Ops /\ poll' \in Polls
    /\ ed' \in Eds /\ puts' \in SUBSET Puts /\ get' \in Gets
    /\ AnswerStored'

(***************************************************************************)
(* Documents and the undo stack.                                           *)
(***************************************************************************)
(* A new shape keeps the decision; a pending or kept decision needs no stored value. *)
LEMMA GoodDocs ==
    ASSUME hist \in Hists
    PROVE  /\ EmptyDoc \in Good
           /\ \A g \in Values : [EmptyDoc EXCEPT !.geo = g] \in Good
           /\ \A d \in Good, g \in Values : [d EXCEPT !.geo = g] \in Good
           /\ \A d \in Good, v \in Values :
                 /\ [d EXCEPT !.dec = [st |-> "pending", val |-> v]] \in Good
                 /\ [d EXCEPT !.dec = [st |-> "keep", val |-> 0]] \in Good
           /\ \A d \in Good : d.geo \in Values /\ d.dec.val \in Values
BY DEF Good, Docs, EmptyDoc, NoDec, Values

(* What was stored stays stored, so a good document stays good. *)
LEMMA GoodGrows ==
    ASSUME hist.stored \subseteq hist'.stored
    PROVE  Good \subseteq Good'
BY DEF Good, Docs, Values

(* The stacks hold documents, whatever is pushed or taken. *)
LEMMA Stacks ==
    ASSUME NEW D, NEW s \in Seq(D), NEW d \in D
    PROVE  /\ Trim(Append(s, d)) \in Seq(D)
           /\ s # <<>> => /\ Front(s) \in Seq(D) /\ Last(s) \in D
                          /\ Head(s) \in D /\ Tail(s) \in Seq(D)
           /\ \A n \in 1..(Len(s) + 1) : SubSeq(<<d>> \o s, 1, n) \in Seq(D)
<1>1. Trim(Append(s, d)) \in Seq(D)
  <2>1. MaxHistory \in Nat
    BY DEF BoundsAssumption
  <2>2. Append(s, d) \in Seq(D) /\ Len(Append(s, d)) = Len(s) + 1 /\ Len(s) \in Nat
    OBVIOUS
  <2>3. Tail(Append(s, d)) \in Seq(D)
    BY <2>2
  <2> QED
    BY <2>1, <2>2, <2>3 DEF Trim
<1>2. s # <<>> => Len(s) \in Nat \ {0} /\ Head(s) \in D /\ Tail(s) \in Seq(D)
  OBVIOUS
<1>3. ASSUME s # <<>> PROVE Front(s) \in Seq(D) /\ Last(s) \in D
  BY <1>2, <1>3 DEF Front, Last
<1>4. \A n \in 1..(Len(s) + 1) : SubSeq(<<d>> \o s, 1, n) \in Seq(D)
  <2>1. <<d>> \in Seq(D) /\ Len(<<d>>) = 1
    OBVIOUS
  <2>2. <<d>> \o s \in Seq(D) /\ Len(<<d>> \o s) = Len(s) + 1
    BY <2>1
  <2> QED
    BY <2>2
<1> QED
  BY <1>1, <1>2, <1>3, <1>4

LEMMA TypeLift == ASSUME TypeStep PROVE TypeInv'
<1>1. Good \subseteq Good'
  BY GoodGrows DEF TypeStep
<1>2. Sks \subseteq Sks' /\ Gets \subseteq Gets'
  BY <1>1 DEF Sks, Gets
<1>3. Offices \subseteq Offices' /\ Ops \subseteq Ops' /\ Puts \subseteq Puts'
  BY <1>1, <1>2 DEF Offices, Ops, Puts, Revs
<1>4. Seq(Good) \subseteq Seq(Good')
  BY <1>1
<1>5. Eds \subseteq Eds'
  BY <1>1, <1>4 DEF Eds, Saves, Sessions
<1>6. Forms = Forms' /\ Polls = Polls' /\ Hists = Hists'
  BY DEF Forms, Polls, Hists, Revs, Docs, Values
<1> QED
  BY <1>2, <1>3, <1>5, <1>6 DEF TypeStep, TypeInv

(* The initial values of the records. *)
LEMMA EmptyThings ==
    ASSUME hist \in Hists
    PROVE  NoRev \in Revs /\ NoSk \in Sks /\ NoOp \in Ops /\ NoPoll \in Polls /\ NoGet \in Gets
           /\ Closed \in Eds /\ \A v \in Nat : initSaveState(v) \in Saves
<1>1. 0 \in Values /\ EmptyDoc \in Good
  BY GoodDocs DEF BoundsAssumption, Values
<1>2. NoRev \in Revs /\ NoSk \in Sks
  BY <1>1 DEF NoRev, Revs, NoSk, Sks
<1>3. NoOp \in Ops /\ NoPoll \in Polls /\ NoGet \in Gets
  BY <1>2 DEF NoOp, Ops, NoPoll, Polls, NoGet, Gets
<1>4. \A v \in Nat : initSaveState(v) \in Saves
  BY DEF initSaveState, Saves
<1>5. Closed \in Eds
  <2>1. <<>> \in Seq(Good) /\ NoSession \in Sessions /\ initSaveState(0) \in Saves
    BY <1>1, <1>4 DEF NoSession, Sessions
  <2> QED
    BY <1>1, <2>1 DEF Closed, Eds
<1> QED
  BY <1>2, <1>3, <1>4, <1>5

LEMMA InitTypes == Init => TypeInv
<1> SUFFICES ASSUME Init PROVE TypeInv
  OBVIOUS
<1>1. {0, 1} \subseteq Values
  BY DEF BoundsAssumption, Values
<1>2. hist \in Hists
  BY <1>1 DEF Init, Hists, Docs, EmptyDoc, NoDec
<1>3. EmptyDoc \in Good /\ [EmptyDoc EXCEPT !.geo = 1] \in Good
  BY <1>1, <1>2, GoodDocs
<1>4. NoSk \in Sks /\ [ver |-> 1, doc |-> [EmptyDoc EXCEPT !.geo = 1]] \in Sks
  BY <1>3 DEF NoSk, Sks
<1>5. office \in Offices
  BY <1>1, <1>4 DEF Init, Offices
<1>6. NoRev \in Revs /\ ws \in Forms
  BY <1>1 DEF Init, Forms, Revs, NoRev
<1>7. Closed \in Eds /\ NoOp \in Ops /\ NoPoll \in Polls /\ NoGet \in Gets
  BY <1>2, EmptyThings
<1>8. AnswerStored
  BY DEF Init, AnswerStored, NoOp
<1> QED
  BY <1>2, <1>5, <1>6, <1>7, <1>8 DEF Init, TypeInv

(* Spending a budget leaves the rest of the history record. *)
LEMMA HistSteps ==
    ASSUME hist \in Hists
    PROVE  /\ Act \in Hists /\ Act.stored = hist.stored
           /\ Event \in Hists /\ Event.stored = hist.stored
BY DEF Act, Event, Hists

(* The history record after a value was entered. *)
LEMMA TypedHist ==
    ASSUME hist \in Hists
    PROVE  Typed \in Hists /\ Typed.stored = hist.stored
<1>1. (op.kind # "none") \in BOOLEAN /\ Act \in Hists /\ Act.stored = hist.stored
  BY HistSteps
<1> QED
  BY <1>1 DEF Typed, Hists

(***************************************************************************)
(* The worksheet and its requests.                                         *)
(***************************************************************************)
LEMMA WorksheetUserTypes ==
    ASSUME TypeInv, WorksheetUser
    PROVE  TypeStep
<1> USE DEF TypeInv, TypeStep, AnswerStored, Forms, Revs, Hists, Ops, Typed, Act, Overtaken
<1>0. NoRev \in Revs /\ NoOp \in Ops
  BY EmptyThings
<1>1. ASSUME NEW v \in Values, setRow(v) PROVE TypeStep
  <2>1. ws' \in Forms
    BY <1>1 DEF setRow
  <2>2. op' \in Ops /\ (op' = op \/ op' = [op EXCEPT !.mine = FALSE])
    BY <1>1 DEF setRow
  <2>3. hist' \in Hists /\ hist'.stored = hist.stored
    BY <1>1, TypedHist DEF setRow
  <2> QED
    BY <1>1, <2>1, <2>2, <2>3 DEF setRow
<1>2. ASSUME NEW kind \in {"save", "keep", "load", "status"}, NEW body \in Revs, NEW mine \in BOOLEAN,
             Ask(kind, body, mine)
      PROVE  op' \in Ops /\ hist' \in Hists /\ hist'.stored = hist.stored /\ op'.kind = kind /\ op'.res = "none"
  <2>1. op' = [NoOp EXCEPT !.kind = kind, !.st = "sent", !.body = body, !.mine = mine] /\ hist' = Act
    BY <1>2 DEF Ask
  <2>2. op' \in Ops /\ op'.kind = kind /\ op'.res = "none"
    BY <1>0, <2>1 DEF NoOp
  <2> QED
    BY <2>1, <2>2
<1>3. CASE save
  BY <1>2, <1>3 DEF save, buildEditablePayload
<1>4. CASE keepMyVersion
  BY <1>2, <1>4 DEF keepMyVersion, buildRebasePayload
<1>5. CASE useLatestVersion
  <2>1. CASE ws.server # NoRev /\ op.kind = "none"
             /\ ws' = [Installed(ws.server) EXCEPT !.review = FALSE, !.server = NoRev]
             /\ hist' = [hist EXCEPT !.safe = TRUE] /\ UNCHANGED op
    <3>1. ws' \in Forms
      BY <1>0, <2>1 DEF Installed
    <3>2. hist' \in Hists /\ hist'.stored = hist.stored
      BY <2>1
    <3> QED
      BY <1>5, <2>1, <3>1, <3>2 DEF useLatestVersion
  <2>2. CASE Ask("load", NoRev, FALSE) /\ UNCHANGED ws
    BY <1>0, <1>2, <1>5, <2>2 DEF useLatestVersion
  <2> QED
    BY <1>5, <2>1, <2>2 DEF useLatestVersion
<1>6. CASE loadRemoteLatest
  BY <1>0, <1>2, <1>6 DEF loadRemoteLatest
<1>7. CASE dismissRemote
  BY <1>7 DEF dismissRemote
<1>8. CASE changeStatus
  BY <1>2, <1>8 DEF changeStatus
<1> QED
  BY <1>1, <1>3, <1>4, <1>5, <1>6, <1>7, <1>8 DEF WorksheetUser

LEMMA WireTypes ==
    ASSUME TypeInv, Wire
    PROVE  TypeStep
<1>0. NoRev \in Revs /\ NoOp \in Ops
  BY EmptyThings DEF TypeInv
<1>t. office \in Offices /\ ws \in Forms /\ op \in Ops /\ hist \in Hists /\ AnswerStored
  BY DEF TypeInv
<1>s. ServerRev \in Revs
  BY <1>t DEF ServerRev, Revs, Offices
<1>n. office.tok + 1 \in Nat
  BY <1>t DEF Offices
<1>1. CASE replace_revision
  <2>1. CASE /\ \/ op' = [op EXCEPT !.st = "done", !.res = "conflict", !.rev = ServerRev]
                \/ op' = [op EXCEPT !.st = "done", !.res = "conflict"]
             /\ UNCHANGED <<office, hist>>
    <3>1. op' \in Ops /\ op'.kind = op.kind /\ op'.res # "ok"
      BY <1>t, <1>s, <2>1 DEF Ops
    <3> QED
      BY <1>1, <2>1, <3>1 DEF replace_revision, TypeInv, TypeStep, AnswerStored
  <2>2. CASE /\ office' = [office EXCEPT !.tok = @ + 1, !.val = op.body.val, !.hid = op.body.hid]
             /\ op' = [op EXCEPT !.st = "done", !.res = "ok",
                                 !.rev = [op.body EXCEPT !.tok = office.tok + 1, !.editable = TRUE]]
             /\ hist' = [hist EXCEPT !.safe = @ \/ op.mine, !.stored = @ \cup {op.body.val},
                                     !.ownRev = @ \cup {office.tok + 1}]
    <3>1. op.body \in Revs /\ op.body.val \in Values /\ op.body.hid \in Nat
      BY <1>t DEF Ops, Revs
    <3>2. office' \in Offices
      BY <1>n, <1>t, <2>2, <3>1 DEF Offices
    <3>3. [op.body EXCEPT !.tok = office.tok + 1, !.editable = TRUE] \in Revs
      BY <1>n, <3>1 DEF Revs
    <3>4. op' \in Ops /\ op'.rev.val = op.body.val
      BY <1>t, <2>2, <3>1, <3>3 DEF Ops, Revs
    <3>5. (hist.safe \/ op.mine) \in BOOLEAN /\ hist.stored \cup {op.body.val} \in SUBSET Values
          /\ hist.ownRev \cup {office.tok + 1} \in SUBSET Nat
      BY <1>n, <1>t, <3>1 DEF Hists
    <3>6. hist' \in Hists /\ hist'.stored = hist.stored \cup {op.body.val}
      BY <1>t, <2>2, <3>5 DEF Hists
    <3> QED
      BY <1>1, <3>2, <3>4, <3>6 DEF replace_revision, TypeInv, TypeStep, AnswerStored
  <2> QED
    BY <1>1, <2>1, <2>2 DEF replace_revision
<1>2. CASE change_status
  <2>1. CASE /\ office' = [office EXCEPT !.tok = @ + 1, !.editable = op.body.editable]
             /\ op' = [op EXCEPT !.st = "done", !.res = "ok",
                  !.rev = [ServerRev EXCEPT !.tok = office.tok + 1, !.editable = op.body.editable]]
    <3>1. op.body.editable \in BOOLEAN
      BY <1>t DEF Ops, Revs
    <3>2. office' \in Offices
      BY <1>n, <1>t, <2>1, <3>1 DEF Offices
    <3>3. [ServerRev EXCEPT !.tok = office.tok + 1, !.editable = op.body.editable] \in Revs
      BY <1>n, <1>s, <3>1 DEF Revs
    <3>4. op' \in Ops /\ op'.kind = op.kind
      BY <1>t, <2>1, <3>3 DEF Ops
    <3> QED
      BY <1>2, <3>2, <3>4 DEF change_status, TypeInv, TypeStep, AnswerStored
  <2>2. CASE op' = [op EXCEPT !.st = "done", !.res = "error"] /\ UNCHANGED office
    <3>1. op' \in Ops /\ op'.kind = op.kind
      BY <1>t, <2>2 DEF Ops
    <3> QED
      BY <1>2, <2>2, <3>1 DEF change_status, TypeInv, TypeStep, AnswerStored
  <2> QED
    BY <1>2, <2>1, <2>2 DEF change_status
<1>3. CASE get_revision
  <2>1. op' \in Ops /\ op'.kind = "load"
    BY <1>3, <1>t, <1>s DEF get_revision, Ops
  <2> QED
    BY <1>3, <2>1 DEF get_revision, TypeInv, TypeStep, AnswerStored
<1>4. CASE SaveAnswered
  <2>0. op.rev \in Revs /\ op.rev.val \in Values /\ op.mine \in BOOLEAN
    BY <1>t DEF Ops, Revs
  <2>i. Installed(op.rev) \in Forms
    BY <1>t, <2>0 DEF Installed, Forms
  <2>1. ws' \in Forms
    BY <1>0, <1>4, <1>t, <2>0, <2>i DEF SaveAnswered, Forms
  <2>2. CASE op.res = "ok"
    <3>1. op' = [NoOp EXCEPT !.kind = "finalize", !.st = "sent", !.rev = op.rev]
      BY <1>4, <2>2 DEF SaveAnswered
    <3>2. op' \in Ops /\ op'.rev = op.rev
      BY <1>0, <1>t, <3>1 DEF Ops
    <3> QED
      BY <1>4, <1>t, <2>1, <2>2, <3>2 DEF SaveAnswered, TypeInv, TypeStep, AnswerStored
  <2>3. CASE op' = NoOp
    BY <1>0, <1>4, <2>1, <2>3 DEF SaveAnswered, TypeInv, TypeStep, AnswerStored, NoOp
  <2> QED
    BY <1>4, <2>2, <2>3 DEF SaveAnswered
<1>5. CASE LoadAnswered
  <2>0. op.rev \in Revs /\ op.rev.val \in Values
    BY <1>t DEF Ops, Revs
  <2>i. Installed(op.rev) \in Forms
    BY <1>t, <2>0 DEF Installed, Forms
  <2>1. ws' \in Forms
    BY <1>0, <1>5, <1>t, <2>0, <2>i DEF LoadAnswered, Forms
  <2>2. hist' \in Hists /\ hist'.stored = hist.stored
    BY <1>5, <1>t DEF LoadAnswered, Hists
  <2> QED
    BY <1>0, <1>5, <2>1, <2>2 DEF LoadAnswered, TypeInv, TypeStep, AnswerStored, NoOp
<1>6. CASE FinalizeRead
  <2>1. hist' \in Hists /\ hist'.stored = hist.stored
    BY <1>6, <1>t, HistSteps DEF FinalizeRead
  <2>2. CASE op' = [op EXCEPT !.st = "done", !.sk = office.sk]
    <3>1. op' \in Ops /\ op'.rev = op.rev
      BY <1>t, <2>2 DEF Ops, Offices
    <3> QED
      BY <1>6, <1>t, <2>1, <3>1 DEF FinalizeRead, TypeInv, TypeStep, AnswerStored
  <2>3. CASE op' = NoOp
    BY <1>0, <1>6, <2>1, <2>3 DEF FinalizeRead, TypeInv, TypeStep, AnswerStored, NoOp
  <2> QED
    BY <1>6, <2>2, <2>3 DEF FinalizeRead
<1>7. CASE FinalizeSave
  <2>1. op.sk.ver \in Nat /\ op.sk.doc \in Good /\ op.rev.val \in hist.stored
    BY <1>7, <1>t DEF FinalizeSave, Ops, Sks, AnswerStored
  <2>2. [op.sk.doc EXCEPT !.dec = finalizeAfterSave(@, op.rev.val)] \in Good
    BY <2>1 DEF finalizeAfterSave, Good, Docs
  <2>3. office' \in Offices
    BY <1>7, <1>t, <2>1, <2>2 DEF FinalizeSave, Offices, Sks
  <2>4. hist' \in Hists /\ hist'.stored = hist.stored
    BY <1>7, <1>t, HistSteps DEF FinalizeSave
  <2> QED
    BY <1>0, <1>7, <2>3, <2>4 DEF FinalizeSave, TypeInv, TypeStep, AnswerStored, NoOp
<1> QED
  BY <1>1, <1>2, <1>3, <1>4, <1>5, <1>6, <1>7 DEF Wire

LEMMA PollingTypes ==
    ASSUME TypeInv, Polling
    PROVE  TypeStep
<1>t. office \in Offices /\ ws \in Forms /\ poll \in Polls
  BY DEF TypeInv
<1>1. CASE PollRead
  <2>1. ServerRev \in Revs
    BY <1>t DEF ServerRev, Revs, Offices
  <2>2. poll' \in Polls
    BY <1>1, <2>1 DEF PollRead, Polls
  <2> QED
    BY <1>1, <2>2 DEF PollRead, TypeInv, TypeStep, AnswerStored
<1>2. CASE checkRemote
  <2>1. poll.rev \in Revs /\ poll.rev.val \in Values /\ NoPoll \in Polls
    BY <1>t, EmptyThings DEF Polls, Revs, TypeInv
  <2>2. Installed(poll.rev) \in Forms
    BY <1>t, <2>1 DEF Installed, Forms
  <2>3. Adopted(poll.rev) \in Forms
    BY <1>t, <2>2 DEF Adopted, Forms
  <2> QED
    BY <1>2, <2>1, <2>3 DEF checkRemote, TypeInv, TypeStep, AnswerStored
<1> QED
  BY <1>1, <1>2 DEF Polling

(***************************************************************************)
(* The sketch editor.                                                      *)
(***************************************************************************)
(* The save lifecycle keeps its shape. *)
LEMMA SaveSteps ==
    ASSUME NEW s \in Saves
    PROVE  /\ markEdited(s) \in Saves /\ beginSave(s) \in Saves
           /\ \A kind \in Failed : resolveSaveFailure(s, kind) \in Saves
           /\ \A gen, version \in Nat : resolveSaveSuccess(s, gen, version) \in Saves
<1>1. s.gen + 1 \in Nat /\ s.gen \in Nat /\ s.kept \in Nat /\ s.saving \in BOOLEAN
  BY DEF Saves
<1>2. markEdited(s) \in Saves
  BY <1>1 DEF markEdited, Saves
<1>3. beginSave(s) \in Saves /\ \A kind \in Failed : resolveSaveFailure(s, kind) \in Saves
  BY DEF beginSave, resolveSaveFailure, Saves
<1>4. ASSUME NEW gen \in Nat, NEW version \in Nat PROVE resolveSaveSuccess(s, gen, version) \in Saves
  <2>1. (IF gen > s.kept THEN gen ELSE s.kept) \in Nat
    BY <1>1
  <2>2. ASSUME NEW kept \in Nat
        PROVE  [s EXCEPT !.saving = FALSE, !.ver = version, !.kept = kept,
                         !.phase = IF s.gen # kept THEN "unsaved" ELSE "saved"] \in Saves
    BY DEF Saves
  <2> QED
    BY <2>1, <2>2 DEF resolveSaveSuccess
<1> QED
  BY <1>2, <1>3, <1>4

(* Drawing and replacing the drawing. *)
LEMMA DrawSteps ==
    ASSUME NEW e \in Eds, NEW d \in Good
    PROVE  Run(e, d) \in Eds /\ Reset(e, d) \in Eds
<1>0. e.past \in Seq(Good) /\ e.doc \in Good /\ e.save \in Saves
  BY DEF Eds
<1>1. Trim(Append(e.past, e.doc)) \in Seq(Good)
  BY <1>0, Stacks
<1>2. <<>> \in Seq(Good)
  OBVIOUS
<1>3. markEdited(e.save) \in Saves
  BY <1>0, SaveSteps
<1>4. Run(e, d) \in Eds
  BY <1>1, <1>2, <1>3 DEF Run, Eds
<1>5. Reset(e, d) \in Eds
  BY <1>2 DEF Reset, Eds
<1> QED
  BY <1>4, <1>5

(* Undo and redo move documents between the canvas and the stacks. *)
LEMMA HistoryTypes ==
    ASSUME TypeInv, doUndo \/ doRedo
    PROVE  ed' \in Eds
<1>t. ed \in Eds /\ ed.doc \in Good /\ ed.past \in Seq(Good) /\ ed.future \in Seq(Good) /\ ed.save \in Saves
  BY DEF TypeInv, Eds
<1>m. \A e \in Eds : [e EXCEPT !.save = markEdited(@)] \in Eds
  BY SaveSteps DEF Eds
<1>1. CASE doUndo
  <2>1. CASE ed.past = <<>>
    BY <1>1, <1>m, <1>t, <2>1 DEF doUndo
  <2>2. CASE ed.past # <<>>
    <3> DEFINE n == IF Len(ed.future) < MaxHistory THEN Len(ed.future) + 1 ELSE MaxHistory
    <3>1. Len(ed.future) \in Nat /\ MaxHistory \in Nat
      BY <1>t DEF BoundsAssumption
    <3>2. n = 0 \/ n \in 1..(Len(ed.future) + 1)
      BY <3>1
    <3>3. SubSeq(<<ed.doc>> \o ed.future, 1, n) \in Seq(Good)
      <4>1. CASE n = 0
        BY <1>t, <4>1
      <4> QED
        BY <1>t, <3>2, <4>1, Stacks
    <3>4. Front(ed.past) \in Seq(Good) /\ Last(ed.past) \in Good
      BY <1>t, <2>2, Stacks
    <3> HIDE DEF n
    <3>5. [ed EXCEPT !.past = Front(ed.past), !.doc = Last(ed.past),
                     !.future = SubSeq(<<ed.doc>> \o ed.future, 1, n)] \in Eds
      BY <1>t, <3>3, <3>4 DEF Eds
    <3> QED
      BY <1>1, <1>m, <2>2, <3>5 DEF doUndo, n
  <2> QED
    BY <2>1, <2>2
<1>2. CASE doRedo
  <2>1. CASE ed.future = <<>>
    BY <1>2, <1>m, <1>t, <2>1 DEF doRedo
  <2>2. CASE ed.future # <<>>
    <3>1. Trim(Append(ed.past, ed.doc)) \in Seq(Good) /\ Head(ed.future) \in Good /\ Tail(ed.future) \in Seq(Good)
      BY <1>t, <2>2, Stacks
    <3>2. [ed EXCEPT !.past = Trim(Append(ed.past, ed.doc)), !.doc = Head(ed.future),
                     !.future = Tail(ed.future)] \in Eds
      BY <1>t, <3>1 DEF Eds
    <3> QED
      BY <1>2, <1>m, <2>2, <3>2 DEF doRedo
  <2> QED
    BY <2>1, <2>2
<1> QED
  BY <1>1, <1>2

(* A step of the sketch editor alone. *)
LEMMA EditorStep ==
    ASSUME TypeInv, UNCHANGED <<office, ws, op, poll>>, ed' \in Eds, puts' \in SUBSET Puts,
           get' \in Gets, hist' \in Hists, hist'.stored = hist.stored
    PROVE  TypeStep
BY DEF TypeInv, TypeStep, AnswerStored

(* A step that puts a value of the sketch in the worksheet's draft. *)
LEMMA DraftStep ==
    ASSUME TypeInv, NEW v \in Values, ws' = DraftTakes(v), op' = Overtaken, hist' = Typed,
           ed' \in Eds, UNCHANGED <<office, poll, puts, get>>
    PROVE  TypeStep
<1>1. ws' \in Forms
  BY DEF TypeInv, Forms, DraftTakes
<1>2. op' \in Ops /\ (op' = op \/ op' = [op EXCEPT !.mine = FALSE])
  BY DEF TypeInv, Ops, Overtaken
<1>3. hist' \in Hists /\ hist'.stored = hist.stored
  BY TypedHist DEF TypeInv
<1> QED
  BY <1>1, <1>2, <1>3 DEF TypeInv, TypeStep, AnswerStored, Ops

LEMMA SketchUserTypes ==
    ASSUME TypeInv, SketchUser
    PROVE  TypeStep
<1>t. /\ ed \in Eds /\ ed.doc \in Good /\ ed.save \in Saves /\ ed.session \in Sessions /\ ed.shape \in Values
      /\ ed.pre \in [doc : Good, save : Saves]
      /\ ws \in Forms /\ ws.val \in Values /\ puts \in SUBSET Puts /\ get \in Gets /\ hist \in Hists
  BY DEF TypeInv, Eds, Forms
<1>h. Act \in Hists /\ Act.stored = hist.stored
  BY <1>t, HistSteps
<1>c. Closed \in Eds /\ NoGet \in Gets /\ Closed.pre \in [doc : Good, save : Saves]
  BY <1>t, EmptyThings DEF Eds
<1>z. 0 \in Values /\ EmptyDoc \in Good /\ EmptyDoc \in Docs
  BY <1>t, GoodDocs DEF Values, BoundsAssumption, Good
<1>g. \A kind \in {"load", "reload"} : getSketch(kind) => get' \in Gets
  BY DEF TypeInv, Offices, getSketch, Gets
<1>u. ASSUME Unmount PROVE ed' \in Eds /\ puts' \in SUBSET Puts /\ get' \in Gets
  <2>1. \A p \in Puts : [p EXCEPT !.live = FALSE] \in Puts
    BY DEF Puts
  <2> QED
    BY <1>c, <1>t, <1>u, <2>1 DEF Unmount
<1>d. ASSUME doSave PROVE puts' \in SUBSET Puts /\ hist' = Act
  <2>1. [doc |-> ed.doc, gen |-> ed.save.gen, ver |-> ed.save.ver,
         st |-> "sent", res |-> "none", live |-> TRUE] \in Puts
    BY <1>t DEF Puts, Saves
  <2> QED
    BY <1>d, <1>t, <2>1 DEF doSave
<1>r. \A s \in Sessions, a, b \in Values : recordEditorChange(s, a, b) \in Sessions
  BY DEF recordEditorChange, Sessions
<1>1. CASE OpenEditor
  <2>1. ed' \in Eds
    BY <1>1, <1>c DEF OpenEditor, Eds
  <2>2. hist' \in Hists /\ hist'.stored = hist.stored
    BY <1>1, <1>h, <1>z DEF OpenEditor, Hists
  <2> QED
    BY <1>1, <1>g, <1>t, <2>1, <2>2, EditorStep DEF OpenEditor
<1>2. ASSUME NEW g \in Values, edit(g) PROVE TypeStep
  <2>1. [ed.doc EXCEPT !.geo = g] \in Good
    BY <1>t, GoodDocs
  <2>2. ed' \in Eds
    BY <1>2, <1>t, <2>1, DrawSteps DEF edit
  <2> QED
    BY <1>2, <1>h, <1>t, <2>2, EditorStep DEF edit
<1>3. CASE doUndo \/ doRedo
  BY <1>3, <1>h, <1>t, HistoryTypes, EditorStep DEF doUndo, doRedo
<1>4. CASE reloadServer
  BY <1>4, <1>g, <1>t, EditorStep DEF reloadServer
<1>5. CASE Save
  <2>1. ed' \in Eds
    BY <1>5, <1>t, SaveSteps DEF Save, Eds
  <2> QED
    BY <1>5, <1>d, <1>h, <1>t, <2>1, EditorStep DEF Save
<1>6. CASE acceptProposal
  <2>1. ed.doc.geo \in Values /\ [ed.doc EXCEPT !.dec = [st |-> "pending", val |-> ed.doc.geo]] \in Good
    BY <1>t, GoodDocs
  <2>2. Run(ed, [ed.doc EXCEPT !.dec = [st |-> "pending", val |-> ed.doc.geo]]) \in Eds
    BY <1>t, <2>1, DrawSteps
  <2>3. ed' \in Eds
    BY <1>6, <1>r, <1>t, <2>1, <2>2 DEF acceptProposal, Eds
  <2> QED
    BY <1>6, <2>1, <2>3, DraftStep DEF acceptProposal
<1>7. CASE keepProposal
  <2>1. [ed.doc EXCEPT !.dec = [st |-> "keep", val |-> 0]] \in Good
    BY <1>t, <1>z, GoodDocs
  <2>2. ed' \in Eds
    BY <1>7, <1>t, <2>1, DrawSteps DEF keepProposal
  <2> QED
    BY <1>7, <1>h, <1>t, <2>2, EditorStep DEF keepProposal
<1>8. CASE applyPending
  <2>1. ed.doc.dec.val \in Values
    BY <1>t, GoodDocs
  <2>2. ed' \in Eds
    BY <1>8, <1>r, <1>t, <2>1 DEF applyPending, Eds
  <2> QED
    BY <1>8, <2>1, <2>2, DraftStep DEF applyPending
<1>9. CASE generateProposed
  <2>1. (IF generateSketchGeometry # 0 THEN [EmptyDoc EXCEPT !.geo = generateSketchGeometry] ELSE ed.doc) \in Good
    BY <1>t, GoodDocs DEF generateSketchGeometry
  <2>2. ed' \in Eds
    BY <1>9, <1>t, <2>1 DEF generateProposed, generateSketchGeometry, Eds
  <2> QED
    BY <1>9, <1>t, <2>2, EditorStep DEF generateProposed
<1>10. CASE useProposed
  <2>1. Reset(ed, [EmptyDoc EXCEPT !.geo = ed.shape]) \in Eds
    BY <1>t, GoodDocs, DrawSteps
  <2>2. ed' \in Eds
    BY <1>10, <1>c, <1>t, <1>z, <2>1, SaveSteps DEF useProposed, Eds
  <2> QED
    BY <1>10, <1>h, <1>t, <2>2, EditorStep DEF useProposed
<1>11. CASE cancelProposed
  <2>1. Reset(ed, ed.pre.doc) \in Eds /\ ed.pre.save \in Saves
    BY <1>t, DrawSteps
  <2>2. Cancelled(ed) \in Eds
    BY <2>1 DEF Cancelled, Eds
  <2>3. ed' \in Eds
    BY <1>11, <1>c, <1>z, <2>2 DEF cancelProposed, Eds
  <2> QED
    BY <1>11, <1>t, <2>3, EditorStep DEF cancelProposed
<1>12. CASE regenerateProposed
  <2>1. ed' \in Eds
    BY <1>12, <1>t DEF regenerateProposed, generateSketchGeometry, Eds
  <2> QED
    BY <1>12, <1>t, <2>1, EditorStep DEF regenerateProposed
<1>13. CASE regenKeepCurrent
  <2>1. ed' \in Eds
    BY <1>13, <1>t, <1>z DEF regenKeepCurrent, Eds
  <2> QED
    BY <1>13, <1>t, <2>1, EditorStep DEF regenKeepCurrent
<1>14. CASE regenUseProposed
  <2>1. Reset(ed, [EmptyDoc EXCEPT !.geo = ed.shape]) \in Eds
    BY <1>t, GoodDocs, DrawSteps
  <2>2. markEdited(ed.save) \in Saves
    BY <1>t, SaveSteps
  <2>3. [Reset(ed, [EmptyDoc EXCEPT !.geo = ed.shape]) EXCEPT
            !.save = markEdited(ed.save), !.proposal = "none", !.shape = 0] \in Eds
    BY <1>z, <2>1, <2>2 DEF Eds
  <2>4. [ed EXCEPT !.proposal = "confirm"] \in Eds
    BY <1>t DEF Eds
  <2>5. ed' \in Eds
    BY <1>14, <2>3, <2>4 DEF regenUseProposed
  <2> QED
    BY <1>14, <1>h, <1>t, <2>5, EditorStep DEF regenUseProposed
<1>15. CASE requestClose
  <2>1. [ed EXCEPT !.confirm = TRUE] \in Eds
    BY <1>t DEF Eds
  <2> QED
    BY <1>15, <1>t, <1>u, <2>1, EditorStep DEF requestClose
<1>16. CASE continueEditing
  <2>1. ed' \in Eds
    BY <1>16, <1>t DEF continueEditing, Eds
  <2> QED
    BY <1>16, <1>t, <2>1, EditorStep DEF continueEditing
<1>17. CASE discardAndClose
  <2>0. ed.session.orig \in Values
    BY <1>t DEF Sessions
  <2>1. ws' \in Forms
    BY <1>17, <1>t, <2>0 DEF discardAndClose, Forms
  <2>2. hist' \in Hists /\ hist'.stored = hist.stored
    <3>1. (hist.safe \/ ed.session.on) \in BOOLEAN
      OBVIOUS
    <3> QED
      BY <1>17, <1>t, <3>1 DEF discardAndClose, Hists
  <2> QED
    BY <1>17, <1>u, <2>1, <2>2 DEF discardAndClose, TypeInv, TypeStep, AnswerStored
<1>18. CASE saveAndClose
  <2>1. ed' \in Eds
    BY <1>18, <1>t, SaveSteps DEF saveAndClose, Eds
  <2> QED
    BY <1>18, <1>d, <1>h, <1>t, <2>1, EditorStep DEF saveAndClose
<1> QED
  BY <1>1, <1>2, <1>3, <1>4, <1>5, <1>6, <1>7, <1>8, <1>9, <1>10, <1>11, <1>12, <1>13, <1>14,
     <1>15, <1>16, <1>17, <1>18 DEF SketchUser

LEMMA SketchWireTypes ==
    ASSUME TypeInv, SketchWire
    PROVE  TypeStep
<1>t. /\ ed \in Eds /\ ed.save \in Saves /\ puts \in SUBSET Puts /\ get \in Gets /\ hist \in Hists
      /\ get.sk.ver \in Nat /\ get.sk.doc \in Good
  BY DEF TypeInv, Eds, Gets, Sks
<1>c. Closed \in Eds /\ NoGet \in Gets /\ initSaveState(get.sk.ver) \in Saves
  BY <1>t, EmptyThings
<1>1. CASE GetAnswered
  <2>1. Reset(ed, get.sk.doc) \in Eds
    BY <1>t, DrawSteps
  <2>a. /\ [Reset(ed, get.sk.doc) EXCEPT !.loading = FALSE, !.save = initSaveState(get.sk.ver)] \in Eds
        /\ [Reset(ed, get.sk.doc) EXCEPT !.save = initSaveState(get.sk.ver), !.conflict = FALSE] \in Eds
        /\ [ed EXCEPT !.conflict = FALSE] \in Eds
    BY <1>c, <1>t, <2>1 DEF Eds
  <2>2. ed' \in Eds
    BY <1>1, <2>a DEF GetAnswered, adoptServerVersion
  <2>3. hist' \in Hists /\ hist'.stored = hist.stored
    BY <1>1, <1>t DEF GetAnswered, Hists, Good
  <2> QED
    BY <1>1, <1>c, <1>t, <2>2, <2>3, EditorStep DEF GetAnswered
<1>2. CASE put_sketch
  <2>1. PICK p \in puts :
           /\ \/ /\ office' = [office EXCEPT !.sk = [ver |-> @.ver + 1, doc |-> p.doc]]
                 /\ puts' = (puts \ {p}) \cup {[p EXCEPT !.st = "done", !.res = "ok", !.ver = office.sk.ver + 1]}
                 /\ hist' = [hist EXCEPT !.ownSk = @ \cup {office.sk.ver + 1}]
              \/ /\ \E r \in {"conflict", "locked"} :
                        puts' = (puts \ {p}) \cup {[p EXCEPT !.st = "done", !.res = r]}
                 /\ UNCHANGED <<office, hist>>
           /\ UNCHANGED <<ws, op, poll, ed, get>>
    BY <1>2 DEF put_sketch
  <2>2. office \in Offices /\ office.sk.ver + 1 \in Nat /\ p \in Puts /\ p.doc \in Good
    BY <1>t DEF TypeInv, Offices, Sks, Puts
  <2>3. CASE /\ office' = [office EXCEPT !.sk = [ver |-> @.ver + 1, doc |-> p.doc]]
             /\ puts' = (puts \ {p}) \cup {[p EXCEPT !.st = "done", !.res = "ok", !.ver = office.sk.ver + 1]}
             /\ hist' = [hist EXCEPT !.ownSk = @ \cup {office.sk.ver + 1}]
    <3>1. office' \in Offices
      BY <2>2, <2>3 DEF Offices, Sks
    <3>2. [p EXCEPT !.st = "done", !.res = "ok", !.ver = office.sk.ver + 1] \in Puts
      BY <2>2 DEF Puts
    <3>3. hist.ownSk \cup {office.sk.ver + 1} \in SUBSET Nat
      BY <1>t, <2>2 DEF Hists
    <3>4. hist' \in Hists /\ hist'.stored = hist.stored
      BY <1>t, <2>3, <3>3 DEF Hists
    <3> QED
      BY <1>t, <2>1, <2>3, <3>1, <3>2, <3>4 DEF TypeInv, TypeStep, AnswerStored
  <2>4. ASSUME NEW r \in {"conflict", "locked"}
        PROVE  [p EXCEPT !.st = "done", !.res = r] \in Puts
    BY <2>2 DEF Puts
  <2> QED
    BY <1>t, <2>1, <2>3, <2>4 DEF TypeInv, TypeStep, AnswerStored
<1>3. CASE PutAnswered
  <2>1. PICK p \in puts :
           /\ p.st = "done" /\ puts' = puts \ {p}
           /\ \/ /\ \/ ed' = Closed
                    \/ ed' = [Applied(p) EXCEPT !.closing = FALSE]
                 /\ hist' = [hist EXCEPT !.disk = IF p.res = "ok" THEN p.doc ELSE @]
              \/ UNCHANGED <<ed, hist>>
           /\ UNCHANGED <<office, ws, op, poll, get>>
    BY <1>3 DEF PutAnswered
  <2>2. p \in Puts /\ p.doc \in Docs /\ p.gen \in Nat /\ p.ver \in Nat
        /\ p.res \in {"none", "ok", "conflict", "locked", "error"}
    BY <1>t DEF Puts, Good
  <2>3. /\ resolveSaveSuccess(ed.save, p.gen, p.ver) \in Saves
        /\ \A kind \in Failed : resolveSaveFailure(ed.save, kind) \in Saves
    BY <1>t, <2>2, SaveSteps
  <2>4. p.res # "none" => Applied(p) \in Eds
    BY <1>t, <2>2, <2>3 DEF Applied, Failed, Eds
  <2>5. p.res # "none"
    BY <2>1, <2>2 DEF Puts
  <2>6. ed' \in Eds
    BY <1>c, <1>t, <2>1, <2>4, <2>5 DEF Eds
  <2>7. hist' \in Hists /\ hist'.stored = hist.stored
    BY <1>t, <2>1, <2>2 DEF Hists
  <2> QED
    BY <1>t, <2>1, <2>6, <2>7, EditorStep
<1> QED
  BY <1>1, <1>2, <1>3 DEF SketchWire

LEMMA FaultTypes ==
    ASSUME TypeInv, Faults
    PROVE  TypeStep
<1>t. /\ op \in Ops /\ ed \in Eds /\ puts \in SUBSET Puts /\ get \in Gets /\ hist \in Hists
      /\ NoRev \in Revs /\ NoPoll \in Polls /\ NoGet \in Gets
  BY EmptyThings DEF TypeInv
<1>h. Event \in Hists /\ Event.stored = hist.stored
  BY <1>t, HistSteps
<1>1. CASE OpFails
  <2>1. op' = [op EXCEPT !.st = "done", !.res = "error", !.rev = NoRev]
    BY <1>1 DEF OpFails
  <2>2. op' \in Ops /\ op'.kind = op.kind /\ op'.res = "error"
    BY <1>t, <2>1 DEF Ops
  <2> QED
    BY <1>1, <1>h, <2>2 DEF OpFails, TypeInv, TypeStep, AnswerStored
<1>2. CASE PollFails
  BY <1>2, <1>h, <1>t DEF PollFails, TypeInv, TypeStep, AnswerStored
<1>3. CASE GetFails
  <2>1. ed' \in Eds
    BY <1>3, <1>t DEF GetFails, Eds
  <2> QED
    BY <1>3, <1>h, <1>t, <2>1, EditorStep DEF GetFails
<1>4. CASE PutFails
  <2>1. \A p \in Puts : [p EXCEPT !.st = "done", !.res = "error"] \in Puts
    BY DEF Puts
  <2> QED
    BY <1>4, <1>h, <1>t, <2>1, EditorStep DEF PutFails
<1> QED
  BY <1>1, <1>2, <1>3, <1>4 DEF Faults

LEMMA OthersTypes ==
    ASSUME TypeInv, Others
    PROVE  TypeStep
<1>t. /\ office \in Offices /\ hist \in Hists /\ office.sk.ver + 1 \in Nat /\ office.tok + 1 \in Nat
      /\ office.hid + 1 \in Nat /\ office.editable \in BOOLEAN
  BY DEF TypeInv, Offices, Sks
<1>h. Event \in Hists /\ Event.stored = hist.stored
  BY <1>t, HistSteps
<1>o. Others /\ office' \in Offices => TypeStep
  BY <1>h DEF Others, FieldMeasures, OtherStatus, FieldSketches, TypeInv, TypeStep, AnswerStored
<1>1. CASE FieldMeasures
  <2>1. \/ \E v \in Values : office' = [office EXCEPT !.tok = @ + 1, !.val = v]
        \/ office' = [office EXCEPT !.tok = @ + 1, !.hid = @ + 1]
    BY <1>1 DEF FieldMeasures
  <2>2. office' \in Offices
    BY <1>t, <2>1 DEF Offices
  <2> QED
    BY <1>o, <2>2
<1>2. CASE OtherStatus
  <2>1. office' = [office EXCEPT !.tok = @ + 1, !.editable = ~@]
    BY <1>2 DEF OtherStatus
  <2>2. office' \in Offices
    BY <1>t, <2>1 DEF Offices
  <2> QED
    BY <1>o, <2>2
<1>3. CASE FieldSketches
  <2>1. PICK g \in Values : office' = [office EXCEPT !.sk.ver = @ + 1, !.sk.doc.geo = g]
    BY <1>3 DEF FieldSketches
  <2>2. office.sk \in Sks /\ [office.sk.doc EXCEPT !.geo = g] \in Good
    BY <1>t, GoodDocs DEF Offices, Sks
  <2>3. office' \in Offices
    BY <1>t, <2>1, <2>2 DEF Offices, Sks
  <2> QED
    BY <1>o, <2>3
<1> QED
  BY <1>1, <1>2, <1>3 DEF Others

LEMMA NextTypes == TypeInv /\ [Next]_vars => TypeInv'
<1> SUFFICES ASSUME TypeInv, [Next]_vars PROVE TypeInv'
  OBVIOUS
<1>1. CASE UNCHANGED vars
  <2>1. TypeStep
    BY <1>1 DEF vars, TypeInv, TypeStep, AnswerStored
  <2> QED
    BY <2>1, TypeLift
<1>2. CASE Next
  BY <1>2, WorksheetUserTypes, WireTypes, PollingTypes, SketchUserTypes, SketchWireTypes, FaultTypes,
     OthersTypes, TypeLift DEF Next
<1> QED
  BY <1>1, <1>2

(* Whatever the schedule and the bounds, the records of the desk keep their   *)
(* shapes, and every document anywhere - on the server, on the canvas, on the *)
(* undo stacks, on the wire - is accepted only for a value that was stored.   *)
THEOREM TypeCorrect == Spec => []TypeInv
<1>1. Init => TypeInv
  BY InitTypes
<1>2. TypeInv /\ [Next]_vars => TypeInv'
  BY NextTypes
<1> QED
  BY <1>1, <1>2, PTL DEF Spec

(* proposalLifecycle's core rule: a decision reads `accepted' on the server   *)
(* only for a value that a save of the worksheet stored in the measurement.   *)
THEOREM AcceptedOnlyWhenStored == Spec => []AcceptedWasStored
<1>1. TypeInv => AcceptedWasStored
  BY DEF TypeInv, Offices, Sks, Good, AcceptedWasStored
<1> QED
  BY <1>1, TypeCorrect, PTL

(***************************************************************************)
(* The user's newest value.  The draft may lose its `mine' mark only when  *)
(* the form is replaced: by the answer of a save that carried the value,   *)
(* by the user's choice, or by a refresh of a form without changes.  So    *)
(* the invariant follows the value through the request in progress.        *)
(***************************************************************************)
Kept == hist.safe \/ hist.late

TypedInv ==
    /\ Kept \/ ws.mine
    /\ ws.dirty \/ Kept
    /\ op.kind \in {"save", "keep"} => op.mine \/ Kept
    /\ op.kind \in {"save", "keep"} /\ op.res = "ok" => Kept

(* What the desk remembers of the value, unchanged. *)
LEMMA TypedSame ==
    ASSUME TypedInv, UNCHANGED <<ws, op>>, hist'.safe = hist.safe, hist'.late = hist.late
    PROVE  TypedInv'
BY DEF TypedInv, Kept

(* A value enters the draft. *)
LEMMA TypedDraft ==
    ASSUME TypeInv, TypedInv, ws'.dirty = TRUE, ws'.mine = TRUE, op' = Overtaken, hist' = Typed
    PROVE  TypedInv'
<1>1. hist'.safe = FALSE /\ hist'.late = (op.kind # "none")
  BY DEF TypeInv, Hists, Typed, Act
<1>2. op'.kind = op.kind
  BY DEF TypeInv, Ops, Overtaken
<1> QED
  BY <1>1, <1>2 DEF TypedInv, Kept

LEMMA TypedStep ==
    ASSUME TypeInv, TypedInv, [Next]_vars
    PROVE  TypedInv'
<1>t. ws \in Forms /\ op \in Ops /\ hist \in Hists
  BY DEF TypeInv
<1>a. Act.safe = hist.safe /\ Act.late = hist.late
  BY <1>t DEF Act, Hists
<1>e. Event.safe = hist.safe /\ Event.late = hist.late
  BY <1>t DEF Event, Hists
<1>n. NoOp.kind = "none"
  BY DEF NoOp
<1>1. CASE UNCHANGED vars
  BY <1>1, TypedSame DEF vars
<1>2. CASE WorksheetUser
  <2>1. ASSUME NEW v \in Values, setRow(v) PROVE TypedInv'
    <3>1. ws'.dirty = TRUE /\ ws'.mine = TRUE
      BY <1>t, <2>1 DEF setRow, Forms
    <3> QED
      BY <2>1, <3>1, TypedDraft DEF setRow
  <2>2. ASSUME NEW kind, NEW body, NEW mine, Ask(kind, body, mine)
        PROVE  /\ op'.kind = kind /\ op'.mine = mine /\ op'.res = "none"
               /\ hist'.safe = hist.safe /\ hist'.late = hist.late
    BY <1>a, <2>2 DEF Ask, NoOp
  <2>r. ASSUME NEW kind \in {"load", "status"}, NEW body, Ask(kind, body, FALSE)
        PROVE  op'.kind = kind /\ hist'.safe = hist.safe /\ hist'.late = hist.late
    BY <1>a, <2>r DEF Ask, NoOp
  <2>3. CASE save
    BY <2>2, <2>3 DEF save, TypedInv, Kept
  <2>4. CASE keepMyVersion
    BY <2>2, <2>4 DEF keepMyVersion, TypedInv, Kept
  <2>5. CASE useLatestVersion
    <3>1. CASE /\ op.kind = "none" /\ hist' = [hist EXCEPT !.safe = TRUE] /\ UNCHANGED op
      <4>1. hist'.safe = TRUE
        BY <1>t, <3>1 DEF Hists
      <4> QED
        BY <3>1, <4>1 DEF TypedInv, Kept
    <3>2. CASE Ask("load", NoRev, FALSE) /\ UNCHANGED ws
      BY <2>r, <3>2 DEF TypedInv, Kept
    <3> QED
      BY <2>5, <3>1, <3>2 DEF useLatestVersion
  <2>6. CASE loadRemoteLatest
    BY <2>6, <2>r DEF loadRemoteLatest, TypedInv, Kept
  <2>7. CASE dismissRemote
    BY <1>t, <2>7 DEF dismissRemote, Forms, TypedInv, Kept
  <2>8. CASE changeStatus
    BY <2>8, <2>r DEF changeStatus, TypedInv, Kept
  <2> QED
    BY <1>2, <2>1, <2>3, <2>4, <2>5, <2>6, <2>7, <2>8 DEF WorksheetUser
<1>3. CASE Wire
  <2>1. CASE replace_revision
    <3>1. CASE /\ \/ op' = [op EXCEPT !.st = "done", !.res = "conflict", !.rev = ServerRev]
                  \/ op' = [op EXCEPT !.st = "done", !.res = "conflict"]
               /\ UNCHANGED hist
      <4>1. op'.kind = op.kind /\ op'.mine = op.mine /\ op'.res = "conflict"
        BY <1>t, <3>1 DEF Ops
      <4> QED
        BY <2>1, <3>1, <4>1 DEF replace_revision, TypedInv, Kept
    <3>2. CASE /\ op' = [op EXCEPT !.st = "done", !.res = "ok",
                                  !.rev = [op.body EXCEPT !.tok = office.tok + 1, !.editable = TRUE]]
               /\ hist' = [hist EXCEPT !.safe = @ \/ op.mine, !.stored = @ \cup {op.body.val},
                                       !.ownRev = @ \cup {office.tok + 1}]
      <4>1. hist'.safe = (hist.safe \/ op.mine) /\ hist'.late = hist.late
        BY <1>t, <3>2 DEF Hists
      <4>2. op'.kind = op.kind /\ op'.mine = op.mine
        BY <1>t, <3>2 DEF Ops
      <4> QED
        BY <2>1, <4>1, <4>2 DEF replace_revision, TypedInv, Kept
    <3> QED
      BY <2>1, <3>1, <3>2 DEF replace_revision
  <2>2. CASE change_status
    <3>1. op'.kind = "status"
      BY <1>t, <2>2 DEF change_status, Ops
    <3> QED
      BY <2>2, <3>1 DEF change_status, TypedInv, Kept
  <2>3. CASE get_revision
    <3>1. op'.kind = "load"
      BY <1>t, <2>3 DEF get_revision, Ops
    <3> QED
      BY <2>3, <3>1 DEF get_revision, TypedInv, Kept
  <2>4. CASE SaveAnswered
    <3>1. CASE op.res = "ok"
      <4>1. op'.kind = "finalize"
        BY <2>4, <3>1 DEF SaveAnswered, NoOp
      <4> QED
        BY <2>4, <3>1, <4>1 DEF SaveAnswered, TypedInv, Kept
    <3>2. CASE op.res # "ok"
      <4>1. ws'.dirty = ws.dirty /\ ws'.mine = ws.mine /\ op' = NoOp
        BY <1>t, <2>4, <3>2 DEF SaveAnswered, Forms
      <4> QED
        BY <1>n, <2>4, <4>1 DEF SaveAnswered, TypedInv, Kept
    <3> QED
      BY <3>1, <3>2
  <2>5. CASE LoadAnswered
    <3>1. CASE hist' = [hist EXCEPT !.safe = TRUE]
      <4>1. hist'.safe = TRUE
        BY <1>t, <3>1 DEF Hists
      <4> QED
        BY <1>n, <2>5, <4>1 DEF LoadAnswered, TypedInv, Kept
    <3>2. CASE UNCHANGED <<ws, hist>>
      BY <1>n, <2>5, <3>2 DEF LoadAnswered, TypedInv, Kept
    <3> QED
      BY <2>5, <3>1, <3>2 DEF LoadAnswered
  <2>6. CASE FinalizeRead
    <3>1. op'.kind \notin {"save", "keep"}
      BY <1>n, <1>t, <2>6 DEF FinalizeRead, Ops
    <3> QED
      BY <1>e, <2>6, <3>1 DEF FinalizeRead, TypedInv, Kept
  <2>7. CASE FinalizeSave
    BY <1>e, <1>n, <2>7 DEF FinalizeSave, TypedInv, Kept
  <2> QED
    BY <1>3, <2>1, <2>2, <2>3, <2>4, <2>5, <2>6, <2>7 DEF Wire
<1>4. CASE Polling
  <2>1. CASE PollRead
    BY <2>1, TypedSame DEF PollRead
  <2>2. CASE checkRemote
    <3>1. (ws'.mine = ws.mine /\ ws'.dirty = ws.dirty) \/ ~ws.dirty
      BY <1>t, <2>2 DEF checkRemote, Adopted, Forms
    <3> QED
      BY <2>2, <3>1 DEF checkRemote, TypedInv, Kept
  <2> QED
    BY <1>4, <2>1, <2>2 DEF Polling
<1>5. CASE SketchUser
  <2>1. CASE acceptProposal \/ applyPending
    <3>1. ws'.dirty = TRUE /\ ws'.mine = TRUE
      BY <1>t, <2>1 DEF acceptProposal, applyPending, DraftTakes, Forms
    <3> QED
      BY <2>1, <3>1, TypedDraft DEF acceptProposal, applyPending
  <2>2. CASE discardAndClose
    <3>1. ws'.mine = ws.mine /\ ws'.dirty = ws.dirty
      BY <1>t, <2>2 DEF discardAndClose, Forms
    <3>2. hist'.safe = (hist.safe \/ ed.session.on) /\ hist'.late = hist.late
      BY <1>t, <2>2 DEF discardAndClose, Hists
    <3> QED
      BY <2>2, <3>1, <3>2 DEF discardAndClose, TypedInv, Kept
  <2>3. CASE OpenEditor
    <3>1. hist' = [Act EXCEPT !.disk = EmptyDoc]
      BY <2>3 DEF OpenEditor
    <3>2. hist'.safe = hist.safe /\ hist'.late = hist.late
      BY <1>t, <3>1 DEF Act, Hists
    <3> QED
      BY <2>3, <3>2, TypedSame DEF OpenEditor
  <2>4. CASE ~(acceptProposal \/ applyPending \/ discardAndClose \/ OpenEditor)
    <3>1. UNCHANGED <<ws, op>> /\ hist' \in {hist, Act}
      BY <1>5, <2>4 DEF SketchUser, edit, doUndo, doRedo, reloadServer, Save, doSave, keepProposal,
         generateProposed, useProposed, cancelProposed, regenerateProposed, regenKeepCurrent,
         regenUseProposed, requestClose, continueEditing, saveAndClose
    <3> QED
      BY <1>a, <3>1, TypedSame
  <2> QED
    BY <2>1, <2>2, <2>3, <2>4
<1>6. CASE SketchWire
  <2>1. UNCHANGED <<ws, op>> /\ hist'.safe = hist.safe /\ hist'.late = hist.late
    BY <1>6, <1>t DEF SketchWire, GetAnswered, put_sketch, PutAnswered, Hists
  <2> QED
    BY <2>1, TypedSame
<1>7. CASE Faults
  <2>1. CASE OpFails
    <3>1. op'.kind = op.kind /\ op'.mine = op.mine /\ op'.res = "error"
      BY <1>t, <2>1 DEF OpFails, Ops
    <3> QED
      BY <1>e, <2>1, <3>1 DEF OpFails, TypedInv, Kept
  <2>2. CASE PollFails \/ GetFails \/ PutFails
    BY <1>e, <2>2, TypedSame DEF PollFails, GetFails, PutFails
  <2> QED
    BY <1>7, <2>1, <2>2 DEF Faults
<1>8. CASE Others
  BY <1>8, <1>e, TypedSame DEF Others, FieldMeasures, OtherStatus, FieldSketches
<1> QED
  BY <1>1, <1>2, <1>3, <1>4, <1>5, <1>6, <1>7, <1>8 DEF Next

(* The newest value the user put in the worksheet's draft is in the draft, on *)
(* the server, or was given up by a choice of the user.                       *)
THEOREM NothingLost == Spec => []NothingTypedIsLost
<1>1. Init => TypedInv
  BY DEF Init, TypedInv, Kept, NoOp
<1>2. TypeInv /\ TypedInv /\ [Next]_vars => TypedInv'
  BY TypedStep
<1>3. TypedInv => NothingTypedIsLost
  BY DEF TypedInv, Kept, NothingTypedIsLost
<1> QED
  BY <1>1, <1>2, <1>3, TypeCorrect, PTL DEF Spec

(***************************************************************************)
(* The worksheet as a SharedDraft.  Every copy of the revision the desk    *)
(* holds is one the server had: it is not newer than the server's, and     *)
(* with the server's token it has the server's hidden values.  A save in   *)
(* flight was started from the loaded revision or from the one shown.      *)
(***************************************************************************)
Held == {ws.rev, ws.server, op.body, op.rev, poll.rev}

Fits(r) == r.tok <= office.tok /\ (r.tok = office.tok => r.hid = office.hid)

DeskInv ==
    /\ office.tok > 0
    /\ \A r \in Held : Fits(r)
    /\ \A r \in {ws.server, op.rev} : r.tok = 0 => r = NoRev
    /\ op.kind = "save" => ws.dirty /\ op.body.tok = ws.rev.tok
    /\ op.kind = "keep" => op.body.tok = ws.server.tok /\ ws.server.tok # 0
    /\ op.kind \in {"save", "keep"} /\ op.res = "ok" => op.rev.tok \in hist.ownRev

(* What every step of the desk does: it keeps the invariant, it is a step of  *)
(* SharedDraft, and it never takes the hidden values back.                    *)
DeskStep ==
    /\ DeskInv'
    /\ [WorksheetDraft!Next]_(WorksheetDraft!sdvars)
    /\ office'.hid >= office.hid

(* The numbers the steps below reckon with. *)
LEMMA Tokens ==
    ASSUME TypeInv
    PROVE  /\ office.tok \in Nat /\ office.hid \in Nat
           /\ \A r \in Held : r.tok \in Nat /\ r.hid \in Nat
           /\ ServerRev.tok = office.tok /\ ServerRev.hid = office.hid
           /\ NoRev.tok = 0 /\ ws.dirty \in BOOLEAN
BY DEF TypeInv, Offices, Forms, Ops, Polls, Revs, Held, ServerRev, NoRev

(* Nothing of the worksheet's record moves. *)
LEMMA DeskSame ==
    ASSUME TypeInv, DeskInv, office'.tok = office.tok, office'.hid = office.hid, op' = op, poll' = poll,
           ws'.rev = ws.rev, ws'.server = ws.server, ws'.dirty = ws.dirty, hist'.ownRev = hist.ownRev
    PROVE  DeskStep
<1>1. DeskInv'
  BY DEF DeskInv, Held, Fits
<1>2. UNCHANGED WorksheetDraft!sdvars
  BY DEF WorksheetDraft!sdvars
<1> QED
  BY <1>1, <1>2, Tokens DEF DeskStep

(* Only the request or the poll moves, and carries revisions that fit. *)
LEMMA DeskCarries ==
    ASSUME TypeInv, DeskInv, office'.tok = office.tok, office'.hid = office.hid,
           ws'.rev = ws.rev, ws'.server = ws.server, ws'.dirty = ws.dirty, hist'.ownRev = hist.ownRev,
           \A r \in {op'.body, op'.rev, poll'.rev} : Fits(r),
           op'.rev.tok = 0 => op'.rev = NoRev,
           op'.kind = "save" => ws.dirty /\ op'.body.tok = ws.rev.tok,
           op'.kind = "keep" => op'.body.tok = ws.server.tok /\ ws.server.tok # 0,
           op'.kind \in {"save", "keep"} /\ op'.res = "ok" => op'.rev.tok \in hist.ownRev
    PROVE  DeskStep
<1>1. DeskInv'
  BY DEF DeskInv, Held, Fits
<1>2. UNCHANGED WorksheetDraft!sdvars
  BY DEF WorksheetDraft!sdvars
<1> QED
  BY <1>1, <1>2, Tokens DEF DeskStep

(* Somebody else's step: a new token. *)
LEMMA DeskForeign ==
    ASSUME TypeInv, DeskInv, office'.tok = office.tok + 1, office'.hid >= office.hid,
           UNCHANGED <<ws, op, poll>>, hist'.ownRev = hist.ownRev
    PROVE  DeskStep
<1>1. DeskInv'
  BY Tokens DEF DeskInv, Held, Fits
<1>2. WorksheetDraft!Foreign
  BY DEF WorksheetDraft!Foreign
<1> QED
  BY <1>1, <1>2 DEF DeskStep, WorksheetDraft!Next

(* A value enters the draft. *)
LEMMA DeskEdit ==
    ASSUME TypeInv, DeskInv, office' = office, poll' = poll, op' = Overtaken, hist' = Typed,
           ws'.rev = ws.rev, ws'.server = ws.server, ws'.dirty = TRUE
    PROVE  DeskStep
<1>1. op'.kind = op.kind /\ op'.body = op.body /\ op'.rev = op.rev /\ op'.res = op.res
  BY DEF TypeInv, Ops, Overtaken
<1>2. hist'.ownRev = hist.ownRev
  BY DEF TypeInv, Hists, Typed, Act
<1>3. DeskInv'
  BY <1>1, <1>2 DEF DeskInv, Held, Fits
<1>4. WorksheetDraft!Edit
  BY <1>2 DEF WorksheetDraft!Edit
<1> QED
  BY <1>3, <1>4, Tokens DEF DeskStep, WorksheetDraft!Next

(* The form is replaced by a copy that fits. *)
LEMMA DeskAdopt ==
    ASSUME TypeInv, DeskInv, office' = office, hist'.ownRev = hist.ownRev,
           NEW r, Fits(r), r.tok \in Nat, ws'.rev = r, ws'.dirty = FALSE,
           ws'.server \in {ws.server, NoRev},
           op' \in {op, NoOp}, poll' \in {poll, NoPoll}, op'.kind \notin {"save", "keep"}
    PROVE  DeskStep
<1>1. Fits(NoRev) /\ NoOp.rev = NoRev /\ NoOp.body = NoRev /\ NoPoll.rev = NoRev
  BY Tokens DEF DeskInv, Fits, NoOp, NoPoll
<1>2. \A x \in Held' : Fits(x)
  BY <1>1 DEF DeskInv, Held
<1>3. DeskInv'
  BY <1>1, <1>2 DEF DeskInv, Fits
<1>4. WorksheetDraft!Adopt
  <2>1. ws'.rev.tok \in 0..office.tok /\ ws'.server.tok \in 0..office.tok
    BY <1>1, Tokens DEF DeskInv, Held, Fits
  <2> QED
    BY <2>1 DEF WorksheetDraft!Adopt
<1> QED
  BY <1>3, <1>4, Tokens DEF DeskStep, WorksheetDraft!Next

LEMMA WorksheetUserDesk ==
    ASSUME TypeInv, DeskInv, WorksheetUser
    PROVE  DeskStep
<1>t. ws \in Forms /\ hist \in Hists /\ ws.rev \in Revs /\ ws.server \in Revs
  BY DEF TypeInv, Forms
<1>f. Fits(ws.rev) /\ Fits(ws.server) /\ Fits(poll.rev) /\ Fits(NoRev) /\ NoOp.rev = NoRev
  BY Tokens DEF DeskInv, Held, Fits, NoOp
<1>1. ASSUME NEW v \in Values, setRow(v) PROVE DeskStep
  <2>1. ws'.rev = ws.rev /\ ws'.server = ws.server /\ ws'.dirty = TRUE
    BY <1>1, <1>t DEF setRow, Forms
  <2> QED
    BY <1>1, <2>1, DeskEdit DEF setRow
<1>2. ASSUME NEW kind, NEW body, NEW mine \in BOOLEAN, Ask(kind, body, mine), UNCHANGED <<office, ws, poll>>,
             Fits(body), kind = "save" => ws.dirty /\ body.tok = ws.rev.tok,
             kind = "keep" => body.tok = ws.server.tok /\ ws.server.tok # 0
      PROVE  DeskStep
  <2>1. op'.kind = kind /\ op'.body = body /\ op'.rev = NoRev /\ op'.res = "none"
    BY <1>2 DEF Ask, NoOp
  <2>2. hist'.ownRev = hist.ownRev
    BY <1>2, <1>t DEF Ask, Act, Hists
  <2> QED
    BY <1>2, <1>f, <2>1, <2>2, DeskCarries
<1>3. CASE save
  <2>1. buildEditablePayload.tok = ws.rev.tok /\ Fits(buildEditablePayload)
    BY <1>f, <1>t DEF buildEditablePayload, Revs, Fits
  <2> QED
    BY <1>2, <1>3, <1>t, <2>1 DEF save, Forms
<1>4. CASE keepMyVersion
  <2>1. buildRebasePayload.tok = ws.server.tok /\ Fits(buildRebasePayload)
    BY <1>f, <1>t DEF buildRebasePayload, Revs, Fits
  <2>2. ws.server.tok # 0
    BY <1>4 DEF keepMyVersion, DeskInv
  <2> QED
    BY <1>2, <1>4, <1>t, <2>1, <2>2 DEF keepMyVersion, Forms
<1>5. CASE useLatestVersion
  <2>1. CASE /\ op.kind = "none" /\ hist' = [hist EXCEPT !.safe = TRUE] /\ UNCHANGED op
             /\ ws' = [Installed(ws.server) EXCEPT !.review = FALSE, !.server = NoRev]
    <3>1. ws'.rev = ws.server /\ ws'.dirty = FALSE /\ ws'.server = NoRev
      BY <1>t, <2>1 DEF Installed, Forms
    <3>2. hist'.ownRev = hist.ownRev
      BY <1>t, <2>1 DEF Hists
    <3>3. ws.server.tok \in Nat
      BY <1>t DEF Revs
    <3> QED
      BY <1>5, <1>f, <2>1, <3>1, <3>2, <3>3, DeskAdopt DEF useLatestVersion
  <2>2. CASE Ask("load", NoRev, FALSE) /\ UNCHANGED ws
    BY <1>2, <1>5, <1>f, <2>2 DEF useLatestVersion
  <2> QED
    BY <1>5, <2>1, <2>2 DEF useLatestVersion
<1>6. CASE loadRemoteLatest
  BY <1>2, <1>6, <1>f DEF loadRemoteLatest
<1>7. CASE dismissRemote
  <2>1. ws'.rev = ws.rev /\ ws'.server = ws.server /\ ws'.dirty = ws.dirty
    BY <1>7, <1>t DEF dismissRemote, Forms
  <2> QED
    BY <1>7, <2>1, DeskSame DEF dismissRemote
<1>8. CASE changeStatus
  <2>1. Fits([ws.rev EXCEPT !.editable = ~@])
    BY <1>f, <1>t DEF Revs, Fits
  <2> QED
    BY <1>2, <1>8, <2>1 DEF changeStatus
<1> QED
  BY <1>1, <1>3, <1>4, <1>5, <1>6, <1>7, <1>8 DEF WorksheetUser

LEMMA WireDesk ==
    ASSUME TypeInv, DeskInv, Wire
    PROVE  DeskStep
<1>t. office \in Offices /\ ws \in Forms /\ op \in Ops /\ hist \in Hists /\ op.body \in Revs /\ op.rev \in Revs
  BY DEF TypeInv, Ops
<1>f. /\ Fits(ws.rev) /\ Fits(ws.server) /\ Fits(poll.rev) /\ Fits(op.body) /\ Fits(op.rev) /\ Fits(NoRev)
      /\ Fits(ServerRev) /\ ServerRev.tok # 0
  BY Tokens DEF DeskInv, Held, Fits
<1>n. NoOp.kind = "none" /\ NoOp.body = NoRev /\ NoOp.rev = NoRev /\ NoOp.res = "none"
  BY DEF NoOp
<1>e. Event.ownRev = hist.ownRev
  BY <1>t DEF Event, Hists
<1>1. CASE replace_revision
  <2>1. CASE /\ \/ op' = [op EXCEPT !.st = "done", !.res = "conflict", !.rev = ServerRev]
                \/ op' = [op EXCEPT !.st = "done", !.res = "conflict"]
             /\ UNCHANGED <<office, hist>>
    <3>1. op'.kind = op.kind /\ op'.body = op.body /\ op'.res = "conflict" /\ op'.rev \in {op.rev, ServerRev}
      BY <1>t, <2>1 DEF Ops
    <3>2. op'.rev.tok = 0 => op'.rev = NoRev
      BY <1>f, <3>1 DEF DeskInv
    <3> QED
      BY <1>1, <1>f, <2>1, <3>1, <3>2, DeskCarries DEF replace_revision, DeskInv
  <2>2. CASE /\ ~token_conflict(op.body.tok)
             /\ office' = [office EXCEPT !.tok = @ + 1, !.val = op.body.val, !.hid = op.body.hid]
             /\ op' = [op EXCEPT !.st = "done", !.res = "ok",
                                 !.rev = [op.body EXCEPT !.tok = office.tok + 1, !.editable = TRUE]]
             /\ hist' = [hist EXCEPT !.safe = @ \/ op.mine, !.stored = @ \cup {op.body.val},
                                     !.ownRev = @ \cup {office.tok + 1}]
    <3>1. op.body.tok = office.tok /\ op.body.hid = office.hid
      BY <1>f, <2>2 DEF token_conflict, Fits
    <3>2. office'.tok = office.tok + 1 /\ office'.hid = office.hid
      BY <1>t, <2>2, <3>1 DEF Offices
    <3>3. op'.kind = op.kind /\ op'.body = op.body /\ op'.rev.tok = office.tok + 1 /\ op'.rev.hid = office.hid
      BY <1>t, <2>2, <3>1 DEF Ops, Revs
    <3>4. hist'.ownRev = hist.ownRev \cup {office.tok + 1}
      BY <1>t, <2>2 DEF Hists
    <3>5. UNCHANGED <<ws, poll>>
      BY <1>1 DEF replace_revision
    <3>6. DeskInv'
      BY <3>2, <3>3, <3>4, <3>5, Tokens DEF DeskInv, Held, Fits
    <3>7. op.kind \in {"save", "keep"}
      BY <1>1 DEF replace_revision
    <3>8. WorksheetDraft!Commit
      BY <3>1, <3>2, <3>4, <3>5, <3>7 DEF WorksheetDraft!Commit, DeskInv
    <3> QED
      BY <3>2, <3>6, <3>8, Tokens DEF DeskStep, WorksheetDraft!Next
  <2> QED
    BY <1>1, <2>1, <2>2 DEF replace_revision
<1>2. CASE change_status
  <2>k. op.kind = "status" /\ UNCHANGED <<ws, poll, hist>>
    BY <1>2 DEF change_status
  <2>1. CASE /\ office' = [office EXCEPT !.tok = @ + 1, !.editable = op.body.editable]
             /\ op' = [op EXCEPT !.st = "done", !.res = "ok",
                  !.rev = [ServerRev EXCEPT !.tok = office.tok + 1, !.editable = op.body.editable]]
    <3>1. office'.tok = office.tok + 1 /\ office'.hid = office.hid
      BY <1>t, <2>1 DEF Offices
    <3>2. op'.kind = "status" /\ op'.body = op.body /\ op'.rev.tok = office.tok + 1 /\ op'.rev.hid = office.hid
      BY <1>t, <2>1, <2>k DEF Ops, ServerRev
    <3>3. DeskInv'
      BY <2>k, <3>1, <3>2, Tokens DEF DeskInv, Held, Fits
    <3>4. WorksheetDraft!Foreign
      BY <2>k, <3>1 DEF WorksheetDraft!Foreign
    <3> QED
      BY <3>1, <3>3, <3>4, Tokens DEF DeskStep, WorksheetDraft!Next
  <2>2. CASE op' = [op EXCEPT !.st = "done", !.res = "error"] /\ UNCHANGED office
    <3>1. op'.kind = "status" /\ op'.body = op.body /\ op'.rev = op.rev
      BY <1>t, <2>2, <2>k DEF Ops
    <3> QED
      BY <1>f, <2>2, <2>k, <3>1, DeskCarries DEF DeskInv
  <2> QED
    BY <1>2, <2>1, <2>2 DEF change_status
<1>3. CASE get_revision
  <2>1. op'.kind = "load" /\ op'.body = op.body /\ op'.rev = ServerRev
    BY <1>3, <1>t DEF get_revision, Ops
  <2> QED
    BY <1>3, <1>f, <2>1, DeskCarries DEF get_revision
<1>4. CASE SaveAnswered
  <2>1. CASE op.res = "ok"
    <3>1. op'.kind = "finalize" /\ op'.body = NoRev /\ op'.rev = op.rev
      BY <1>4, <2>1 DEF SaveAnswered, NoOp
    <3>2. ws'.rev = op.rev /\ ws'.dirty = FALSE /\ ws'.server \in {NoRev, ws.server}
      BY <1>4, <1>t, <2>1 DEF SaveAnswered, Installed, Forms
    <3>3. UNCHANGED <<office, poll, hist>>
      BY <1>4 DEF SaveAnswered
    <3>4. DeskInv'
      BY <1>f, <3>1, <3>2, <3>3, Tokens DEF DeskInv, Held, Fits
    <3>5. op.rev.tok \in hist.ownRev
      BY <1>4, <2>1 DEF SaveAnswered, DeskInv
    <3>6. WorksheetDraft!Learn
      BY <3>2, <3>3, <3>5, Tokens DEF WorksheetDraft!Learn
    <3> QED
      BY <3>3, <3>4, <3>6, Tokens DEF DeskStep, WorksheetDraft!Next
  <2>2. CASE op.res = "conflict"
    <3>1. ws'.rev = ws.rev /\ ws'.dirty = ws.dirty /\ ws'.server = op.rev
      BY <1>4, <1>t, <2>2 DEF SaveAnswered, Forms
    <3>2. op' = NoOp /\ UNCHANGED <<office, poll, hist>>
      BY <1>4, <2>2 DEF SaveAnswered
    <3>3. DeskInv'
      BY <1>f, <1>n, <3>1, <3>2, Tokens DEF DeskInv, Held, Fits
    <3>4. WorksheetDraft!Refuse
      <4>1. op.rev.tok \in 0..office.tok
        BY <1>f, Tokens DEF Held, Fits
      <4> QED
        BY <3>1, <3>2, <4>1 DEF WorksheetDraft!Refuse
    <3> QED
      BY <3>2, <3>3, <3>4, Tokens DEF DeskStep, WorksheetDraft!Next
  <2>3. CASE op.res = "error"
    BY <1>4, <1>f, <1>n, <2>3, DeskCarries DEF SaveAnswered
  <2> QED
    BY <1>4, <2>1, <2>2, <2>3 DEF SaveAnswered
<1>5. CASE LoadAnswered
  <2>1. CASE op.res = "ok" /\ hist' = [hist EXCEPT !.safe = TRUE]
    <3>1. ws'.rev = op.rev /\ ws'.dirty = FALSE /\ ws'.server \in {NoRev, ws.server}
      BY <1>5, <1>t, <2>1 DEF LoadAnswered, Installed, Forms
    <3>2. hist'.ownRev = hist.ownRev /\ op.rev.tok \in Nat
      BY <1>t, <2>1 DEF Hists, Revs
    <3> QED
      BY <1>5, <1>f, <1>n, <3>1, <3>2, DeskAdopt DEF LoadAnswered
  <2>2. CASE UNCHANGED <<ws, hist>>
    BY <1>5, <1>f, <1>n, <2>2, DeskCarries DEF LoadAnswered
  <2> QED
    BY <1>5, <2>1, <2>2 DEF LoadAnswered
<1>6. CASE FinalizeRead
  <2>1. op' = NoOp \/ (op'.kind = "finalize" /\ op'.body = op.body /\ op'.rev = op.rev)
    BY <1>6, <1>t DEF FinalizeRead, Ops
  <2>2. UNCHANGED <<office, ws, poll>> /\ hist'.ownRev = hist.ownRev
    BY <1>6, <1>e DEF FinalizeRead
  <2> QED
    BY <1>f, <1>n, <2>1, <2>2, DeskCarries DEF DeskInv
<1>7. CASE FinalizeSave
  <2>1. office'.tok = office.tok /\ office'.hid = office.hid
    BY <1>7, <1>t DEF FinalizeSave, Offices
  <2>2. op' = NoOp /\ UNCHANGED <<ws, poll>> /\ hist'.ownRev = hist.ownRev
    BY <1>7, <1>e DEF FinalizeSave
  <2> QED
    BY <1>f, <1>n, <2>1, <2>2, DeskCarries DEF DeskInv
<1> QED
  BY <1>1, <1>2, <1>3, <1>4, <1>5, <1>6, <1>7 DEF Wire

LEMMA DeskInvStep ==
    ASSUME TypeInv, DeskInv, [Next]_vars
    PROVE  DeskStep
<1>t. office \in Offices /\ ws \in Forms /\ op \in Ops /\ hist \in Hists
  BY DEF TypeInv
<1>f. Fits(ServerRev) /\ Fits(NoRev) /\ Fits(op.body) /\ Fits(op.rev) /\ NoPoll.rev = NoRev
  BY Tokens DEF DeskInv, Held, Fits, NoPoll
<1>a. Act.ownRev = hist.ownRev /\ Event.ownRev = hist.ownRev
  BY <1>t DEF Act, Event, Hists
<1>1. CASE UNCHANGED vars
  BY <1>1, DeskSame DEF vars
<1>2. CASE WorksheetUser
  BY <1>2, WorksheetUserDesk
<1>3. CASE Wire
  BY <1>3, WireDesk
<1>4. CASE Polling
  <2>1. CASE PollRead
    <3>1. poll'.rev = ServerRev
      BY <2>1 DEF PollRead
    <3> QED
      BY <1>f, <2>1, <3>1, DeskCarries DEF PollRead, DeskInv
  <2>2. CASE checkRemote
    <3>1. UNCHANGED <<office, op, hist>> /\ poll' = NoPoll
      BY <2>2 DEF checkRemote
    <3>2. CASE ws'.rev = ws.rev /\ ws'.server = ws.server /\ ws'.dirty = ws.dirty
      BY <1>f, <3>1, <3>2, DeskCarries DEF DeskInv
    <3>3. CASE /\ ~ws.dirty /\ ~ws.review
               /\ ws'.rev = poll.rev /\ ws'.server = ws.server /\ ws'.dirty = FALSE
      <4>1. Fits(poll.rev) /\ poll.rev.tok \in Nat
        BY Tokens DEF DeskInv, Held
      <4>2. CASE op.kind # "keep"
        BY <3>1, <3>3, <4>1, <4>2, DeskAdopt DEF DeskInv
      <4>3. CASE op.kind = "keep"
        <5>1. DeskInv'
          BY <1>f, <3>1, <3>3, <4>1 DEF DeskInv, Held, Fits
        <5>2. WorksheetDraft!Adopt
          <6>1. ws'.rev.tok \in 0..office.tok /\ ws'.server.tok \in 0..office.tok
            BY <3>3, <4>1, Tokens DEF DeskInv, Held, Fits
          <6> QED
            BY <3>1, <3>3, <6>1 DEF WorksheetDraft!Adopt
        <5> QED
          BY <3>1, <5>1, <5>2, Tokens DEF DeskStep, WorksheetDraft!Next
      <4> QED
        BY <4>2, <4>3
    <3> QED
      BY <1>t, <2>2, <3>2, <3>3 DEF checkRemote, Adopted, Installed, Forms
  <2> QED
    BY <1>4, <2>1, <2>2 DEF Polling
<1>5. CASE SketchUser
  <2>1. CASE acceptProposal \/ applyPending
    <3>1. ws'.rev = ws.rev /\ ws'.server = ws.server /\ ws'.dirty = TRUE
      BY <1>t, <2>1 DEF acceptProposal, applyPending, DraftTakes, Forms
    <3> QED
      BY <2>1, <3>1, DeskEdit DEF acceptProposal, applyPending
  <2>2. CASE discardAndClose
    <3>1. ws'.rev = ws.rev /\ ws'.server = ws.server /\ ws'.dirty = ws.dirty
      BY <1>t, <2>2 DEF discardAndClose, Forms
    <3>2. hist'.ownRev = hist.ownRev
      BY <1>t, <2>2 DEF discardAndClose, Hists
    <3> QED
      BY <2>2, <3>1, <3>2, DeskSame DEF discardAndClose
  <2>3. CASE OpenEditor
    <3>1. hist' = [Act EXCEPT !.disk = EmptyDoc] /\ Act \in Hists
      BY <1>t, <2>3, HistSteps DEF OpenEditor
    <3>2. hist'.ownRev = hist.ownRev
      BY <1>a, <3>1 DEF Hists
    <3> QED
      BY <2>3, <3>2, DeskSame DEF OpenEditor
  <2>4. CASE ~(acceptProposal \/ applyPending \/ discardAndClose \/ OpenEditor)
    <3>1. UNCHANGED <<office, ws, op, poll>> /\ hist' \in {hist, Act}
      BY <1>5, <2>4 DEF SketchUser, edit, doUndo, doRedo, reloadServer, Save, doSave, keepProposal,
         generateProposed, useProposed, cancelProposed, regenerateProposed, regenKeepCurrent,
         regenUseProposed, requestClose, continueEditing, saveAndClose
    <3> QED
      BY <1>a, <3>1, DeskSame
  <2> QED
    BY <2>1, <2>2, <2>3, <2>4
<1>6. CASE SketchWire
  <2>1. UNCHANGED <<ws, op, poll>> /\ hist'.ownRev = hist.ownRev
    BY <1>6, <1>t DEF SketchWire, GetAnswered, put_sketch, PutAnswered, Hists
  <2>2. office'.tok = office.tok /\ office'.hid = office.hid
    BY <1>6, <1>t DEF SketchWire, GetAnswered, put_sketch, PutAnswered, Offices
  <2> QED
    BY <2>1, <2>2, DeskSame
<1>7. CASE Faults
  <2>1. CASE OpFails
    <3>1. op'.kind = op.kind /\ op'.body = op.body /\ op'.rev = NoRev /\ op'.res = "error"
      BY <1>t, <2>1 DEF OpFails, Ops
    <3> QED
      BY <1>a, <1>f, <2>1, <3>1, DeskCarries DEF OpFails, DeskInv, Held
  <2>2. CASE PollFails
    BY <1>a, <1>f, <2>2, DeskCarries DEF PollFails, DeskInv
  <2>3. CASE GetFails \/ PutFails
    BY <1>a, <2>3, DeskSame DEF GetFails, PutFails
  <2> QED
    BY <1>7, <2>1, <2>2, <2>3 DEF Faults
<1>8. CASE Others
  <2>1. CASE FieldMeasures
    <3>1. \/ \E v : office' = [office EXCEPT !.tok = @ + 1, !.val = v]
          \/ office' = [office EXCEPT !.tok = @ + 1, !.hid = @ + 1]
      BY <2>1 DEF FieldMeasures
    <3>2. office'.tok = office.tok + 1 /\ office'.hid \in {office.hid, office.hid + 1}
      BY <1>t, <3>1 DEF Offices
    <3>3. office'.hid >= office.hid
      BY <3>2, Tokens
    <3> QED
      BY <1>a, <2>1, <3>2, <3>3, DeskForeign DEF FieldMeasures
  <2>2. CASE OtherStatus
    <3>1. office'.tok = office.tok + 1 /\ office'.hid = office.hid
      BY <1>t, <2>2 DEF OtherStatus, Offices
    <3> QED
      BY <1>a, <2>2, <3>1, DeskForeign, Tokens DEF OtherStatus
  <2>3. CASE FieldSketches
    <3>1. office'.tok = office.tok /\ office'.hid = office.hid
      BY <1>t, <2>3 DEF FieldSketches, Offices
    <3> QED
      BY <1>a, <2>3, <3>1, DeskSame DEF FieldSketches
  <2> QED
    BY <1>8, <2>1, <2>2, <2>3 DEF Others
<1> QED
  BY <1>1, <1>2, <1>3, <1>4, <1>5, <1>6, <1>7, <1>8 DEF Next

LEMMA InitDesk == Init => DeskInv /\ WorksheetDraft!Init
BY DEF Init, DeskInv, Held, Fits, NoOp, NoPoll, NoRev, WorksheetDraft!Init

(* The worksheet implements SharedDraft: nobody's saved revision is replaced  *)
(* by a save of somebody who was not shown it.                                *)
THEOREM WorksheetImplementsSharedDraft == Spec => WorksheetNeverOverwritesUnseen
<1>1. Init => DeskInv /\ WorksheetDraft!Init
  BY InitDesk
<1>2. TypeInv /\ DeskInv /\ [Next]_vars => DeskInv' /\ [WorksheetDraft!Next]_(WorksheetDraft!sdvars)
  BY DeskInvStep DEF DeskStep
<1> QED
  BY <1>1, <1>2, TypeCorrect, PTL DEF Spec, WorksheetNeverOverwritesUnseen, WorksheetDraft!Spec

(* Neither a save nor Keep My Version takes the hidden values of the          *)
(* measurement, which the worksheet never edits, back to older ones.          *)
THEOREM HiddenKept == Spec => HiddenNeverReverts
<1>1. Init => DeskInv
  BY InitDesk
<1>2. TypeInv /\ DeskInv /\ [Next]_vars => DeskInv' /\ [office'.hid >= office.hid]_vars
  BY DeskInvStep DEF DeskStep
<1> QED
  BY <1>1, <1>2, TypeCorrect, PTL DEF Spec, HiddenNeverReverts

(***************************************************************************)
(* The sketch editor as a SharedDraft, when no request of the editor is    *)
(* started under a preview or while a load is on its way (the Windows).    *)
(* One save is on the wire at a time, it carries the version of the canvas *)
(* for as long as it is not answered, and no load and no preview can       *)
(* replace that version meanwhile.                                         *)
(***************************************************************************)
SketchInv ==
    /\ ed.save.kept <= ed.save.gen /\ ed.pre.save.kept <= ed.pre.save.gen
    /\ get.sk.ver <= office.sk.ver
    /\ ed.save.saving => ed.open /\ get.st = "none" /\ ~ed.conflict /\ ed.proposal # "preview"
    /\ ed.confirm => ed.open
    /\ ~ed.pre.save.saving /\ ed.pre.save.ver = 0
    /\ puts # {} => ed.save.saving
    /\ \A p, q \in puts : p = q
    /\ \A p \in puts : /\ p.live /\ p.gen <= ed.save.gen
                       /\ p.st = "sent" => p.ver = ed.save.ver
                       /\ p.res = "ok" => p.ver \in hist.ownSk

SketchStep ==
    /\ SketchInv'
    /\ [SketchDraft!Next]_(SketchDraft!sdvars)

(* The numbers and flags the steps below reckon with. *)
LEMMA SketchTypes ==
    ASSUME TypeInv
    PROVE  /\ office.sk.ver \in Nat /\ get.sk.ver \in Nat /\ ed.conflict \in BOOLEAN
           /\ ed.save \in Saves /\ ed.pre.save \in Saves
           /\ ed.save.gen \in Nat /\ ed.save.kept \in Nat /\ ed.save.ver \in Nat /\ ed.save.saving \in BOOLEAN
           /\ \A p \in puts : p.gen \in Nat /\ p.ver \in Nat
<1>1. office.sk \in Sks /\ get.sk \in Sks /\ ed.save \in Saves /\ ed.pre.save \in Saves /\ ed.conflict \in BOOLEAN
  BY DEF TypeInv, Offices, Gets, Eds
<1> QED
  BY <1>1 DEF TypeInv, Sks, Saves, Puts

(* What an edit and a request do to the save state. *)
LEMMA EditedParts ==
    ASSUME NEW s \in Saves
    PROVE  /\ markEdited(s).gen = s.gen + 1 /\ markEdited(s).kept = s.kept
           /\ markEdited(s).ver = s.ver /\ markEdited(s).saving = s.saving
BY DEF markEdited, Saves

LEMMA BegunParts ==
    ASSUME NEW s \in Saves
    PROVE  /\ beginSave(s).gen = s.gen /\ beginSave(s).kept = s.kept
           /\ beginSave(s).ver = s.ver /\ beginSave(s).saving = TRUE
BY DEF beginSave, Saves

(* The record and the save state stay. *)
LEMMA SketchSame ==
    ASSUME TypeInv, SketchInv, office'.sk.ver = office.sk.ver, hist'.ownSk = hist.ownSk, puts' = puts,
           get' = get \/ (get'.sk.ver <= office.sk.ver /\ (get'.st = "none" \/ ~ed.save.saving)),
           ed'.confirm => ed'.open, ed'.save = ed.save, ed'.pre = ed.pre, ed'.proposal = ed.proposal \/ ed'.proposal # "preview",
           ed'.conflict = ed.conflict \/ ed'.conflict = FALSE, ed'.open = ed.open
    PROVE  SketchStep
<1>1. SketchInv'
  BY SketchTypes DEF SketchInv
<1>2. UNCHANGED SketchDraft!sdvars
  BY DEF SketchDraft!sdvars, isDirty
<1> QED
  BY <1>1, <1>2 DEF SketchStep

(* The drawing changes: a new generation. *)
LEMMA SketchEdit ==
    ASSUME TypeInv, SketchInv, office' = office, hist'.ownSk = hist.ownSk, puts' = puts, get' = get,
           ed'.confirm => ed'.open, ed'.save = markEdited(ed.save), ed'.pre \in {ed.pre, Closed.pre},
           ed'.proposal = ed.proposal \/ ed'.proposal # "preview", ed'.conflict = ed.conflict,
           ed'.open = ed.open
    PROVE  SketchStep
<1>1. /\ ed'.save.gen = ed.save.gen + 1 /\ ed'.save.kept = ed.save.kept
      /\ ed'.save.ver = ed.save.ver /\ ed'.save.saving = ed.save.saving
  <2>1. ed.save \in Saves
    BY SketchTypes
  <2> QED
    BY <2>1, EditedParts
<1>2. ed'.pre.save.kept <= ed'.pre.save.gen /\ ~ed'.pre.save.saving /\ ed'.pre.save.ver = 0
  BY DEF SketchInv, Closed, initSaveState
<1>3. SketchInv'
  BY <1>1, <1>2, SketchTypes DEF SketchInv
<1>4. SketchDraft!Edit
  <2>1. ed'.save.gen # ed'.save.kept
    BY <1>1, SketchTypes DEF SketchInv
  <2> QED
    BY <1>1, <2>1 DEF SketchDraft!Edit, isDirty
<1> QED
  BY <1>3, <1>4 DEF SketchStep, SketchDraft!Next

(* The canvas takes a version of the server; nothing is on the wire. *)
LEMMA SketchAdopt ==
    ASSUME TypeInv, SketchInv, office' = office, hist'.ownSk = hist.ownSk, puts' = {},
           get'.sk.ver <= office.sk.ver, NEW v \in Nat, v <= office.sk.ver,
           ed'.confirm => ed'.open, ed'.save = initSaveState(v), ed'.pre \in {ed.pre, Closed.pre}
    PROVE  SketchStep
<1>1. ed'.save.gen = 0 /\ ed'.save.kept = 0 /\ ed'.save.ver = v /\ ed'.save.saving = FALSE
  BY DEF initSaveState
<1>2. ed'.pre.save.kept <= ed'.pre.save.gen /\ ~ed'.pre.save.saving /\ ed'.pre.save.ver = 0
  BY DEF SketchInv, Closed, initSaveState
<1>3. SketchInv'
  BY <1>1, <1>2 DEF SketchInv
<1>4. SketchDraft!Adopt
  BY <1>1, SketchTypes DEF SketchDraft!Adopt, isDirty
<1> QED
  BY <1>3, <1>4 DEF SketchStep, SketchDraft!Next

(* Somebody else's version of the sketch. *)
LEMMA SketchForeign ==
    ASSUME TypeInv, SketchInv, office'.sk.ver = office.sk.ver + 1, hist'.ownSk = hist.ownSk,
           UNCHANGED <<ed, puts, get>>
    PROVE  SketchStep
<1>1. SketchInv'
  BY SketchTypes DEF SketchInv
<1>2. SketchDraft!Foreign
  BY DEF SketchDraft!Foreign
<1> QED
  BY <1>1, <1>2 DEF SketchStep, SketchDraft!Next

(* A save is put on the wire. *)
LEMMA SketchSends ==
    ASSUME TypeInv, SketchInv, Windows = {}, doSave, ed.open, office' = office, get' = get,
           ed' = [ed EXCEPT !.save = beginSave(ed.save), !.conflict = FALSE]
                 \/ ed' = [ed EXCEPT !.closing = TRUE, !.save = beginSave(ed.save), !.conflict = FALSE]
    PROVE  SketchStep
<1>1. /\ ed'.save = beginSave(ed.save) /\ ed'.conflict = FALSE /\ ed'.open = ed.open /\ ed'.pre = ed.pre
      /\ ed'.proposal = ed.proposal /\ ed'.confirm = ed.confirm
  BY DEF TypeInv, Eds
<1>2. /\ ed'.save.gen = ed.save.gen /\ ed'.save.kept = ed.save.kept
      /\ ed'.save.ver = ed.save.ver /\ ed'.save.saving = TRUE
  <2>1. ed.save \in Saves
    BY SketchTypes
  <2> QED
    BY <1>1, <2>1, BegunParts
<1>3. ~ed.save.saving /\ ed.proposal # "preview" /\ get.st = "none" /\ puts = {}
  BY DEF doSave, SketchInv
<1>4. puts' = {[doc |-> ed.doc, gen |-> ed.save.gen, ver |-> ed.save.ver,
                st |-> "sent", res |-> "none", live |-> TRUE]}
  BY <1>3 DEF doSave
<1>5. hist'.ownSk = hist.ownSk
  BY DEF doSave, Act, TypeInv, Hists
<1>6. SketchInv'
  BY <1>1, <1>2, <1>3, <1>4, <1>5, SketchTypes DEF SketchInv
<1>7. UNCHANGED SketchDraft!sdvars
  BY <1>2, <1>5 DEF SketchDraft!sdvars, isDirty
<1> QED
  BY <1>6, <1>7 DEF SketchStep

(* The editor is unmounted while nothing is on the wire. *)
LEMMA SketchUnmount ==
    ASSUME TypeInv, SketchInv, Unmount, ~ed.save.saving, office' = office, hist'.ownSk = hist.ownSk
    PROVE  SketchStep
<1>1. puts' = {} /\ get' = NoGet /\ ed' = Closed
  BY DEF Unmount, SketchInv
<1>2. get'.sk.ver = 0 /\ ~ed'.confirm /\ ed'.save = initSaveState(0) /\ ed'.pre = Closed.pre
  BY <1>1 DEF NoGet, NoSk, Closed
<1> QED
  BY <1>1, <1>2, SketchTypes, SketchAdopt

(* A budget is spent. *)
LEMMA SketchHists ==
    ASSUME TypeInv
    PROVE  Act.ownSk = hist.ownSk /\ Event.ownSk = hist.ownSk /\ Typed.ownSk = hist.ownSk
BY DEF Act, Event, Typed, TypeInv, Hists

LEMMA SketchDrawn ==
    ASSUME TypeInv, SketchInv,
           (\E g \in Values : edit(g)) \/ keepProposal \/ acceptProposal \/ doUndo \/ doRedo
    PROVE  SketchStep
<1>1. /\ ed'.save = markEdited(ed.save) /\ ed'.pre = ed.pre /\ ed'.proposal = ed.proposal
      /\ ed'.conflict = ed.conflict /\ ed'.open = ed.open /\ ed'.confirm = ed.confirm
  <2>0. ed \in Eds
    BY DEF TypeInv
  <2>1. CASE (\E g \in Values : edit(g)) \/ keepProposal
    BY <2>0, <2>1 DEF edit, keepProposal, Run, Eds
  <2>2. CASE acceptProposal
    BY <2>0, <2>2 DEF acceptProposal, Run, Eds
  <2>3. CASE doUndo
    BY <2>0, <2>3 DEF doUndo, Eds
  <2>4. CASE doRedo
    BY <2>0, <2>4 DEF doRedo, Eds
  <2> QED
    BY <2>1, <2>2, <2>3, <2>4
<1>2. office' = office /\ puts' = puts /\ get' = get /\ hist'.ownSk = hist.ownSk
  BY SketchHists DEF edit, keepProposal, acceptProposal, doUndo, doRedo
<1>3. ed'.confirm => ed'.open
  BY <1>1 DEF SketchInv
<1> QED
  BY <1>1, <1>2, <1>3, SketchEdit

LEMMA SketchUserSteps ==
    ASSUME TypeInv, SketchInv, Windows = {}, SketchUser
    PROVE  SketchStep
<1>t. ed \in Eds /\ get.sk.ver \in Nat /\ office.sk.ver \in Nat
  BY SketchTypes DEF TypeInv
<1>i. (ed.confirm => ed.open) /\ (~ed.save.saving => puts = {})
  BY DEF SketchInv
<1>1. CASE OpenEditor
  <2>1. hist'.ownSk = hist.ownSk
    <3>1. Act \in Hists /\ hist' = [Act EXCEPT !.disk = EmptyDoc]
      BY <1>1, HistSteps DEF OpenEditor, TypeInv
    <3> QED
      BY <3>1, SketchHists DEF Hists
  <2>2. ed'.save = initSaveState(0) /\ ed'.pre = Closed.pre /\ ~ed'.confirm
    BY <1>1 DEF OpenEditor, Closed
  <2>3. puts' = {} /\ office' = office
    BY <1>1 DEF OpenEditor, SketchInv
  <2>4. get'.sk.ver <= office.sk.ver
    BY <1>1, <1>t DEF OpenEditor, getSketch
  <2> QED
    BY <1>t, <2>1, <2>2, <2>3, <2>4, SketchAdopt
<1>2. CASE (\E g \in Values : edit(g)) \/ keepProposal \/ acceptProposal \/ doUndo \/ doRedo
  BY <1>2, SketchDrawn
<1>3. CASE applyPending \/ regenerateProposed \/ regenKeepCurrent \/ continueEditing
  <2>1. /\ ed'.save = ed.save /\ ed'.pre = ed.pre /\ ed'.conflict = ed.conflict /\ ed'.open = ed.open
        /\ ed'.proposal = ed.proposal \/ ed'.proposal # "preview"
        /\ ed'.confirm = ed.confirm \/ ed'.confirm = FALSE
    BY <1>3, <1>t DEF applyPending, regenerateProposed, regenKeepCurrent, continueEditing, Eds
  <2>2. office' = office /\ puts' = puts /\ get' = get /\ hist'.ownSk = hist.ownSk
    BY <1>3, SketchHists DEF applyPending, regenerateProposed, regenKeepCurrent, continueEditing
  <2> QED
    BY <1>i, <2>1, <2>2, SketchSame
<1>4. CASE reloadServer
  <2>1. ~ed.save.saving /\ ed' = ed /\ UNCHANGED <<office, puts, hist>>
    BY <1>4 DEF reloadServer, SketchInv
  <2>2. get'.sk.ver <= office.sk.ver
    BY <1>4, <1>t DEF reloadServer, getSketch
  <2> QED
    BY <1>i, <2>1, <2>2, SketchSame
<1>5. CASE Save
  BY <1>5, SketchSends DEF Save
<1>6. CASE saveAndClose
  BY <1>6, <1>i, SketchSends DEF saveAndClose
<1>7. CASE generateProposed
  <2>1. ~ed.save.saving /\ get.st = "none" /\ ed.save.ver = 0
    BY <1>7 DEF generateProposed
  <2>2. /\ ed'.save = ed.save /\ ed'.pre.save = ed.save /\ ed'.conflict = ed.conflict
        /\ ed'.open = ed.open /\ ed'.confirm = ed.confirm
    BY <1>7, <1>t DEF generateProposed, Eds
  <2>3. UNCHANGED <<office, puts, get, hist>>
    BY <1>7 DEF generateProposed
  <2>4. SketchInv'
    BY <2>1, <2>2, <2>3 DEF SketchInv
  <2> QED
    BY <2>2, <2>3, <2>4 DEF SketchStep, SketchDraft!sdvars, isDirty
<1>8. CASE useProposed
  <2>1. /\ ed'.save = markEdited(ed.save) /\ ed'.pre = Closed.pre /\ ed'.proposal = "none"
        /\ ed'.conflict = ed.conflict /\ ed'.open = ed.open /\ ed'.confirm = ed.confirm
    BY <1>8, <1>t DEF useProposed, Reset, Eds
  <2>2. office' = office /\ puts' = puts /\ get' = get /\ hist'.ownSk = hist.ownSk
    BY <1>8, SketchHists DEF useProposed
  <2> QED
    BY <1>i, <2>1, <2>2, SketchEdit
<1>9. CASE cancelProposed
  <2>1. /\ ed'.save = ed.pre.save /\ ed'.pre = Closed.pre /\ ed'.proposal = "none"
        /\ ed'.conflict = ed.conflict /\ ed'.open = ed.open /\ ed'.confirm = ed.confirm
    BY <1>9, <1>t DEF cancelProposed, Cancelled, Reset, Eds
  <2>2. UNCHANGED <<office, puts, get, hist>> /\ puts = {}
    BY <1>9, <1>i DEF cancelProposed, SketchInv
  <2>3. ed'.pre.save.kept <= ed'.pre.save.gen /\ ~ed'.pre.save.saving /\ ed'.pre.save.ver = 0
    BY <2>1 DEF Closed, initSaveState
  <2>4. SketchInv'
    BY <1>i, <2>1, <2>2, <2>3 DEF SketchInv
  <2>5. SketchDraft!Forget
    BY <2>1, <2>2, SketchTypes DEF SketchDraft!Forget, SketchInv, isDirty
  <2> QED
    BY <2>4, <2>5 DEF SketchStep, SketchDraft!Next
<1>10. CASE regenUseProposed
  <2>1. office' = office /\ puts' = puts /\ get' = get /\ hist'.ownSk = hist.ownSk
    BY <1>10, SketchHists DEF regenUseProposed
  <2>2. /\ ed'.pre = ed.pre /\ ed'.proposal # "preview" /\ ed'.conflict = ed.conflict
        /\ ed'.open = ed.open /\ ed'.confirm = ed.confirm
        /\ ed'.save = ed.save \/ ed'.save = markEdited(ed.save)
    BY <1>10, <1>t DEF regenUseProposed, Reset, Eds
  <2>3. CASE ed'.save = ed.save
    BY <1>i, <2>1, <2>2, <2>3, SketchSame
  <2>4. CASE ed'.save = markEdited(ed.save)
    BY <1>i, <2>1, <2>2, <2>4, SketchEdit
  <2> QED
    BY <2>2, <2>3, <2>4
<1>11. CASE requestClose
  <2>1. CASE ed' = [ed EXCEPT !.confirm = TRUE] /\ UNCHANGED <<puts, get>>
    <3>1. /\ ed'.save = ed.save /\ ed'.pre = ed.pre /\ ed'.conflict = ed.conflict /\ ed'.open = ed.open
          /\ ed'.proposal = ed.proposal /\ ed.open
      BY <1>11, <1>t, <2>1 DEF requestClose, Eds
    <3>2. UNCHANGED <<office, hist>>
      BY <1>11 DEF requestClose
    <3> QED
      BY <2>1, <3>1, <3>2, SketchSame
  <2>2. CASE Unmount
    BY <1>11, <2>2, SketchUnmount DEF requestClose
  <2> QED
    BY <1>11, <2>1, <2>2 DEF requestClose
<1>12. CASE discardAndClose
  <2>1. hist'.ownSk = hist.ownSk
    BY <1>12 DEF discardAndClose, TypeInv, Hists
  <2> QED
    BY <1>12, <2>1, SketchUnmount DEF discardAndClose
<1> QED
  BY <1>1, <1>2, <1>3, <1>4, <1>5, <1>6, <1>7, <1>8, <1>9, <1>10, <1>11, <1>12 DEF SketchUser

(* The wire answers the editor.  There is at most one save, and it carries the *)
(* version of the canvas until it is answered.                                 *)
LEMMA SketchWireSteps ==
    ASSUME TypeInv, SketchInv, SketchWire
    PROVE  SketchStep
<1>t. ed \in Eds /\ hist \in Hists /\ get.sk.ver \in Nat /\ office.sk.ver \in Nat
  BY SketchTypes DEF TypeInv
<1>i. /\ (ed.confirm => ed.open) /\ (~ed.save.saving => puts = {}) /\ get.sk.ver <= office.sk.ver
      /\ get.st # "none" => ~ed.save.saving
  BY DEF SketchInv
<1>1. CASE GetAnswered
  <2>1. /\ get' = NoGet /\ get'.st = "none" /\ get'.sk.ver = 0 /\ office' = office
        /\ puts' = puts /\ puts = {} /\ ~ed.save.saving /\ hist'.ownSk = hist.ownSk
    BY <1>1, <1>t, <1>i DEF GetAnswered, NoGet, NoSk, Hists
  <2>2. CASE get.kind = "reload" /\ get.sk.ver = 0
    <3>1. /\ ed'.save = ed.save /\ ed'.pre = ed.pre /\ ed'.conflict = FALSE /\ ed'.open = ed.open
          /\ ed'.proposal = ed.proposal /\ ed'.confirm = ed.confirm
      BY <1>1, <1>t, <2>2 DEF GetAnswered, Eds
    <3>2. get'.sk.ver <= office.sk.ver /\ office'.sk.ver = office.sk.ver /\ (ed'.confirm => ed'.open)
      BY <1>i, <1>t, <2>1, <3>1
    <3> QED
      BY <2>1, <3>1, <3>2, SketchSame
  <2>3. CASE ~(get.kind = "reload" /\ get.sk.ver = 0)
    <3>1. /\ ed'.save = initSaveState(get.sk.ver) /\ ed'.pre = ed.pre /\ ed'.open = ed.open
          /\ ed'.confirm = ed.confirm
      BY <1>1, <1>t, <2>3 DEF GetAnswered, Reset, adoptServerVersion, Eds
    <3> QED
      BY <1>i, <1>t, <2>1, <3>1, SketchAdopt
  <2> QED
    BY <2>2, <2>3
<1>2. CASE put_sketch
  <2>1. PICK p \in puts :
            /\ p.st = "sent" /\ UNCHANGED <<ed, get>>
            /\ \/ /\ office.editable /\ save_sketch(p.ver)
                  /\ office' = [office EXCEPT !.sk = [ver |-> @.ver + 1, doc |-> p.doc]]
                  /\ puts' = (puts \ {p})
                       \cup {[p EXCEPT !.st = "done", !.res = "ok", !.ver = office.sk.ver + 1]}
                  /\ hist' = [hist EXCEPT !.ownSk = @ \cup {office.sk.ver + 1}]
               \/ /\ ~(office.editable /\ save_sketch(p.ver)) /\ UNCHANGED <<office, hist>>
                  /\ \E k \in {"conflict", "locked"} :
                        puts' = (puts \ {p}) \cup {[p EXCEPT !.st = "done", !.res = k]}
    BY <1>2 DEF put_sketch
  <2>2. /\ puts = {p} /\ p \in Puts /\ p.ver = ed.save.ver /\ p.live /\ p.gen <= ed.save.gen /\ ed.save.saving
        /\ UNCHANGED <<ed, get>>
    BY <2>1 DEF SketchInv, TypeInv
  <2>3. CASE office.editable /\ save_sketch(p.ver)
    <3>1. /\ office.sk.ver = ed.save.ver /\ office'.sk.ver = office.sk.ver + 1
          /\ hist'.ownSk = hist.ownSk \cup {office.sk.ver + 1}
          /\ puts' = {[p EXCEPT !.st = "done", !.res = "ok", !.ver = office.sk.ver + 1]}
      BY <1>t, <2>1, <2>2, <2>3 DEF save_sketch, TypeInv, Offices, Sks, Hists
    <3>2. \A q \in puts' : q.live /\ q.gen <= ed.save.gen /\ q.st = "done" /\ q.ver \in hist'.ownSk
      BY <2>2, <3>1 DEF Puts
    <3>3. SketchInv'
      <4>1. get'.sk.ver <= office'.sk.ver
        BY <1>t, <1>i, <2>2, <3>1
      <4>2. \A q, r \in puts' : q = r
        BY <3>1
      <4> QED
        BY <2>2, <3>2, <4>1, <4>2 DEF SketchInv
    <3>4. SketchDraft!Commit
      BY <2>2, <3>1 DEF SketchDraft!Commit
    <3> QED
      BY <3>3, <3>4 DEF SketchStep, SketchDraft!Next
  <2>4. CASE ~(office.editable /\ save_sketch(p.ver))
    <3>1. \E k \in {"conflict", "locked"} : puts' = {[p EXCEPT !.st = "done", !.res = k]}
      BY <2>1, <2>2, <2>4
    <3>2. UNCHANGED <<office, hist>>
      BY <2>1, <2>4
    <3>3. \A q \in puts' : q.live /\ q.gen <= ed.save.gen /\ q.st = "done" /\ q.res # "ok"
      BY <2>2, <3>1 DEF Puts
    <3>4. SketchInv'
      <4>1. \A q, r \in puts' : q = r
        BY <3>1
      <4> QED
        BY <2>2, <3>2, <3>3, <4>1 DEF SketchInv
    <3> QED
      BY <2>2, <3>2, <3>4 DEF SketchStep, SketchDraft!sdvars, isDirty
  <2> QED
    BY <2>3, <2>4
<1>3. CASE PutAnswered
  <2>1. PICK p \in puts :
            /\ p.st = "done" /\ puts' = puts \ {p} /\ UNCHANGED <<office, get>>
            /\ \/ /\ p.live
                  /\ ed' \in {Closed, [Applied(p) EXCEPT !.closing = FALSE]}
                  /\ hist' = [hist EXCEPT !.disk = IF p.res = "ok" THEN p.doc ELSE @]
               \/ ~p.live
    BY <1>3 DEF PutAnswered
  <2>2. /\ puts = {p} /\ p \in Puts /\ p.live /\ ed.save.saving /\ p.gen \in Nat /\ p.ver \in Nat
        /\ p.gen <= ed.save.gen /\ (p.res = "ok" => p.ver \in hist.ownSk)
        /\ UNCHANGED <<office, get>> /\ puts' = {} /\ get.st = "none"
    BY <2>1, SketchTypes DEF SketchInv, TypeInv
  <2>3. hist'.ownSk = hist.ownSk
    BY <1>t, <2>1, <2>2 DEF Hists
  <2>4. p.res \in {"ok", "conflict", "locked", "error"}
    BY <2>1, <2>2 DEF Puts
  <2>s. ed.save \in Saves
    BY SketchTypes
  <2>5. CASE ed' = Closed
    <3>1. ed'.save = initSaveState(0) /\ ed'.pre = Closed.pre /\ ~ed'.confirm
      BY <2>5 DEF Closed
    <3> QED
      BY <1>i, <1>t, <2>2, <2>3, <3>1, SketchAdopt
  <2>6. CASE ed' = [Applied(p) EXCEPT !.closing = FALSE]
    <3>0. ed'.pre = ed.pre /\ ed'.open = ed.open /\ ed'.confirm = ed.confirm /\ ed'.proposal = ed.proposal
      BY <1>t, <2>4, <2>6 DEF Applied, Eds
    <3>1. CASE p.res = "ok"
      <4>1. ed'.save = resolveSaveSuccess(ed.save, p.gen, p.ver)
        BY <1>t, <2>6, <3>1 DEF Applied, Eds
      <4>2. /\ ed'.save.gen = ed.save.gen /\ ed'.save.ver = p.ver /\ ed'.save.saving = FALSE
            /\ ed'.save.kept \in {p.gen, ed.save.kept}
        BY <2>s, <4>1 DEF resolveSaveSuccess, Saves
      <4>3. SketchInv'
        BY <2>2, <2>3, <3>0, <4>2 DEF SketchInv
      <4>4. SketchDraft!Learn
        BY <2>2, <2>3, <3>1, <4>2 DEF SketchDraft!Learn, isDirty
      <4> QED
        BY <4>3, <4>4 DEF SketchStep, SketchDraft!Next
    <3>2. CASE p.res # "ok"
      <4>1. \E k \in {"conflict", "error"} : ed'.save = resolveSaveFailure(ed.save, k)
        BY <1>t, <2>4, <2>6, <3>2 DEF Applied, Eds
      <4>2. /\ ed'.save.gen = ed.save.gen /\ ed'.save.kept = ed.save.kept
            /\ ed'.save.ver = ed.save.ver /\ ed'.save.saving = FALSE
        BY <2>s, <4>1 DEF resolveSaveFailure, Saves
      <4>3. SketchInv'
        BY <2>2, <2>3, <3>0, <4>2 DEF SketchInv
      <4> QED
        BY <2>2, <2>3, <4>2, <4>3 DEF SketchStep, SketchDraft!sdvars, isDirty
    <3> QED
      BY <3>1, <3>2
  <2> QED
    BY <2>1, <2>2, <2>5, <2>6
<1> QED
  BY <1>1, <1>2, <1>3 DEF SketchWire

LEMMA SketchInvStep ==
    ASSUME TypeInv, SketchInv, Windows = {}, [Next]_vars
    PROVE  SketchStep
<1>i. ed.confirm => ed.open
  BY DEF SketchInv
<1>t. ed \in Eds /\ hist \in Hists /\ office \in Offices /\ op \in Ops /\ office.sk.ver \in Nat
  BY SketchTypes DEF TypeInv
<1>1. CASE UNCHANGED vars
  BY <1>1, <1>i, SketchSame DEF vars
<1>2. CASE WorksheetUser \/ Polling
  <2>1. UNCHANGED <<office, ed, puts, get>>
    BY <1>2 DEF WorksheetUser, setRow, save, keepMyVersion, useLatestVersion, loadRemoteLatest,
       dismissRemote, changeStatus, Polling, PollRead, checkRemote
  <2>2. hist'.ownSk = hist.ownSk
    <3>1. hist' \in {hist, Act, Typed} \/ hist' = [hist EXCEPT !.safe = TRUE]
      BY <1>2 DEF WorksheetUser, setRow, save, keepMyVersion, useLatestVersion, loadRemoteLatest,
         dismissRemote, changeStatus, Ask, Polling, PollRead, checkRemote
    <3> QED
      BY <1>t, <3>1, SketchHists DEF Hists
  <2> QED
    BY <1>i, <2>1, <2>2, SketchSame
<1>3. CASE Wire
  <2>1. UNCHANGED <<ed, puts, get>>
    BY <1>3 DEF Wire, replace_revision, change_status, get_revision, SaveAnswered, LoadAnswered,
       FinalizeRead, FinalizeSave
  <2>2. hist'.ownSk = hist.ownSk
    BY <1>3, <1>t, SketchHists DEF Wire, replace_revision, change_status, get_revision, SaveAnswered,
       LoadAnswered, FinalizeRead, FinalizeSave, Hists
  <2>3. office'.sk.ver \in {office.sk.ver, office.sk.ver + 1}
    <3>1. CASE replace_revision \/ change_status \/ get_revision \/ SaveAnswered \/ LoadAnswered \/ FinalizeRead
      BY <1>t, <3>1 DEF replace_revision, change_status, get_revision, SaveAnswered, LoadAnswered,
         FinalizeRead, Offices
    <3>2. CASE FinalizeSave
      BY <1>t, <3>2 DEF FinalizeSave, save_sketch, Offices
    <3> QED
      BY <1>3, <3>1, <3>2 DEF Wire
  <2> QED
    BY <1>i, <2>1, <2>2, <2>3, SketchSame, SketchForeign
<1>4. CASE SketchUser
  BY <1>4, SketchUserSteps
<1>5. CASE SketchWire
  BY <1>5, SketchWireSteps
<1>6. CASE OpFails \/ PollFails
  BY <1>i, <1>6, SketchHists, SketchSame DEF OpFails, PollFails
<1>7. CASE GetFails
  <2>1. /\ ed'.save = ed.save /\ ed'.pre = ed.pre /\ ed'.conflict = ed.conflict /\ ed'.open = ed.open
        /\ ed'.proposal = ed.proposal /\ ed'.confirm = ed.confirm
    BY <1>7, <1>t DEF GetFails, Eds
  <2>2. /\ get'.st = "none" /\ get'.sk.ver = 0 /\ UNCHANGED <<office, puts>> /\ hist'.ownSk = hist.ownSk
    BY <1>7, SketchHists DEF GetFails, NoGet, NoSk
  <2> QED
    BY <1>i, <1>t, <2>1, <2>2, SketchSame
<1>8. CASE PutFails
  <2>1. PICK p \in puts : puts' = (puts \ {p}) \cup {[p EXCEPT !.st = "done", !.res = "error"]}
    BY <1>8 DEF PutFails
  <2>2. UNCHANGED <<office, ed, get>> /\ hist'.ownSk = hist.ownSk
    BY <1>8, SketchHists DEF PutFails
  <2>3. puts = {p} /\ p \in Puts /\ p.live /\ p.gen <= ed.save.gen /\ ed.save.saving
    BY <2>1 DEF SketchInv, TypeInv
  <2>4. puts' = {[p EXCEPT !.st = "done", !.res = "error"]}
    BY <2>1, <2>3
  <2>5. \A q \in puts' : q.live /\ q.gen <= ed.save.gen /\ q.st = "done" /\ q.res # "ok"
    BY <2>3, <2>4 DEF Puts
  <2>6. SketchInv'
    <3>1. \A q, r \in puts' : q = r
      BY <2>4
    <3> QED
      BY <2>2, <2>3, <2>5, <3>1 DEF SketchInv
  <2> QED
    BY <2>2, <2>6 DEF SketchStep, SketchDraft!sdvars, isDirty
<1>9. CASE FieldMeasures \/ OtherStatus
  <2>1. UNCHANGED <<ed, puts, get>> /\ hist'.ownSk = hist.ownSk
    BY <1>9, SketchHists DEF FieldMeasures, OtherStatus
  <2>2. office'.sk.ver = office.sk.ver
    BY <1>9, <1>t DEF FieldMeasures, OtherStatus, Offices
  <2> QED
    BY <1>i, <2>1, <2>2, SketchSame
<1>10. CASE FieldSketches
  <2>1. UNCHANGED <<ed, puts, get>> /\ hist'.ownSk = hist.ownSk
    BY <1>10, SketchHists DEF FieldSketches
  <2>2. office'.sk.ver = office.sk.ver + 1
    <3> PICK g \in Values : office' = [office EXCEPT !.sk.ver = @ + 1, !.sk.doc.geo = g]
      BY <1>10 DEF FieldSketches
    <3>1. office.sk \in [ver : Nat, doc : Good]
      BY <1>t DEF Offices, Sks
    <3>2. DOMAIN office = {"tok", "val", "hid", "editable", "sk"}
      BY <1>t DEF Offices
    <3>3. office'.sk = [[office.sk EXCEPT !.ver = @ + 1] EXCEPT !.doc.geo = g]
      BY <3>2
    <3> QED
      BY <3>1, <3>3
  <2> QED
    BY <2>1, <2>2, SketchForeign
<1> QED
  BY <1>1, <1>2, <1>3, <1>4, <1>5, <1>6, <1>7, <1>8, <1>9, <1>10 DEF Next, Faults, Others

LEMMA InitSketch == Init => SketchInv /\ SketchDraft!Init
BY DEF Init, SketchInv, NoGet, NoSk, Closed, initSaveState, SketchDraft!Init, isDirty, EmptyDoc, NoDec

(* The sketch editor implements SharedDraft, as long as no request overlaps a  *)
(* preview or a load: a save is only written over the version the canvas came  *)
(* from.                                                                       *)
THEOREM SketchImplementsSharedDraft ==
    ASSUME Windows = {} PROVE Spec => SketchNeverOverwritesUnseen
<1>1. Init => SketchInv /\ SketchDraft!Init
  BY InitSketch
<1>2. TypeInv /\ SketchInv /\ [Next]_vars => SketchInv' /\ [SketchDraft!Next]_(SketchDraft!sdvars)
  BY SketchInvStep DEF SketchStep
<1> QED
  BY <1>1, <1>2, TypeCorrect, PTL DEF Spec, SketchNeverOverwritesUnseen, SketchDraft!Spec

(***************************************************************************)
(* What the editor calls saved.  Generations tell drawings apart: while a  *)
(* save is on the wire its generation is at least the last one kept, and   *)
(* if it is still the canvas's, it carries the canvas.                     *)
(***************************************************************************)
SavedAs(s, doc) ==
    /\ s.phase = "saved" => s.gen = s.kept
    /\ s.gen = s.kept => doc = hist.disk

DiskInv ==
    /\ ed.open /\ ed.proposal # "preview" => SavedAs(ed.save, ed.doc)
    /\ ed.open /\ ed.proposal = "preview" => SavedAs(ed.pre.save, ed.pre.doc) /\ get.st = "none"
    /\ \A p \in puts : ed.save.kept <= p.gen /\ (p.gen = ed.save.gen => p.doc = ed.doc)

(* Nothing of the canvas changes, or it is closed. *)
LEMMA DiskSame ==
    ASSUME DiskInv, hist'.disk = hist.disk, \A p \in puts' : \E q \in puts : p.gen = q.gen /\ p.doc = q.doc,
           ed'.doc = ed.doc, ed'.save = ed.save, ed'.pre = ed.pre, ed'.open = ed.open,
           ed'.proposal = "preview" <=> ed.proposal = "preview",
           get' = get \/ get'.st = "none" \/ ed.proposal # "preview"
    PROVE  DiskInv'
BY DEF DiskInv, SavedAs

LEMMA DiskClosed == ASSUME ed' = Closed, puts' = {} PROVE DiskInv'
BY DEF DiskInv, Closed

(* A new generation is neither kept nor on the wire. *)
LEMMA DiskEdited ==
    ASSUME TypeInv, SketchInv, DiskInv, hist'.disk = hist.disk, puts' = puts, get' = get,
           ed'.save = markEdited(ed.save), ed'.open = ed.open,
           \/ ed'.proposal = ed.proposal /\ ed'.pre = ed.pre
           \/ ed'.proposal # "preview"
    PROVE  DiskInv'
<1>1. /\ ed'.save.gen = ed.save.gen + 1 /\ ed'.save.kept = ed.save.kept /\ ed'.save.phase # "saved"
  BY SketchTypes DEF markEdited, Saves
<1>2. ed'.save.gen # ed'.save.kept /\ \A p \in puts : p.gen # ed'.save.gen
  BY <1>1, SketchTypes DEF SketchInv
<1> QED
  BY <1>1, <1>2 DEF DiskInv, SavedAs

(* A version of the server comes on the canvas. *)
LEMMA DiskLoaded ==
    ASSUME ed'.proposal # "preview", NEW v, ed'.save = initSaveState(v), ed'.doc = hist'.disk, puts' = {}
    PROVE  DiskInv'
BY DEF DiskInv, SavedAs, initSaveState

LEMMA DiskDrawn ==
    ASSUME TypeInv, SketchInv, DiskInv,
           (\E g \in Values : edit(g)) \/ keepProposal \/ acceptProposal \/ doUndo \/ doRedo \/ useProposed
    PROVE  DiskInv'
<1>t. ed \in Eds /\ hist \in Hists
  BY DEF TypeInv
<1>1. /\ ed'.save = markEdited(ed.save) /\ ed'.open = ed.open
      /\ (ed'.proposal = ed.proposal /\ ed'.pre = ed.pre) \/ ed'.proposal # "preview"
  <2>1. CASE (\E g \in Values : edit(g)) \/ keepProposal
    BY <1>t, <2>1 DEF edit, keepProposal, Run, Eds
  <2>2. CASE acceptProposal
    BY <1>t, <2>2 DEF acceptProposal, Run, Eds
  <2>3. CASE doUndo
    BY <1>t, <2>3 DEF doUndo, Eds
  <2>4. CASE doRedo
    BY <1>t, <2>4 DEF doRedo, Eds
  <2>5. CASE useProposed
    BY <1>t, <2>5 DEF useProposed, Reset, Eds
  <2> QED
    BY <2>1, <2>2, <2>3, <2>4, <2>5
<1>2. puts' = puts /\ get' = get /\ hist'.disk = hist.disk
  BY <1>t DEF edit, keepProposal, acceptProposal, doUndo, doRedo, useProposed, Act, Typed, Hists
<1> QED
  BY <1>1, <1>2, DiskEdited

LEMMA DiskUserSteps ==
    ASSUME TypeInv, SketchInv, DiskInv, Windows = {}, SketchUser
    PROVE  DiskInv'
<1>t. ed \in Eds /\ hist \in Hists /\ ed.save \in Saves
  BY SketchTypes DEF TypeInv
<1>d. Act.disk = hist.disk /\ Typed.disk = hist.disk
  BY <1>t DEF Act, Typed, Hists
<1>1. CASE OpenEditor
  <2>1. Act \in Hists /\ hist' = [Act EXCEPT !.disk = EmptyDoc] /\ puts' = {}
    BY <1>1, HistSteps DEF OpenEditor, TypeInv, SketchInv
  <2>2. hist'.disk = EmptyDoc
    BY <2>1 DEF Hists
  <2>3. ed'.proposal # "preview" /\ ed'.save = initSaveState(0) /\ ed'.doc = EmptyDoc
    BY <1>1 DEF OpenEditor, Closed
  <2> QED
    BY <2>1, <2>2, <2>3, DiskLoaded
<1>2. CASE (\E g \in Values : edit(g)) \/ keepProposal \/ acceptProposal \/ doUndo \/ doRedo \/ useProposed
  BY <1>2, DiskDrawn
<1>3. CASE applyPending \/ regenerateProposed \/ regenKeepCurrent \/ continueEditing \/ reloadServer
  <2>1. /\ ed'.doc = ed.doc /\ ed'.save = ed.save /\ ed'.pre = ed.pre /\ ed'.open = ed.open
        /\ ed'.proposal = "preview" <=> ed.proposal = "preview"
    BY <1>3, <1>t DEF applyPending, regenerateProposed, regenKeepCurrent, continueEditing, reloadServer, Eds
  <2>2. puts' = puts /\ (get' = get \/ ed.proposal # "preview") /\ hist'.disk = hist.disk
    BY <1>3, <1>d DEF applyPending, regenerateProposed, regenKeepCurrent, continueEditing, reloadServer
  <2> QED
    BY <2>1, <2>2, DiskSame
<1>4. CASE Save \/ saveAndClose
  <2>1. puts = {} /\ ed.proposal # "preview"
    BY <1>4 DEF Save, saveAndClose, doSave, SketchInv
  <2>2. \A p \in puts' : p.gen = ed.save.gen /\ p.doc = ed.doc
    BY <1>4, <2>1 DEF Save, saveAndClose, doSave
  <2>3. /\ ed'.doc = ed.doc /\ ed'.open = ed.open /\ ed'.proposal = ed.proposal
        /\ ed'.save = beginSave(ed.save)
    BY <1>4, <1>t DEF Save, saveAndClose, Eds
  <2>4. /\ ed'.save.gen = ed.save.gen /\ ed'.save.kept = ed.save.kept /\ ed'.save.phase = "saving"
    BY <1>t, <2>3 DEF beginSave, Saves
  <2>5. hist'.disk = hist.disk
    BY <1>4, <1>d DEF Save, saveAndClose, doSave
  <2> QED
    BY <2>1, <2>2, <2>3, <2>4, <2>5 DEF DiskInv, SavedAs, SketchInv
<1>5. CASE generateProposed
  <2>1. /\ ed'.open = ed.open /\ ed'.proposal = "preview" /\ ed'.pre.save = ed.save /\ ed'.pre.doc = ed.doc
    BY <1>5, <1>t DEF generateProposed, Eds
  <2>2. puts' = {} /\ get'.st = "none" /\ hist' = hist /\ ed.proposal # "preview"
    BY <1>5 DEF generateProposed, SketchInv
  <2> QED
    BY <2>1, <2>2 DEF DiskInv, SavedAs
<1>6. CASE cancelProposed
  <2>1. /\ ed'.open = ed.open /\ ed'.proposal = "none" /\ ed'.save = ed.pre.save /\ ed'.doc = ed.pre.doc
    BY <1>6, <1>t DEF cancelProposed, Cancelled, Reset, Eds
  <2>2. puts' = {} /\ hist' = hist /\ ed.proposal = "preview"
    BY <1>6 DEF cancelProposed, SketchInv
  <2> QED
    BY <2>1, <2>2 DEF DiskInv, SavedAs
<1>7. CASE regenUseProposed
  <2>1. puts' = puts /\ get' = get /\ hist'.disk = hist.disk
    BY <1>7, <1>d DEF regenUseProposed
  <2>2. CASE ed.proposal = "review"
    <3>1. /\ ed'.doc = ed.doc /\ ed'.save = ed.save /\ ed'.pre = ed.pre /\ ed'.open = ed.open
          /\ ed'.proposal = "confirm"
      BY <1>7, <1>t, <2>2 DEF regenUseProposed, Eds
    <3> QED
      BY <2>1, <2>2, <3>1, DiskSame
  <2>3. CASE ed.proposal = "confirm"
    <3>1. ed'.save = markEdited(ed.save) /\ ed'.open = ed.open /\ ed'.proposal = "none"
      BY <1>7, <1>t, <2>3 DEF regenUseProposed, Reset, Eds
    <3> QED
      BY <2>1, <3>1, DiskEdited
  <2> QED
    BY <1>7, <2>2, <2>3 DEF regenUseProposed
<1>8. CASE requestClose
  <2>1. CASE ed' = [ed EXCEPT !.confirm = TRUE] /\ UNCHANGED <<puts, get>>
    <3>1. /\ ed'.doc = ed.doc /\ ed'.save = ed.save /\ ed'.pre = ed.pre /\ ed'.open = ed.open
          /\ ed'.proposal = ed.proposal /\ hist' = hist
      BY <1>8, <1>t, <2>1 DEF requestClose, Eds
    <3> QED
      BY <2>1, <3>1, DiskSame
  <2>2. CASE Unmount
    BY <1>8, <2>2, DiskClosed DEF requestClose, Unmount, SketchInv
  <2> QED
    BY <1>8, <2>1, <2>2 DEF requestClose
<1>9. CASE discardAndClose
  BY <1>9, DiskClosed DEF discardAndClose, Unmount, SketchInv
<1> QED
  BY <1>1, <1>2, <1>3, <1>4, <1>5, <1>6, <1>7, <1>8, <1>9 DEF SketchUser

LEMMA DiskWireSteps ==
    ASSUME TypeInv, SketchInv, DiskInv, SketchWire
    PROVE  DiskInv'
<1>t. ed \in Eds /\ hist \in Hists /\ ed.save \in Saves
  BY SketchTypes DEF TypeInv
<1>1. CASE GetAnswered
  <2>1. puts' = {} /\ get'.st = "none"
    BY <1>1 DEF GetAnswered, SketchInv, NoGet
  <2>2. CASE get.kind = "reload" /\ get.sk.ver = 0
    <3>1. /\ ed'.doc = ed.doc /\ ed'.save = ed.save /\ ed'.pre = ed.pre /\ ed'.open = ed.open
          /\ ed'.proposal = ed.proposal /\ hist' = hist
      BY <1>1, <1>t, <2>2 DEF GetAnswered, Eds
    <3> QED
      BY <2>1, <3>1, DiskSame
  <2>3. CASE ~(get.kind = "reload" /\ get.sk.ver = 0)
    <3>1. /\ ed'.doc = get.sk.doc /\ ed'.save = initSaveState(get.sk.ver) /\ ed'.open = ed.open
          /\ ed'.proposal = ed.proposal
      BY <1>1, <1>t, <2>3 DEF GetAnswered, Reset, adoptServerVersion, Eds
    <3>2. hist'.disk = get.sk.doc
      BY <1>1, <1>t, <2>3 DEF GetAnswered, Hists
    <3>3. ed.open => ed.proposal # "preview"
      BY <1>1 DEF GetAnswered, DiskInv
    <3> QED
      BY <2>1, <3>1, <3>2, <3>3 DEF DiskInv, SavedAs, initSaveState
  <2> QED
    BY <2>2, <2>3
<1>2. CASE put_sketch
  <2>1. PICK p \in puts : \E k \in {"ok", "conflict", "locked"} :
            \/ puts' = (puts \ {p}) \cup {[p EXCEPT !.st = "done", !.res = k]}
            \/ puts' = (puts \ {p}) \cup {[p EXCEPT !.st = "done", !.res = k, !.ver = office.sk.ver + 1]}
    BY <1>2 DEF put_sketch
  <2>2. \A r \in puts' : \E q \in puts : r.gen = q.gen /\ r.doc = q.doc
    <3>1. PICK k \in {"ok", "conflict", "locked"} :
              \/ puts' = (puts \ {p}) \cup {[p EXCEPT !.st = "done", !.res = k]}
              \/ puts' = (puts \ {p}) \cup {[p EXCEPT !.st = "done", !.res = k, !.ver = office.sk.ver + 1]}
      BY <2>1
    <3>2. p \in Puts
      BY DEF TypeInv
    <3>3. /\ [p EXCEPT !.st = "done", !.res = k].gen = p.gen /\ [p EXCEPT !.st = "done", !.res = k].doc = p.doc
          /\ [p EXCEPT !.st = "done", !.res = k, !.ver = office.sk.ver + 1].gen = p.gen
          /\ [p EXCEPT !.st = "done", !.res = k, !.ver = office.sk.ver + 1].doc = p.doc
      BY <3>2 DEF Puts
    <3> QED
      BY <3>1, <3>3
  <2>3. UNCHANGED <<ed, get>> /\ hist'.disk = hist.disk
    BY <1>2, <1>t DEF put_sketch, Hists
  <2> QED
    BY <2>2, <2>3, DiskSame
<1>3. CASE PutAnswered
  <2>1. PICK p \in puts :
            /\ p.st = "done" /\ puts' = puts \ {p} /\ UNCHANGED <<office, get>>
            /\ \/ /\ p.live
                  /\ ed' \in {Closed, [Applied(p) EXCEPT !.closing = FALSE]}
                  /\ hist' = [hist EXCEPT !.disk = IF p.res = "ok" THEN p.doc ELSE @]
               \/ ~p.live
    BY <1>3 DEF PutAnswered
  <2>2. /\ p \in Puts /\ p.live /\ puts' = {} /\ ed.open /\ ed.proposal # "preview" /\ p.gen \in Nat
        /\ p.gen <= ed.save.gen /\ ed.save.kept <= p.gen /\ (p.gen = ed.save.gen => p.doc = ed.doc)
        /\ SavedAs(ed.save, ed.doc)
    BY <2>1, SketchTypes DEF SketchInv, TypeInv, DiskInv
  <2>3. p.res \in {"ok", "conflict", "locked", "error"}
    BY <2>1, <2>2 DEF Puts
  <2>4. hist'.disk = IF p.res = "ok" THEN p.doc ELSE hist.disk
    BY <1>t, <2>1, <2>2 DEF Hists
  <2>5. CASE ed' = Closed
    BY <2>2, <2>5, DiskClosed
  <2>6. CASE ed' = [Applied(p) EXCEPT !.closing = FALSE]
    <3>0. ed'.proposal = ed.proposal /\ ed'.doc = ed.doc
      BY <1>t, <2>3, <2>6 DEF Applied, Eds
    <3>1. CASE p.res = "ok"
      <4>1. ed'.save = resolveSaveSuccess(ed.save, p.gen, p.ver)
        BY <1>t, <2>6, <3>1 DEF Applied, Eds
      <4>2. ed.save.gen \in Nat /\ ed.save.kept \in Nat
        BY SketchTypes
      <4>3. /\ ed'.save.gen = ed.save.gen /\ ed'.save.kept = p.gen
            /\ ed'.save.phase = "saved" => ed.save.gen = p.gen
        BY <1>t, <2>2, <4>1, <4>2 DEF resolveSaveSuccess, Saves
      <4> QED
        BY <2>2, <2>4, <3>0, <3>1, <4>3 DEF DiskInv, SavedAs
    <3>2. CASE p.res # "ok"
      <4>1. \E k \in {"conflict", "error"} : ed'.save = resolveSaveFailure(ed.save, k)
        BY <1>t, <2>3, <2>6, <3>2 DEF Applied, Eds
      <4>2. /\ ed'.save.gen = ed.save.gen /\ ed'.save.kept = ed.save.kept /\ ed'.save.phase # "saved"
        BY <1>t, <4>1 DEF resolveSaveFailure, Saves
      <4> QED
        BY <2>2, <2>4, <3>0, <3>2, <4>2 DEF DiskInv, SavedAs
    <3> QED
      BY <3>1, <3>2
  <2> QED
    BY <2>1, <2>2, <2>5, <2>6
<1> QED
  BY <1>1, <1>2, <1>3 DEF SketchWire

LEMMA DiskInvStep ==
    ASSUME TypeInv, SketchInv, DiskInv, Windows = {}, [Next]_vars
    PROVE  DiskInv'
<1>t. ed \in Eds /\ hist \in Hists
  BY DEF TypeInv
<1>d. Act.disk = hist.disk /\ Typed.disk = hist.disk /\ Event.disk = hist.disk
  BY <1>t DEF Act, Event, Typed, Hists
<1>1. CASE UNCHANGED vars
  BY <1>1, DiskSame DEF vars
<1>2. CASE WorksheetUser \/ Polling \/ Wire \/ Others \/ OpFails \/ PollFails
  <2>1. UNCHANGED <<ed, puts, get>>
    BY <1>2 DEF WorksheetUser, setRow, save, keepMyVersion, useLatestVersion, loadRemoteLatest,
       dismissRemote, changeStatus, Polling, PollRead, checkRemote, Wire, replace_revision, change_status,
       get_revision, SaveAnswered, LoadAnswered, FinalizeRead, FinalizeSave, Others, FieldMeasures,
       OtherStatus, FieldSketches, OpFails, PollFails
  <2>2. hist'.disk = hist.disk
    <3>1. CASE WorksheetUser \/ Polling
      <4>1. hist' \in {hist, Act, Typed} \/ hist' = [hist EXCEPT !.safe = TRUE]
        BY <3>1 DEF WorksheetUser, setRow, save, keepMyVersion, useLatestVersion, loadRemoteLatest,
           dismissRemote, changeStatus, Ask, Polling, PollRead, checkRemote
      <4> QED
        BY <1>d, <1>t, <4>1 DEF Hists
    <3>2. CASE Wire
      BY <1>d, <1>t, <3>2 DEF Wire, replace_revision, change_status, get_revision, SaveAnswered,
         LoadAnswered, FinalizeRead, FinalizeSave, Hists
    <3>3. CASE Others \/ OpFails \/ PollFails
      BY <1>d, <3>3 DEF Others, FieldMeasures, OtherStatus, FieldSketches, OpFails, PollFails
    <3> QED
      BY <1>2, <3>1, <3>2, <3>3
  <2> QED
    BY <2>1, <2>2, DiskSame
<1>3. CASE SketchUser
  BY <1>3, DiskUserSteps
<1>4. CASE SketchWire
  BY <1>4, DiskWireSteps
<1>5. CASE GetFails
  <2>1. /\ ed'.doc = ed.doc /\ ed'.save = ed.save /\ ed'.pre = ed.pre /\ ed'.open = ed.open
        /\ ed'.proposal = ed.proposal
    BY <1>5, <1>t DEF GetFails, Eds
  <2> QED
    BY <1>5, <1>d, <2>1, DiskSame DEF GetFails, NoGet
<1>6. CASE PutFails
  <2>1. PICK p \in puts : puts' = (puts \ {p}) \cup {[p EXCEPT !.st = "done", !.res = "error"]}
    BY <1>6 DEF PutFails
  <2>2. \A r \in puts' : \E q \in puts : r.gen = q.gen /\ r.doc = q.doc
    BY <2>1 DEF TypeInv, Puts
  <2> QED
    BY <1>6, <1>d, <2>2, DiskSame DEF PutFails
<1> QED
  BY <1>1, <1>2, <1>3, <1>4, <1>5, <1>6 DEF Next, Faults

(* While the editor claims to be saved, its canvas shows the drawing it last  *)
(* loaded from the server or stored there.                                    *)
THEOREM SavedShowsStored ==
    ASSUME Windows = {} PROVE Spec => []SavedMeansStored
<1>1. Init => SketchInv /\ DiskInv
  <2>1. Init => puts = {} /\ ed.open = FALSE
    BY DEF Init, Closed
  <2> QED
    BY <2>1, InitSketch DEF DiskInv
<1>2. TypeInv /\ SketchInv /\ DiskInv /\ [Next]_vars => SketchInv' /\ DiskInv'
  BY SketchInvStep, DiskInvStep DEF SketchStep
<1>3. DiskInv => SavedMeansStored
  BY DEF DiskInv, SavedAs, SavedMeansStored, isDirty
<1> QED
  BY <1>1, <1>2, <1>3, TypeCorrect, PTL DEF Spec

(***************************************************************************)
(* The worksheet without unsaved changes.  A value applied by the editor's *)
(* session stays unsaved until the session ends, unless it was entered     *)
(* while a request of the worksheet was running (`late').                  *)
(***************************************************************************)
CleanInv ==
    /\ CleanFormShowsRevision
    /\ ed.session.on => ed.open /\ (hist.late \/ (ws.dirty /\ op.kind = "none"))

LEMMA CleanSame ==
    ASSUME CleanInv, ws'.val = ws.val, ws'.rev.val = ws.rev.val, ws'.dirty = ws.dirty, hist'.late = hist.late,
           ed'.session = ed.session, ed'.open = ed.open, op'.kind = op.kind \/ ~ed.open \/ op'.kind = "none"
    PROVE  CleanInv'
BY DEF CleanInv, CleanFormShowsRevision

(* The form takes a value of the user, through a session of the editor or not. *)
LEMMA CleanTyped ==
    ASSUME TypeInv, CleanInv, ws'.dirty = TRUE, hist' = Typed, op' = Overtaken,
           ed'.session.on => ed'.open
    PROVE  CleanInv'
<1>1. hist'.late = (op.kind # "none") /\ op'.kind = op.kind
  BY DEF Typed, Act, Overtaken, TypeInv, Hists, Ops
<1> QED
  BY <1>1 DEF CleanInv, CleanFormShowsRevision

(* The form is replaced by the answer to a request. *)
LEMMA CleanInstalled ==
    ASSUME TypeInv, CleanInv, op.kind # "none" \/ ~ed.open, ed' = ed, hist'.late = hist.late,
           ws'.val = ws'.rev.val
    PROVE  CleanInv'
BY DEF CleanInv, CleanFormShowsRevision

LEMMA CleanStep ==
    ASSUME TypeInv, CleanInv, [Next]_vars
    PROVE  CleanInv'
<1>t. ws \in Forms /\ ed \in Eds /\ hist \in Hists /\ op \in Ops
  BY DEF TypeInv
<1>h. Act.late = hist.late /\ Event.late = hist.late
  BY <1>t DEF Act, Event, Hists
<1>s. ed.session.on => ed.open
  BY DEF CleanInv
<1>1. CASE UNCHANGED vars
  BY <1>1, CleanSame DEF vars
<1>2. CASE WorksheetUser
  <2>1. CASE \E v \in Values : setRow(v)
    BY <1>t, <1>s, <2>1, CleanTyped DEF setRow, Forms
  <2>2. CASE save \/ keepMyVersion \/ loadRemoteLatest \/ changeStatus
    BY <1>h, <2>2, CleanSame DEF save, keepMyVersion, loadRemoteLatest, changeStatus, Ask
  <2>3. CASE useLatestVersion
    <3>1. CASE ws' = ws
      <4>1. hist' \in {Act, [hist EXCEPT !.safe = TRUE]} /\ ~ed.open /\ ed' = ed
        BY <2>3 DEF useLatestVersion, Ask
      <4>2. hist'.late = hist.late
        BY <1>h, <1>t, <4>1 DEF Hists
      <4> QED
        BY <3>1, <4>1, <4>2, CleanSame
    <3>2. CASE ws' = [Installed(ws.server) EXCEPT !.review = FALSE, !.server = NoRev]
               /\ hist' = [hist EXCEPT !.safe = TRUE]
      <4>1. ws'.val = ws'.rev.val /\ hist'.late = hist.late
        BY <1>t, <3>2 DEF Installed, Forms, Hists
      <4> QED
        BY <2>3, <4>1, CleanInstalled DEF useLatestVersion
    <3> QED
      BY <2>3, <3>1, <3>2 DEF useLatestVersion
  <2>4. CASE dismissRemote
    BY <1>t, <2>4, CleanSame DEF dismissRemote, Forms
  <2> QED
    BY <1>2, <2>1, <2>2, <2>3, <2>4 DEF WorksheetUser
<1>3. CASE Wire
  <2>1. CASE replace_revision \/ change_status \/ get_revision
    <3>1. op'.kind = op.kind /\ UNCHANGED <<ws, ed>>
      BY <1>t, <2>1 DEF replace_revision, change_status, get_revision, Ops
    <3>2. hist'.late = hist.late
      BY <1>t, <2>1 DEF replace_revision, change_status, get_revision, Hists
    <3> QED
      BY <3>1, <3>2, CleanSame
  <2>2. CASE SaveAnswered
    <3>1. CASE op.res = "ok"
      <4>1. ws'.val = ws'.rev.val /\ ed' = ed /\ hist' = hist /\ op.kind # "none"
        <5>1. /\ \E r \in {ws.review, FALSE}, sv \in {ws.server, NoRev} :
                    ws' = [Installed(op.rev) EXCEPT !.mine = op.mine, !.review = r, !.server = sv]
              /\ ed' = ed /\ hist' = hist /\ op.kind # "none"
          BY <1>t, <2>2, <3>1 DEF SaveAnswered, Installed, Forms
        <5> QED
          BY <1>t, <5>1 DEF Installed, Forms
      <4> QED
        BY <4>1, CleanInstalled
    <3>2. CASE op.res # "ok"
      <4>1. /\ ws'.val = ws.val /\ ws'.rev = ws.rev /\ ws'.dirty = ws.dirty /\ ed' = ed /\ hist' = hist
            /\ op'.kind = "none"
        <5>1. /\ ws' \in {ws, [ws EXCEPT !.review = TRUE, !.server = op.rev]} /\ op' = NoOp
              /\ ed' = ed /\ hist' = hist
          BY <2>2, <3>2 DEF SaveAnswered
        <5> QED
          BY <1>t, <5>1 DEF NoOp, Forms
      <4> QED
        BY <4>1, CleanSame
    <3> QED
      BY <3>1, <3>2
  <2>3. CASE LoadAnswered
    <3>1. CASE op.res = "ok"
      <4>1. /\ ws'.val = ws'.rev.val /\ ed' = ed /\ op.kind # "none" /\ hist'.late = hist.late
        <5>1. /\ \E m \in {ws.remote, FALSE}, r \in {ws.review, FALSE}, sv \in {ws.server, NoRev} :
                    ws' = [Installed(op.rev) EXCEPT !.remote = m, !.review = r, !.server = sv]
              /\ ed' = ed /\ op.kind # "none" /\ hist' = [hist EXCEPT !.safe = TRUE]
          BY <1>t, <2>3, <3>1 DEF LoadAnswered, Installed, Forms
        <5> QED
          BY <1>t, <5>1 DEF Installed, Forms, Hists
      <4> QED
        BY <4>1, CleanInstalled
    <3>2. CASE op.res # "ok"
      BY <2>3, <3>2, CleanSame DEF LoadAnswered, NoOp
    <3> QED
      BY <3>1, <3>2
  <2>4. CASE FinalizeRead
    <3>1. op'.kind \in {op.kind, "none"}
      <4>1. op' = NoOp \/ op' = [op EXCEPT !.st = "done", !.sk = office.sk]
        BY <2>4 DEF FinalizeRead
      <4>2. CASE op' = NoOp
        BY <4>2 DEF NoOp
      <4>3. CASE op' = [op EXCEPT !.st = "done", !.sk = office.sk]
        BY <1>t, <4>3 DEF Ops
      <4> QED
        BY <4>1, <4>2, <4>3
    <3> QED
      BY <1>h, <2>4, <3>1, CleanSame DEF FinalizeRead
  <2>5. CASE FinalizeSave
    BY <1>h, <2>5, CleanSame DEF FinalizeSave, NoOp
  <2> QED
    BY <1>3, <2>1, <2>2, <2>3, <2>4, <2>5 DEF Wire
<1>4. CASE Polling
  <2>1. CASE PollRead
    BY <2>1, CleanSame DEF PollRead
  <2>2. CASE checkRemote
    <3>1. CASE ws'.val = ws.val /\ ws'.rev = ws.rev /\ ws'.dirty = ws.dirty
      BY <2>2, <3>1, CleanSame DEF checkRemote
    <3>2. CASE ~ws.dirty /\ ws'.val = ws'.rev.val
      BY <2>2, <3>2 DEF checkRemote, CleanInv, CleanFormShowsRevision
    <3> QED
      BY <1>t, <2>2, <3>1, <3>2 DEF checkRemote, Adopted, Installed, Forms
  <2> QED
    BY <1>4, <2>1, <2>2 DEF Polling
<1>5. CASE SketchUser
  <2>1. CASE acceptProposal
    <3>1. ed'.session.on => ed'.open
      BY <1>t, <2>1 DEF acceptProposal, AtCanvas, Run, Eds
    <3> QED
      BY <1>t, <2>1, <3>1, CleanTyped DEF acceptProposal, DraftTakes, Forms
  <2>2. CASE applyPending
    <3>1. ed'.session.on => ed'.open
      BY <1>t, <2>2 DEF applyPending, AtCanvas, Eds
    <3> QED
      BY <1>t, <2>2, <3>1, CleanTyped DEF applyPending, DraftTakes, Forms
  <2>3. CASE discardAndClose
    <3>1. ed'.session.on = FALSE /\ hist'.late = hist.late
      BY <1>t, <2>3 DEF discardAndClose, Unmount, Closed, NoSession, Hists
    <3>2. ws'.dirty = ws.dirty /\ ws'.rev = ws.rev /\ (ws'.val = ws.val \/ ed.session.on)
      BY <1>t, <2>3 DEF discardAndClose, rollbackPlan, Forms
    <3> QED
      BY <3>1, <3>2 DEF CleanInv, CleanFormShowsRevision
  <2>4. CASE OpenEditor
    <3>1. Act \in Hists /\ hist' = [Act EXCEPT !.disk = EmptyDoc]
      BY <1>t, <2>4, HistSteps DEF OpenEditor
    <3>2. hist'.late = hist.late /\ ed'.session.on = FALSE
      BY <1>h, <2>4, <3>1 DEF Hists, OpenEditor, Closed, NoSession
    <3> QED
      BY <2>4, <3>2 DEF OpenEditor, CleanInv, CleanFormShowsRevision
  <2>5. CASE requestClose
    <3>1. CASE ed' = Closed
      BY <2>5, <3>1 DEF requestClose, CleanInv, CleanFormShowsRevision, Closed, NoSession
    <3>2. CASE ed' = [ed EXCEPT !.confirm = TRUE]
      BY <1>t, <2>5, <3>2, CleanSame DEF requestClose, Eds
    <3> QED
      BY <2>5, <3>1, <3>2 DEF requestClose, Unmount
  <2>6. CASE ~(acceptProposal \/ applyPending \/ discardAndClose \/ OpenEditor \/ requestClose)
    <3>1. UNCHANGED <<ws, op>> /\ hist' \in {hist, Act}
      BY <1>5, <2>6 DEF SketchUser, edit, doUndo, doRedo, reloadServer, Save, doSave, keepProposal,
         generateProposed, useProposed, cancelProposed, regenerateProposed, regenKeepCurrent,
         regenUseProposed, continueEditing, saveAndClose
    <3>2. ed'.session = ed.session /\ ed'.open = ed.open
      <4>1. CASE (\E g \in Values : edit(g)) \/ keepProposal
        BY <1>t, <4>1 DEF edit, keepProposal, Run, Eds
      <4>2. CASE doUndo
        BY <1>t, <4>2 DEF doUndo, Eds
      <4>3. CASE doRedo
        BY <1>t, <4>3 DEF doRedo, Eds
      <4>4. CASE reloadServer \/ Save \/ saveAndClose \/ generateProposed \/ regenerateProposed
                 \/ regenKeepCurrent \/ continueEditing
        BY <1>t, <4>4 DEF reloadServer, Save, saveAndClose, generateProposed, regenerateProposed,
           regenKeepCurrent, continueEditing, Eds
      <4>5. CASE useProposed
        BY <1>t, <4>5 DEF useProposed, Reset, Eds
      <4>6. CASE cancelProposed
        BY <1>t, <4>6 DEF cancelProposed, Cancelled, Reset, Eds
      <4>7. CASE regenUseProposed
        BY <1>t, <4>7 DEF regenUseProposed, Reset, Eds
      <4> QED
        BY <1>5, <2>6, <4>1, <4>2, <4>3, <4>4, <4>5, <4>6, <4>7 DEF SketchUser
    <3> QED
      BY <1>h, <3>1, <3>2, CleanSame
  <2> QED
    BY <2>1, <2>2, <2>3, <2>4, <2>5, <2>6
<1>6. CASE SketchWire
  <2>1. UNCHANGED <<ws, op>> /\ hist'.late = hist.late
    BY <1>6, <1>t DEF SketchWire, GetAnswered, put_sketch, PutAnswered, Hists
  <2>2. CASE GetAnswered \/ put_sketch
    <3>1. ed'.session = ed.session /\ ed'.open = ed.open
      BY <1>t, <2>2 DEF GetAnswered, put_sketch, Reset, Eds
    <3> QED
      BY <2>1, <3>1, CleanSame
  <2>3. CASE PutAnswered
    <3>1. PICK p \in puts : p.st = "done" /\ (ed' \in {ed, Closed, [Applied(p) EXCEPT !.closing = FALSE]})
      BY <2>3 DEF PutAnswered
    <3>2. CASE ed' = Closed
      BY <2>1, <3>2 DEF CleanInv, CleanFormShowsRevision, Closed, NoSession
    <3>3. CASE ed' = [Applied(p) EXCEPT !.closing = FALSE]
      <4>1. p.res \in {"ok", "conflict", "locked", "error"}
        BY <3>1 DEF TypeInv, Puts
      <4>2. ed'.session = ed.session /\ ed'.open = ed.open
        BY <1>t, <3>3, <4>1 DEF Applied, Eds
      <4> QED
        BY <2>1, <4>2, CleanSame
    <3> QED
      BY <2>1, <3>1, <3>2, <3>3, CleanSame
  <2> QED
    BY <1>6, <2>2, <2>3 DEF SketchWire
<1>7. CASE Faults \/ Others
  <2>1. ws' = ws /\ hist'.late = hist.late
    BY <1>7, <1>h DEF Faults, OpFails, PollFails, GetFails, PutFails, Others, FieldMeasures, OtherStatus,
       FieldSketches
  <2>2. op'.kind = op.kind /\ ed'.session = ed.session /\ ed'.open = ed.open
    BY <1>7, <1>t DEF Faults, OpFails, PollFails, GetFails, PutFails, Others, FieldMeasures, OtherStatus,
       FieldSketches, Ops, Eds
  <2> QED
    BY <2>1, <2>2, CleanSame
<1> QED
  BY <1>1, <1>2, <1>3, <1>4, <1>5, <1>6, <1>7 DEF Next

(* A worksheet without unsaved changes shows the values of the revision it    *)
(* loaded, except for a value entered while a request of it was running.      *)
THEOREM CleanFormIsTheRevision == Spec => []CleanFormShowsRevision
<1>1. Init => CleanInv
  BY DEF Init, CleanInv, CleanFormShowsRevision, Closed, NoSession
<1>2. TypeInv /\ CleanInv /\ [Next]_vars => CleanInv'
  BY CleanStep
<1>3. CleanInv => CleanFormShowsRevision
  BY DEF CleanInv
<1> QED
  BY <1>1, <1>2, <1>3, TypeCorrect, PTL DEF Spec

=============================================================================
