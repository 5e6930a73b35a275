------------------------------ MODULE OfficeDesk ------------------------------
(* The Office side of roof measuring: the Measurement Worksheet, which edits  *)
(* one measurement revision, and the Roof Sketch Editor, a full-screen dialog *)
(* over it that edits the sketch of one structure of that revision and hands  *)
(* proposed values to the worksheet's draft.  Field devices and other Office  *)
(* users change both records meanwhile; requests and answers are slow and may *)
(* be lost.                                                                   *)
(*                                                                            *)
(* The measurement is one value (an area) and one hidden value (plane         *)
(* geometry) that the worksheet never edits.  A sketch is a shape `geo' that  *)
(* proposes the area of the same number, and the decision on that proposal;   *)
(* 0 is the empty canvas and the value that supports no proposal.             *)
EXTENDS Naturals, Sequences, FiniteSets, SequencesExt

CONSTANTS
    MaxVal,      \* largest measured value; shapes are 0..MaxVal as well
    MaxActs,     \* what the user does: changes of the draft or of the drawing,
                 \* requests of the worksheet, openings and saves of the sketch
    MaxEvents,   \* saves by others, and lost requests or answers
    MaxHistory,  \* MAX_HISTORY of the undo stack
    Windows      \* behaviours of the code under which a property is known to fail

ASSUME BoundsAssumption ==
    /\ {MaxActs, MaxEvents, MaxHistory} \subseteq Nat /\ MaxVal \in Nat \ {0}
    /\ Windows \subseteq {"previewRequest", "previewAgain", "saveWhileLoading"}

VARIABLES
    office,  \* the server: the revision and its sketch row
    ws,      \* the worksheet: loaded revision, draft, dirty, review, banner
    op,      \* the worksheet's request in progress (busy)
    poll,    \* checkRemote's request in flight
    ed,      \* the sketch editor
    puts,    \* the sketch saves on the wire
    get,     \* the sketch editor's load or reload in flight
    hist     \* budgets and what the properties remember

vars == <<office, ws, op, poll, ed, puts, get, hist>>

Values == 0..MaxVal

NoDec == [st |-> "none", val |-> 0]
EmptyDoc == [geo |-> 0, dec |-> NoDec]
NoRev == [tok |-> 0, val |-> 0, hid |-> 0, editable |-> FALSE]
NoSk == [ver |-> 0, doc |-> EmptyDoc]
NoOp == [kind |-> "none", st |-> "none", body |-> NoRev, mine |-> FALSE, res |-> "none",
         rev |-> NoRev, sk |-> NoSk]
NoPoll == [st |-> "none", rev |-> NoRev]
NoGet == [kind |-> "none", st |-> "none", sk |-> NoSk]

(* initSaveState *)
initSaveState(version) ==
    [gen |-> 0, kept |-> 0, ver |-> version, saving |-> FALSE, phase |-> "saved"]

NoSession == [on |-> FALSE, orig |-> 0, applied |-> 0]

Closed ==
    [open |-> FALSE, loading |-> FALSE, doc |-> EmptyDoc, past |-> <<>>, future |-> <<>>,
     save |-> initSaveState(0), conflict |-> FALSE, confirm |-> FALSE, closing |-> FALSE,
     proposal |-> "none", shape |-> 0, pre |-> [doc |-> EmptyDoc, save |-> initSaveState(0)],
     session |-> NoSession]

Init ==
    /\ \E sk \in {NoSk, [ver |-> 1, doc |-> [EmptyDoc EXCEPT !.geo = 1]]} :
           office = [tok |-> 1, val |-> 0, hid |-> 0, editable |-> TRUE, sk |-> sk]
    /\ ws = [rev |-> [tok |-> 1, val |-> 0, hid |-> 0, editable |-> TRUE], val |-> 0,
             dirty |-> FALSE, mine |-> FALSE, review |-> FALSE, server |-> NoRev, remote |-> FALSE]
    /\ op = NoOp
    /\ poll = NoPoll
    /\ ed = Closed
    /\ puts = {}
    /\ get = NoGet
    /\ hist = [acts |-> 0, events |-> 0,
               safe |-> TRUE, late |-> FALSE, stored |-> {}, ownRev |-> {}, ownSk |-> {},
               disk |-> EmptyDoc]

ServerRev == [tok |-> office.tok, val |-> office.val, hid |-> office.hid, editable |-> office.editable]

SpendEvent == hist.events < MaxEvents
Event == [hist EXCEPT !.events = @ + 1]

SpendAct == hist.acts < MaxActs
Act == [hist EXCEPT !.acts = @ + 1]

------------------------------------------------------------------------------
(* The worksheet's form *)

(* toEditable and the setters that install a revision in the form. *)
Installed(rev) == [ws EXCEPT !.rev = rev, !.val = rev.val, !.dirty = FALSE, !.mine = FALSE]

(* The history record after the user's newest value entered the draft.  A     *)
(* value entered while a request of the worksheet runs is `late'.             *)
Typed == [Act EXCEPT !.safe = FALSE, !.late = op.kind # "none"]

(* The request in progress was built before the newest value. *)
Overtaken == IF op.kind = "none" THEN op ELSE [op EXCEPT !.mine = FALSE]

(* setRow, addRow, delRow, setEdgePart, setSummary, setSiteOffsets and         *)
(* addRoofLines: any field of the form.                                       *)
setRow(v) ==
    /\ ~ed.open
    /\ ws.rev.editable
    /\ SpendAct
    /\ ws' = [ws EXCEPT !.val = v, !.dirty = TRUE, !.mine = TRUE]
    /\ op' = Overtaken
    /\ hist' = Typed
    /\ UNCHANGED <<office, poll, ed, puts, get>>

(* A request of the worksheet starts: setBusy(true). *)
Ask(kind, body, mine) ==
    /\ op.kind = "none"
    /\ SpendAct
    /\ op' = [NoOp EXCEPT !.kind = kind, !.st = "sent", !.body = body, !.mine = mine]
    /\ hist' = Act

buildEditablePayload == [ws.rev EXCEPT !.val = ws.val]

(* buildRebasePayload: the hidden values come from the server's copy. *)
buildRebasePayload == [ws.server EXCEPT !.val = ws.val]

save ==
    /\ ~ed.open
    /\ ws.rev.editable /\ ws.dirty /\ ~ws.review
    /\ Ask("save", buildEditablePayload, ws.mine)
    /\ UNCHANGED <<office, ws, poll, ed, puts, get>>

keepMyVersion ==
    /\ ~ed.open
    /\ ws.review /\ ws.server # NoRev
    /\ Ask("keep", buildRebasePayload, ws.mine)
    /\ UNCHANGED <<office, ws, poll, ed, puts, get>>

(* useLatestVersion installs the copy that came with the refusal, or loads. *)
useLatestVersion ==
    /\ ~ed.open
    /\ ws.review
    /\ \/ /\ ws.server # NoRev /\ op.kind = "none"
          /\ ws' = [Installed(ws.server) EXCEPT !.review = FALSE, !.server = NoRev]
          /\ hist' = [hist EXCEPT !.safe = TRUE]
          /\ UNCHANGED op
       \/ /\ ws.server = NoRev
          /\ Ask("load", NoRev, FALSE)
          /\ UNCHANGED ws
    /\ UNCHANGED <<office, poll, ed, puts, get>>

loadRemoteLatest ==
    /\ ~ed.open
    /\ ws.remote /\ ~ws.review
    /\ Ask("load", NoRev, FALSE)
    /\ UNCHANGED <<office, ws, poll, ed, puts, get>>

dismissRemote ==
    /\ ~ed.open
    /\ ws.remote /\ ~ws.review /\ op.kind = "none"
    /\ ws' = [ws EXCEPT !.remote = FALSE]
    /\ UNCHANGED <<office, op, poll, ed, puts, get, hist>>

(* changeStatus and unlockRevision: the revision becomes read-only (Office     *)
(* Verify) or editable again (Return to field, Unlock); the form is replaced. *)
changeStatus ==
    /\ ~ed.open
    /\ Ask("status", [ws.rev EXCEPT !.editable = ~@], FALSE)
    /\ UNCHANGED <<office, ws, poll, ed, puts, get>>

------------------------------------------------------------------------------
(* The server's side of the worksheet's requests *)

token_conflict_Never(tok) == FALSE
token_conflict(tok) == tok # office.tok

(* replace_revision: a stale token or a read-only revision is refused with    *)
(* 409; only the first refusal carries the server's copy.                     *)
replace_revision ==
    /\ op.kind \in {"save", "keep"} /\ op.st = "sent"
    /\ \/ /\ token_conflict(op.body.tok)
          /\ op' = [op EXCEPT !.st = "done", !.res = "conflict", !.rev = ServerRev]
          /\ UNCHANGED <<office, hist>>
       \/ /\ ~token_conflict(op.body.tok) /\ ~office.editable
          /\ op' = [op EXCEPT !.st = "done", !.res = "conflict"]
          /\ UNCHANGED <<office, hist>>
       \/ /\ ~token_conflict(op.body.tok) /\ office.editable
          /\ office' = [office EXCEPT !.tok = @ + 1, !.val = op.body.val, !.hid = op.body.hid]
          /\ op' = [op EXCEPT !.st = "done", !.res = "ok",
                              !.rev = [op.body EXCEPT !.tok = office.tok + 1, !.editable = TRUE]]
          /\ hist' = [hist EXCEPT !.safe = @ \/ op.mine, !.stored = @ \cup {op.body.val},
                                  !.ownRev = @ \cup {office.tok + 1}]
    /\ UNCHANGED <<ws, poll, ed, puts, get>>

(* change_status and unlock_revision take no token. *)
change_status ==
    /\ op.kind = "status" /\ op.st = "sent"
    /\ \/ /\ office.editable # op.body.editable
          /\ office' = [office EXCEPT !.tok = @ + 1, !.editable = op.body.editable]
          /\ op' = [op EXCEPT !.st = "done", !.res = "ok",
                        !.rev = [ServerRev EXCEPT !.tok = office.tok + 1, !.editable = op.body.editable]]
       \/ /\ office.editable = op.body.editable
          /\ op' = [op EXCEPT !.st = "done", !.res = "error"]
          /\ UNCHANGED office
    /\ UNCHANGED <<ws, poll, ed, puts, get, hist>>

get_revision ==
    /\ op.kind = "load" /\ op.st = "sent"
    /\ op' = [op EXCEPT !.st = "done", !.res = "ok", !.rev = ServerRev]
    /\ UNCHANGED <<office, ws, poll, ed, puts, get, hist>>

(* The request or its answer is lost: the call rejects without a status. *)
OpFails ==
    /\ op.st \in {"sent", "done"} /\ op.res \in {"none", "ok"} /\ op.kind # "finalize"
    /\ SpendEvent
    /\ op' = [op EXCEPT !.st = "done", !.res = "error", !.rev = NoRev]
    /\ hist' = Event
    /\ UNCHANGED <<office, ws, poll, ed, puts, get>>

(* save and keepMyVersion when the answer arrives. *)

SaveAnswered ==
    /\ op.kind \in {"save", "keep"} /\ op.st = "done"
    /\ \/ /\ op.res = "ok"
          /\ ws' = [Installed(op.rev) EXCEPT !.mine = op.mine,
                        !.review = IF op.kind = "keep" THEN FALSE ELSE @,
                        !.server = IF op.kind = "keep" THEN NoRev ELSE @]
          /\ op' = [NoOp EXCEPT !.kind = "finalize", !.st = "sent", !.rev = op.rev]
       \/ /\ op.res = "conflict"
          /\ ws' = [ws EXCEPT !.review = TRUE, !.server = op.rev]
          /\ op' = NoOp
       \/ /\ op.res = "error"
          /\ op' = NoOp
          /\ UNCHANGED ws
    /\ UNCHANGED <<office, poll, ed, puts, get, hist>>

(* loadRevision, changeStatus and unlockRevision when the answer arrives: the *)
(* user asked for the form to be replaced.                                    *)
LoadAnswered ==
    /\ op.kind \in {"load", "status"} /\ op.st = "done"
    /\ \/ /\ op.res = "ok"
          /\ ws' = [Installed(op.rev) EXCEPT
                        !.remote = IF op.kind = "load" THEN FALSE ELSE @,
                        !.review = IF op.kind = "load" THEN FALSE ELSE @,
                        !.server = IF op.kind = "load" THEN NoRev ELSE @]
          /\ hist' = [hist EXCEPT !.safe = TRUE]
       \/ /\ op.res = "error"
          /\ UNCHANGED <<ws, hist>>
    /\ op' = NoOp
    /\ UNCHANGED <<office, poll, ed, puts, get>>

------------------------------------------------------------------------------
(* finalizePending: promote the pending decisions the saved value confirms.   *)

finalizeAfterSave(dec, saved) ==
    IF dec.st = "pending" /\ dec.val = saved THEN [dec EXCEPT !.st = "accepted"] ELSE dec

(* listSketches answers with the row; nothing to promote ends the request. *)
FinalizeRead ==
    /\ op.kind = "finalize" /\ op.st = "sent"
    /\ LET dec == office.sk.doc.dec IN
       \/ /\ office.sk.ver # 0 /\ dec.st = "pending" /\ finalizeAfterSave(dec, op.rev.val) # dec
          /\ op' = [op EXCEPT !.st = "done", !.sk = office.sk]
          /\ UNCHANGED hist
       \/ /\ ~(office.sk.ver # 0 /\ dec.st = "pending" /\ finalizeAfterSave(dec, op.rev.val) # dec)
          /\ op' = NoOp
          /\ UNCHANGED hist
       \/ /\ SpendEvent
          /\ op' = NoOp
          /\ hist' = Event
    /\ UNCHANGED <<office, ws, poll, ed, puts, get>>

save_sketch_Blind(version) == TRUE
(* save_sketch's compare-and-swap; 0 stands for no row and for a null version. *)
save_sketch(version) == office.sk.ver = version

(* The second sketch save carries only the promoted decision. *)
FinalizeSave ==
    /\ op.kind = "finalize" /\ op.st = "done"
    /\ \/ /\ office.editable /\ save_sketch(op.sk.ver)
          /\ office' = [office EXCEPT !.sk =
                 [ver |-> op.sk.ver + 1,
                  doc |-> [op.sk.doc EXCEPT !.dec = finalizeAfterSave(@, op.rev.val)]]]
          /\ UNCHANGED hist
       \/ /\ ~(office.editable /\ save_sketch(op.sk.ver))
          /\ UNCHANGED <<office, hist>>
       \/ /\ SpendEvent
          /\ hist' = Event
          /\ UNCHANGED office
    /\ op' = NoOp
    /\ UNCHANGED <<ws, poll, ed, puts, get>>

------------------------------------------------------------------------------
(* checkRemote: every 15 seconds and on focus.  It is not started while busy, *)
(* but its request may reach the server after a request of the form started.  *)

PollRead ==
    /\ poll.st = "none"
    /\ poll' = [st |-> "done", rev |-> ServerRev]
    /\ UNCHANGED <<office, ws, op, ed, puts, get, hist>>

PollFails ==
    /\ poll.st = "done"
    /\ SpendEvent
    /\ poll' = NoPoll
    /\ hist' = Event
    /\ UNCHANGED <<office, ws, op, ed, puts, get>>

(* The answer is compared with the loaded revision of now, and adopted only   *)
(* when the form holds no unsaved work.                                       *)
Adopted_Always(latest) ==
    IF latest.tok = ws.rev.tok THEN ws ELSE [Installed(latest) EXCEPT !.remote = FALSE]
Adopted_Asks(latest) ==
    IF latest.tok = ws.rev.tok THEN ws ELSE [ws EXCEPT !.remote = TRUE]
Adopted(latest) ==
    IF latest.tok = ws.rev.tok THEN ws
    ELSE IF ws.dirty \/ ws.review THEN [ws EXCEPT !.remote = TRUE]
    ELSE [Installed(latest) EXCEPT !.remote = FALSE]

checkRemote ==
    /\ poll.st = "done"
    /\ ws' = Adopted(poll.rev)
    /\ poll' = NoPoll
    /\ UNCHANGED <<office, op, ed, puts, get, hist>>

------------------------------------------------------------------------------
(* Save lifecycle and undo stack of the sketch editor *)

Failed == {"conflict", "validation", "error"}

markEdited(s) == [s EXCEPT !.gen = @ + 1, !.phase = IF s.saving THEN "saving" ELSE "unsaved"]

isDirty(s) == s.gen # s.kept

isCleanState(s) == ~isDirty(s) /\ s.phase \notin Failed

beginSave(s) == [s EXCEPT !.saving = TRUE, !.phase = "saving"]

resolveSaveSuccess(s, gen, version) ==
    LET kept == IF gen > s.kept THEN gen ELSE s.kept
    IN  [s EXCEPT !.saving = FALSE, !.ver = version, !.kept = kept,
                  !.phase = IF s.gen # kept THEN "unsaved" ELSE "saved"]

resolveSaveFailure(s, kind) == [s EXCEPT !.saving = FALSE, !.phase = kind]

adoptServerVersion(s, version) == initSaveState(version)

Trim(seq) == IF Len(seq) > MaxHistory THEN Tail(seq) ELSE seq

(* H.push through ctl.run: an undo entry and a new generation. *)
Run(e, doc) ==
    [e EXCEPT !.past = Trim(Append(e.past, e.doc)), !.future = <<>>, !.doc = doc,
              !.save = markEdited(e.save)]

(* hist.reset *)
Reset(e, doc) == [e EXCEPT !.past = <<>>, !.future = <<>>, !.doc = doc]

readOnly == ~ws.rev.editable

(* The user can reach the canvas and its panels. *)
AtCanvas == ed.open /\ ~ed.loading /\ ~ed.confirm /\ ~ed.closing

(* Any command of the canvas or the inspector that changes the drawing. *)
edit(g) ==
    /\ AtCanvas /\ ~readOnly /\ SpendAct
    /\ ed' = Run(ed, [ed.doc EXCEPT !.geo = g])
    /\ hist' = Act
    /\ UNCHANGED <<office, ws, op, poll, puts, get>>

(* doUndo and doRedo: also from the keyboard, which no read-only revision,     *)
(* loading or empty stack holds back; only the close dialog does (resolveKey). *)
doUndo ==
    /\ ed.open /\ ~ed.confirm /\ SpendAct
    /\ ed' = LET moved == IF ed.past = <<>> THEN ed
                 ELSE [ed EXCEPT !.past = Front(ed.past), !.doc = Last(ed.past),
                                 !.future = SubSeq(<<ed.doc>> \o ed.future, 1,
                                     IF Len(ed.future) < MaxHistory THEN Len(ed.future) + 1 ELSE MaxHistory)]
             IN  [moved EXCEPT !.save = markEdited(@)]
    /\ hist' = Act
    /\ UNCHANGED <<office, ws, op, poll, puts, get>>

doRedo ==
    /\ ed.open /\ ~ed.confirm /\ SpendAct
    /\ ed' = LET moved == IF ed.future = <<>> THEN ed
                 ELSE [ed EXCEPT !.past = Trim(Append(ed.past, ed.doc)), !.doc = Head(ed.future),
                                 !.future = Tail(ed.future)]
             IN  [moved EXCEPT !.save = markEdited(@)]
    /\ hist' = Act
    /\ UNCHANGED <<office, ws, op, poll, puts, get>>

------------------------------------------------------------------------------
(* Opening, loading and reloading a sketch *)

(* getSketch: the row as it is when the request reaches the server. *)
getSketch(kind) == get' = [kind |-> kind, st |-> "done", sk |-> office.sk]

OpenEditor ==
    /\ ~ed.open
    /\ get.st = "none"
    /\ SpendAct
    /\ ed' = [Closed EXCEPT !.open = TRUE, !.loading = TRUE]
    /\ getSketch("load")
    /\ hist' = [Act EXCEPT !.disk = EmptyDoc]
    /\ UNCHANGED <<office, ws, op, poll, puts>>

(* The answer to an open editor; Unmount drops the others (`alive'). *)
GetAnswered ==
    /\ get.st = "done"
    /\ \/ /\ get.kind = "load"
          /\ ed' = [Reset(ed, get.sk.doc) EXCEPT !.loading = FALSE, !.save = initSaveState(get.sk.ver)]
          /\ hist' = [hist EXCEPT !.disk = get.sk.doc]
       \/ /\ get.kind = "reload" /\ get.sk.ver # 0
          /\ ed' = [Reset(ed, get.sk.doc) EXCEPT !.save = adoptServerVersion(ed.save, get.sk.ver),
                                                 !.conflict = FALSE]
          /\ hist' = [hist EXCEPT !.disk = get.sk.doc]
       \/ /\ get.kind = "reload" /\ get.sk.ver = 0
          /\ ed' = [ed EXCEPT !.conflict = FALSE]
          /\ UNCHANGED hist
    /\ get' = NoGet
    /\ UNCHANGED <<office, ws, op, poll, puts>>

(* A failed load leaves an empty canvas without a version, which can be drawn *)
(* on; a failed reload changes nothing.                                       *)
GetFails ==
    /\ get.st # "none"
    /\ SpendEvent
    /\ ed' = [ed EXCEPT !.loading = FALSE]
    /\ get' = NoGet
    /\ hist' = Event
    /\ UNCHANGED <<office, ws, op, poll, puts>>

reloadServer ==
    /\ ed.open /\ ed.conflict /\ ~ed.confirm
    /\ get.st = "none"
    /\ ed.proposal = "preview" => "previewRequest" \in Windows
    /\ getSketch("reload")
    /\ UNCHANGED <<office, ws, op, poll, ed, puts, hist>>

------------------------------------------------------------------------------
(* Saving a sketch *)

(* doSave: refused while a save is in flight; the request is frozen with the  *)
(* generation and the version of now.                                         *)
doSave ==
    /\ ~ed.save.saving /\ SpendAct
    /\ ed.proposal = "preview" => "previewRequest" \in Windows
    /\ get.st # "none" => "saveWhileLoading" \in Windows
    /\ Cardinality(puts) < 2
    /\ \A p \in puts : p.gen # ed.save.gen
    /\ puts' = puts \cup {[doc |-> ed.doc, gen |-> ed.save.gen, ver |-> ed.save.ver,
                           st |-> "sent", res |-> "none", live |-> TRUE]}
    /\ hist' = Act

Save ==
    /\ ed.open /\ ~ed.confirm /\ ~readOnly
    /\ doSave
    /\ ed' = [ed EXCEPT !.save = beginSave(ed.save), !.conflict = FALSE]
    /\ UNCHANGED <<office, ws, op, poll, get>>

put_sketch ==
    \E p \in puts :
        /\ p.st = "sent"
        /\ \/ /\ office.editable /\ save_sketch(p.ver)
              /\ office' = [office EXCEPT !.sk = [ver |-> @.ver + 1, doc |-> p.doc]]
              /\ puts' = (puts \ {p}) \cup {[p EXCEPT !.st = "done", !.res = "ok", !.ver = office.sk.ver + 1]}
              /\ hist' = [hist EXCEPT !.ownSk = @ \cup {office.sk.ver + 1}]
           \/ /\ office.editable /\ ~save_sketch(p.ver)
              /\ puts' = (puts \ {p}) \cup {[p EXCEPT !.st = "done", !.res = "conflict"]}
              /\ UNCHANGED <<office, hist>>
           \/ /\ ~office.editable
              /\ puts' = (puts \ {p}) \cup {[p EXCEPT !.st = "done", !.res = "locked"]}
              /\ UNCHANGED <<office, hist>>
        /\ UNCHANGED <<ws, op, poll, ed, get>>

(* saveSketch: a 409 without the server's copy (a locked revision) is a        *)
(* conflict without a banner; any lost request or answer is an error.         *)
Applied(p) ==
    CASE p.res = "ok" -> [ed EXCEPT !.save = resolveSaveSuccess(@, p.gen, p.ver)]
      [] p.res = "conflict" -> [ed EXCEPT !.save = resolveSaveFailure(@, "conflict"), !.conflict = TRUE]
      [] p.res = "locked" -> [ed EXCEPT !.save = resolveSaveFailure(@, "conflict"), !.conflict = FALSE]
      [] p.res = "error" -> [ed EXCEPT !.save = resolveSaveFailure(@, "error")]

(* The answer of a closed editor's save changes nothing. *)
PutAnswered ==
    \E p \in puts :
        /\ p.st = "done"
        /\ puts' = puts \ {p}
        /\ \/ /\ p.live
              /\ LET after == Applied(p)
                     closes == ed.closing /\ p.res = "ok" /\ isCleanState(after.save)
                 IN  ed' = IF closes THEN Closed ELSE [after EXCEPT !.closing = FALSE]
              /\ hist' = [hist EXCEPT !.disk = IF p.res = "ok" THEN p.doc ELSE @]
           \/ /\ ~p.live
              /\ UNCHANGED <<ed, hist>>
        /\ UNCHANGED <<office, ws, op, poll, get>>

PutFails ==
    /\ SpendEvent
    /\ \E p \in puts :
           /\ p.st = "sent" \/ p.res = "ok"
           /\ puts' = (puts \ {p}) \cup {[p EXCEPT !.st = "done", !.res = "error"]}
    /\ hist' = Event
    /\ UNCHANGED <<office, ws, op, poll, ed, get>>

------------------------------------------------------------------------------
(* Proposals of a drawing and their decisions *)

(* recordEditorChange keeps the first original value of the session. *)
recordEditorChange(s, original, applied) ==
    [on |-> TRUE, orig |-> IF s.on THEN s.orig ELSE original, applied |-> applied]

(* applySketchProposal *)
DraftTakes(v) == [ws EXCEPT !.val = v, !.dirty = TRUE, !.mine = TRUE]

(* acceptProposal records a pending decision and puts the value in the draft. *)
acceptProposal ==
    /\ AtCanvas /\ ~readOnly /\ ed.doc.geo # 0
    /\ SpendAct
    /\ ed' = [Run(ed, [ed.doc EXCEPT !.dec = [st |-> "pending", val |-> ed.doc.geo]])
                 EXCEPT !.session = recordEditorChange(@, ws.val, ed.doc.geo)]
    /\ ws' = DraftTakes(ed.doc.geo)
    /\ op' = Overtaken
    /\ hist' = Typed
    /\ UNCHANGED <<office, poll, puts, get>>

(* keepProposal and keepPending *)
keepProposal ==
    /\ AtCanvas /\ ~readOnly /\ SpendAct
    /\ ed.doc.geo # 0 \/ ed.doc.dec.st = "pending"
    /\ ed' = Run(ed, [ed.doc EXCEPT !.dec = [st |-> "keep", val |-> 0]])
    /\ hist' = Act
    /\ UNCHANGED <<office, ws, op, poll, puts, get>>

(* applyPending: a pending decision of an earlier session, applied again. *)
applyPending ==
    /\ AtCanvas /\ ~readOnly /\ ed.doc.dec.st = "pending"
    /\ SpendAct
    /\ ed' = [ed EXCEPT !.session = recordEditorChange(@, ws.val, ed.doc.dec.val)]
    /\ ws' = DraftTakes(ed.doc.dec.val)
    /\ op' = Overtaken
    /\ hist' = Typed
    /\ UNCHANGED <<office, poll, puts, get>>

------------------------------------------------------------------------------
(* Proposed sketches, generated from the worksheet's draft *)

generateSketchGeometry == ws.val

(* generateProposed: offered for an empty canvas without a saved sketch, and  *)
(* again from the placement questions of a preview.                           *)
generateProposed ==
    /\ AtCanvas /\ ~readOnly /\ ed.save.ver = 0
    /\ ed.save.saving \/ get.st # "none" => "previewRequest" \in Windows
    /\ \/ ed.proposal = "none" /\ ed.doc.geo = 0
       \/ ed.proposal = "preview" /\ "previewAgain" \in Windows
    /\ ed' = [ed EXCEPT !.pre = [doc |-> ed.doc, save |-> ed.save], !.proposal = "preview",
                        !.shape = generateSketchGeometry,
                        !.doc = IF generateSketchGeometry # 0
                                THEN [EmptyDoc EXCEPT !.geo = generateSketchGeometry] ELSE @]
    /\ UNCHANGED <<office, ws, op, poll, puts, get, hist>>

useProposed ==
    /\ AtCanvas /\ ~readOnly /\ ed.proposal = "preview" /\ ed.shape # 0 /\ SpendAct
    /\ ed' = [Reset(ed, [EmptyDoc EXCEPT !.geo = ed.shape]) EXCEPT
                 !.save = markEdited(ed.save), !.proposal = "none", !.shape = 0,
                 !.pre = Closed.pre]
    /\ hist' = Act
    /\ UNCHANGED <<office, ws, op, poll, puts, get>>

(* cancelProposed puts the canvas and the save state of before back. *)
Cancelled(e) == [Reset(e, e.pre.doc) EXCEPT !.save = e.pre.save]

cancelProposed ==
    /\ AtCanvas /\ ~readOnly /\ ed.proposal = "preview"
    /\ ed' = [Cancelled(ed) EXCEPT !.proposal = "none", !.shape = 0, !.pre = Closed.pre]
    /\ UNCHANGED <<office, ws, op, poll, puts, get, hist>>

(* regenerateProposed: a review beside an existing sketch. *)
regenerateProposed ==
    /\ AtCanvas /\ ~readOnly /\ ed.save.ver # 0 /\ ed.doc.geo # 0 /\ ed.proposal = "none"
    /\ ed' = [ed EXCEPT !.proposal = "review", !.shape = generateSketchGeometry]
    /\ UNCHANGED <<office, ws, op, poll, puts, get, hist>>

regenKeepCurrent ==
    /\ AtCanvas /\ ed.proposal \in {"review", "confirm"}
    /\ ed' = [ed EXCEPT !.proposal = "none", !.shape = 0]
    /\ UNCHANGED <<office, ws, op, poll, puts, get, hist>>

(* The first press asks, the second replaces the drawing. *)
regenUseProposed ==
    /\ AtCanvas /\ ~readOnly /\ ed.shape # 0 /\ ed.shape # ed.doc.geo
    /\ \/ /\ ed.proposal = "review"
          /\ ed' = [ed EXCEPT !.proposal = "confirm"]
          /\ UNCHANGED hist
       \/ /\ ed.proposal = "confirm" /\ SpendAct
          /\ ed' = [Reset(ed, [EmptyDoc EXCEPT !.geo = ed.shape]) EXCEPT
                       !.save = markEdited(ed.save), !.proposal = "none", !.shape = 0]
          /\ hist' = Act
    /\ UNCHANGED <<office, ws, op, poll, puts, get>>

------------------------------------------------------------------------------
(* Closing the editor *)

(* Unmounting: requests in flight are no longer listened to. *)
Unmount ==
    /\ ed' = Closed
    /\ puts' = {[p EXCEPT !.live = FALSE] : p \in puts}
    /\ get' = NoGet

requestClose ==
    /\ ed.open /\ ~ed.confirm /\ ~ed.save.saving
    /\ \/ /\ ~isCleanState(ed.save)
          /\ ed' = [ed EXCEPT !.confirm = TRUE]
          /\ UNCHANGED <<puts, get>>
       \/ /\ isCleanState(ed.save)
          /\ Unmount
    /\ UNCHANGED <<office, ws, op, poll, hist>>

continueEditing ==
    /\ ed.confirm /\ ~ed.closing
    /\ ed' = [ed EXCEPT !.confirm = FALSE]
    /\ UNCHANGED <<office, ws, op, poll, puts, get, hist>>

(* rollbackPlan: only a value that is still the one the editor applied. *)
rollbackPlan(s) == s.on /\ ws.val = s.applied

(* discardAndClose with discardEditorSession: the worksheet's value goes back  *)
(* to the one before the session; dirty is left alone.                        *)
discardAndClose ==
    /\ ed.confirm /\ ~ed.closing /\ ~ed.save.saving
    /\ ws' = IF rollbackPlan(ed.session) THEN [ws EXCEPT !.val = ed.session.orig] ELSE ws
    /\ hist' = [hist EXCEPT !.safe = @ \/ ed.session.on]
    /\ Unmount
    /\ UNCHANGED <<office, op, poll>>

saveAndClose ==
    /\ ed.confirm /\ ~ed.closing
    /\ doSave
    /\ ed' = [ed EXCEPT !.closing = TRUE, !.save = beginSave(ed.save), !.conflict = FALSE]
    /\ UNCHANGED <<office, ws, op, poll, get>>

------------------------------------------------------------------------------
(* Other people: Field devices and other Office users *)

FieldMeasures ==
    /\ SpendEvent /\ office.editable
    /\ \/ \E v \in Values \ {office.val} : office' = [office EXCEPT !.tok = @ + 1, !.val = v]
       \/ office' = [office EXCEPT !.tok = @ + 1, !.hid = @ + 1]
    /\ hist' = Event
    /\ UNCHANGED <<ws, op, poll, ed, puts, get>>

OtherStatus ==
    /\ SpendEvent
    /\ office' = [office EXCEPT !.tok = @ + 1, !.editable = ~@]
    /\ hist' = Event
    /\ UNCHANGED <<ws, op, poll, ed, puts, get>>

FieldSketches ==
    /\ SpendEvent /\ office.editable
    /\ \E g \in Values \ {0, office.sk.doc.geo} :
           office' = [office EXCEPT !.sk.ver = @ + 1, !.sk.doc.geo = g]
    /\ hist' = Event
    /\ UNCHANGED <<ws, op, poll, ed, puts, get>>

------------------------------------------------------------------------------
WorksheetUser ==
    \/ \E v \in Values \ {ws.val} : setRow(v)
    \/ save \/ keepMyVersion \/ useLatestVersion \/ loadRemoteLatest \/ dismissRemote \/ changeStatus

Wire ==
    \/ replace_revision \/ change_status \/ get_revision \/ SaveAnswered \/ LoadAnswered
    \/ FinalizeRead \/ FinalizeSave

Polling == PollRead \/ checkRemote

SketchUser ==
    \/ OpenEditor
    \/ \E g \in Values \ {ed.doc.geo} : edit(g)
    \/ doUndo \/ doRedo \/ reloadServer \/ Save
    \/ acceptProposal \/ keepProposal \/ applyPending
    \/ generateProposed \/ useProposed \/ cancelProposed
    \/ regenerateProposed \/ regenKeepCurrent \/ regenUseProposed
    \/ requestClose \/ continueEditing \/ discardAndClose \/ saveAndClose

SketchWire == GetAnswered \/ put_sketch \/ PutAnswered

Faults == OpFails \/ PollFails \/ GetFails \/ PutFails

Others == FieldMeasures \/ OtherStatus \/ FieldSketches

Next == WorksheetUser \/ Wire \/ Polling \/ SketchUser \/ SketchWire \/ Faults \/ Others

Spec == Init /\ [][Next]_vars

(* The browser's timers fire and its requests are answered or fail. *)
FairSpec == Spec /\ WF_vars(Wire) /\ WF_vars(Polling)

------------------------------------------------------------------------------
(* Properties *)

(* The newest value the user put in the worksheet's draft is still there, is  *)
(* stored on the server, or was given up by a choice of the user.  A value    *)
(* entered while a request of the worksheet is running is excepted: the       *)
(* answer replaces the form it was entered in.                                *)
NothingTypedIsLost == hist.safe \/ hist.late \/ ws.mine

(* A worksheet without unsaved changes shows the values of the revision it    *)
(* loaded (Save is offered, and a refresh withheld, by `dirty' alone).  With  *)
(* the same exception: discarding a session whose value was entered while the *)
(* form was being replaced takes back a value that is now the server's.       *)
CleanFormShowsRevision == ws.dirty \/ hist.late \/ ws.val = ws.rev.val

(* While the editor claims to be saved, the drawing on the canvas is the one  *)
(* it last loaded from or stored on the server (dirty is the generation's).   *)
SavedMeansStored ==
    ed.open /\ ~ed.loading /\ ed.proposal # "preview" /\ ed.save.phase = "saved"
        => ~isDirty(ed.save) /\ ed.doc = hist.disk

(* A decision is `accepted' on the server only for a value that a save of the *)
(* worksheet stored in the measurement (proposalLifecycle's core rule).       *)
AcceptedWasStored ==
    office.sk.doc.dec.st = "accepted" => office.sk.doc.dec.val \in hist.stored

(* Office never reverts what it does not edit: neither a save nor Keep My     *)
(* Version takes the hidden values of the measurement back to older ones.     *)
HiddenNeverReverts == [][office'.hid >= office.hid]_vars

(* The worksheet implements SharedDraft: it only writes over the revision its *)
(* form was loaded from or the one the user was shown and chose to replace.   *)
WorksheetDraft ==
    INSTANCE SharedDraft WITH
        ver <- office.tok,
        base <- ws.rev.tok,
        work <- ws.dirty,
        offer <- ws.server.tok,
        own <- hist.ownRev
WorksheetNeverOverwritesUnseen == WorksheetDraft!Spec

(* The sketch editor implements SharedDraft as well. *)
SketchDraft ==
    INSTANCE SharedDraft WITH
        ver <- office.sk.ver,
        base <- ed.save.ver,
        work <- isDirty(ed.save),
        offer <- 0,
        own <- hist.ownSk
SketchNeverOverwritesUnseen == SketchDraft!Spec

(* The worksheet keeps coming back to the server's revision, or to a state    *)
(* in which the user has to decide (unsaved changes, a review).               *)
WorksheetCatchesUp == []<>(ws.dirty \/ ws.review \/ ws.rev = ServerRev)
=============================================================================
