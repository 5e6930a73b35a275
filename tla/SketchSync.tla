----------------------------- MODULE SketchSync -----------------------------
(***************************************************************************)
(* The life of one Roof Sketch - one (revision, structure) pair - between  *)
(* a Field device and RoofSpan Office.  On the device: the open editor and *)
(* its persist chain, the durable draft, the cached copy of the Office     *)
(* sketch, the single coalesced queue row, the sync engine's pass and the  *)
(* in-memory CAS floor.  In Office: the versioned document with its        *)
(* compare-and-swap save and the lock on the revision.  Between them:      *)
(* requests that can be late, and answers that can be lost.                *)
(*                                                                         *)
(* A document is an integer: 0 is the blank document, the Field device's   *)
(* k-th commit writes document k, Office's k-th own save writes -k.        *)
(* Version 0, generation 0 and row state "none" stand for an absent record.*)
(***************************************************************************)
EXTENDS Integers, Sequences, FiniteSets

CONSTANTS
    MaxCommits,   \* bound: Field commits
    MaxSaves,     \* bound: saves made by Office's own sketch editor
    MaxFaults,    \* bound: lost answers, failed device writes, app crashes
    MaxOpens,     \* bound: times the sketch screen is opened
    Refreshes,    \* TRUE iff refreshLead may run (invalidations, foreground)
    MaxRemovals,  \* bound: times the rep removes the row in the Sync Center
    OtherRows,    \* TRUE iff a pass may also send other rows (photos, visits) before
                  \* it writes any result back
    TapsMidWrite  \* TRUE iff the rep's taps may fall between device writes under way

ASSUME BoundsAssumption ==
    /\ {MaxCommits, MaxSaves, MaxFaults, MaxOpens, MaxRemovals} \subseteq Nat
    /\ {Refreshes, OtherRows, TapsMidWrite} \subseteq BOOLEAN

VARIABLES
    office,    \* measurement_sketch_documents row: [ver, doc]
    editable,  \* is_editable(revision)
    wire,      \* PUT requests Office has not handled yet
    row,       \* the pending_mutations row of this sketch
    draft,     \* cache["sketch-draft:..."]
    detail,    \* cache["sketch:..."], the cached Office copy
    floor,     \* roofSketchCasFloor, process memory
    editor,    \* RoofSketch screen: controller + coordinator + UI flags
    chain,     \* the controller's serialized persist chain
    opening,   \* the screen's open sequence, between its awaits
    review,    \* a conflict resolution between reading and committing
    pass,      \* the running runSync pass
    timer,     \* _retryTimer is armed
    rerun,     \* _rerunRequested
    pulling,   \* refreshLead decided to fetch and has not cached it yet
    removed,   \* the row the Sync Center's Undo would restore
    budget,    \* how often each bounded event has happened
    known,     \* history: Office contents each Field document was made in view of
    accepted,  \* history: Field documents Office has stored
    newest     \* history: newest durable Field document not discarded by the rep

device == <<row, draft, detail, floor, editor, chain, opening, review>>
engine == <<pass, timer, rerun>>
server == <<office, editable, wire>>
history == <<known, accepted, newest>>
vars == <<device, engine, server, pulling, removed, budget, history>>

-----------------------------------------------------------------------------
(* Records *)

States == {"none", "pending", "synced", "failed", "conflict", "locked"}
Active == {"pending", "failed", "conflict"}    \* hasActiveMutation
Unsynced == {"pending", "failed", "conflict", "locked"}

Docs == (-MaxSaves)..MaxCommits
Versions == Nat
Sketches == [ver : Versions, doc : Docs]
NoSketch == [ver |-> 0, doc |-> 0]

NoDraft == [gen |-> 0, doc |-> 0, ver |-> 0]
NoRow == [state |-> "none", doc |-> 0, exp |-> 0, lgen |-> 0, gen |-> 0, srv |-> NoSketch]
NoEditor == [open |-> FALSE, doc |-> 0, gen |-> 0, ver |-> 0, persisted |-> 0, err |-> FALSE,
             staged |-> 0, due |-> FALSE, ui |-> "ok", offer |-> NoSketch]
NoOpening == [step |-> "no", draft |-> NoDraft, server |-> NoSketch]
NoReview == [choice |-> "no", lgen |-> 0, gen |-> 0, office |-> NoSketch, local |-> 0]
AckPhases == {"ackDetail", "ackDraft", "ackRow", "ackFloor"}
NoPass == [phase |-> "idle", item |-> NoRow]

MaxOf(a, b) == IF a >= b THEN a ELSE b

Init ==
    /\ office = NoSketch /\ editable = TRUE /\ wire = {}
    /\ row = NoRow /\ draft = NoDraft /\ detail = NoSketch /\ floor = 0
    /\ editor = NoEditor /\ chain = <<>> /\ opening = NoOpening /\ review = NoReview
    /\ pass = NoPass /\ timer = FALSE /\ rerun = FALSE
    /\ pulling = FALSE /\ removed = NoRow
    /\ budget = [commits |-> 0, saves |-> 0, faults |-> 0, opens |-> 0,
                removals |-> 0]
    /\ known = [d \in Docs |-> {0, d}] /\ accepted = {} /\ newest = 0

-----------------------------------------------------------------------------
(* The sync engine's trigger: runSync() is single-flight, a call that finds a
   pass running only asks for one more. *)
RunSync_Forgetful ==
    IF pass.phase = "idle"
    THEN pass' = [NoPass EXCEPT !.phase = "start"] /\ rerun' = rerun
    ELSE pass' = pass /\ rerun' = rerun

RunSync ==
    IF pass.phase = "idle"
    THEN pass' = [NoPass EXCEPT !.phase = "start"] /\ rerun' = rerun
    ELSE pass' = pass /\ rerun' = TRUE

-----------------------------------------------------------------------------
(* Opening the sketch screen: three awaits, three steps. *)

CanStage_OffByOne ==
    /\ editor.ui = "ok" /\ editor.offer = NoSketch
    /\ editor.persisted >= editor.gen /\ ~editor.err
    /\ editor.gen > editor.staged + 1

(* What coordinator.stage accepts: an unblocked screen whose newest commit is
   durable and not staged yet. *)
CanStage ==
    /\ editor.ui = "ok" /\ editor.offer = NoSketch
    /\ editor.persisted >= editor.gen /\ ~editor.err
    /\ editor.gen > editor.staged

(* Timing: a burst of local SQLite writes (a persist, a resolution, the writes of
   a pass that has its answer) is over before the rep's next tap, unless
   TapsMidWrite; a pass holding an answer is no burst when it has other rows to send. *)
Burst == pass.phase \in AckPhases \/ (pass.phase = "answered" /\ ~OtherRows)
Tap == TapsMidWrite \/ (chain = <<>> /\ review = NoReview /\ ~Burst)

(* loadSketchDraft.  The screen is not reopened before an earlier instance has
   drained its persist chain and its 800 ms staging timer. *)
OpenLoadDraft ==
    /\ ~editor.open /\ opening.step = "no" /\ chain = <<>> /\ ~editor.due /\ Tap
    /\ budget.opens < MaxOpens /\ budget' = [budget EXCEPT !.opens = @ + 1]
    /\ opening' = [NoOpening EXCEPT !.step = "draft", !.draft = draft]
    /\ editor' = NoEditor
    /\ UNCHANGED <<row, draft, detail, floor, chain, review, engine, server, pulling, removed,
                   history>>

(* cache.sketch: an answer is cached (a 404 retires the cached copy), without
   one the cached copy is served. *)
OpenFetch(online) ==
    /\ opening.step = "draft"
    /\ detail' = IF online THEN office ELSE detail
    /\ opening' = IF ~online /\ detail.ver = 0 /\ opening.draft.gen = 0
                  THEN NoOpening                               \* phase "error"
                  ELSE [opening EXCEPT !.step = "fetched", !.server = detail']
    /\ UNCHANGED <<row, draft, floor, editor, chain, review, engine, server,
                   pulling, removed, budget, history>>

(* The controller built from the local draft / from the Office copy. *)
LocalEditor(d) == [NoEditor EXCEPT !.open = TRUE, !.doc = d.doc, !.gen = d.gen, !.ver = d.ver]
ServerEditor(s) == [NoEditor EXCEPT !.open = TRUE, !.doc = s.doc, !.gen = 1, !.ver = s.ver]

(* resolveInitialSketch, for a revision that is not opened read-only *)
InitialDecision(d, s, active) ==
    CASE d.gen = 0                                                   -> "office"
      [] d.gen > 0 /\ active                                         -> "local"
      [] d.gen > 0 /\ ~active /\ s.ver > 0 /\ s.ver = d.ver /\ s.doc = d.doc -> "office_identical"
      [] d.gen > 0 /\ ~active /\ s.ver > d.ver                       -> "conflict"
      [] OTHER                                                       -> "local"

(* The row is looked up, the decision made and the controller built. *)
OpenFinish ==
    LET d == opening.draft
        s == opening.server
        decision == InitialDecision(d, s, row.state \in Active)
    IN  /\ opening.step = "fetched" /\ Tap
        /\ opening' = NoOpening
        /\ editor' = CASE decision \in {"office", "office_identical"} -> ServerEditor(s)
                       [] decision = "conflict" -> [LocalEditor(d) EXCEPT !.offer = s]
                       [] OTHER -> LocalEditor(d)
        /\ IF decision = "office_identical" THEN draft' = NoDraft /\ detail' = s
           ELSE UNCHANGED <<draft, detail>>
        /\ UNCHANGED <<row, floor, chain, review, engine, server, pulling, removed, budget, history>>

(* The rep's answer to an open-time conflict. *)
OpenUseOffice ==
    /\ editor.open /\ editor.offer # NoSketch /\ Tap
    /\ draft' = NoDraft
    /\ detail' = editor.offer
    /\ editor' = [editor EXCEPT !.doc = editor.offer.doc, !.ver = editor.offer.ver, !.offer = NoSketch]
    /\ newest' = 0
    /\ UNCHANGED <<row, floor, chain, opening, review, engine, server, pulling, removed, budget,
                   known, accepted>>

AsDraft(e) == [gen |-> e.gen, doc |-> e.doc, ver |-> e.ver]

(* adoptServerVersion: latest wins, the geometry is never touched. *)
Adopt(e, v) == [e EXCEPT !.ver = MaxOf(@, v)]

OpenKeepMine ==
    /\ editor.open /\ editor.offer # NoSketch /\ Tap
    /\ editor' = [Adopt(editor, editor.offer.ver) EXCEPT !.offer = NoSketch]
    /\ chain' = Append(chain, AsDraft(editor'))
    /\ known' = [known EXCEPT ![editor.doc] = @ \cup {editor.offer.doc}]
    /\ UNCHANGED <<row, draft, detail, floor, opening, review, engine, server, pulling, removed,
                   budget, accepted, newest>>

(* Leaving the screen; its persist chain and its staging timer run on. *)
CloseEditor ==
    /\ editor.open
    /\ editor' = IF chain = <<>> /\ ~editor.due THEN NoEditor ELSE [editor EXCEPT !.open = FALSE]
    /\ UNCHANGED <<row, draft, detail, floor, chain, opening, review, engine, server, pulling,
                   removed, budget, history>>

-----------------------------------------------------------------------------
(* Editing *)

Commit ==
    /\ editor.open /\ editor.ui = "ok" /\ editor.offer = NoSketch
    /\ budget.commits < MaxCommits
    /\ LET doc == budget.commits + 1
       IN  /\ editor' = [editor EXCEPT !.doc = doc, !.gen = @ + 1, !.due = TRUE]
           /\ known' = [known EXCEPT ![doc] = @ \cup known[editor.doc]]
           /\ budget' = [budget EXCEPT !.commits = doc]
    /\ chain' = Append(chain, AsDraft(editor'))
    /\ UNCHANGED <<row, draft, detail, floor, opening, review, engine, server, pulling, removed,
                   accepted, newest>>

WriteDraft_NoFloor(cur, new, cached) == IF cur.gen > new.gen THEN cur ELSE new

(* reconcileDraftWrite inside saveSketchDraftIfCurrent: an older generation is
   refused, the version never falls below any version the device knows. *)
WriteDraft(cur, new, cached) ==
    IF cur.gen > new.gen THEN cur
    ELSE [new EXCEPT !.ver = MaxOf(@, MaxOf(cur.ver, cached.ver))]

(* One link of the persist chain.  A refused write counts as drained too. *)
Persist ==
    /\ chain # <<>>
    /\ draft' = WriteDraft(draft, Head(chain), detail)
    /\ newest' = IF draft.gen > Head(chain).gen THEN newest ELSE Head(chain).doc
    /\ chain' = Tail(chain)
    /\ LET persisted == MaxOf(editor.persisted, Head(chain).gen)
       IN  editor' = [editor EXCEPT !.persisted = persisted,
                                    !.err = @ /\ persisted < editor.gen]
    /\ UNCHANGED <<row, detail, floor, opening, review, engine, server, pulling, removed, budget,
                   known, accepted>>

PersistFails ==
    /\ chain # <<>> /\ budget.faults < MaxFaults
    /\ chain' = Tail(chain)
    /\ editor' = [editor EXCEPT !.err = TRUE]
    /\ budget' = [budget EXCEPT !.faults = @ + 1]
    /\ UNCHANGED <<row, draft, detail, floor, opening, review, engine, server, pulling, removed,
                   history>>

(* retrySave: persist the current document again, then syncNow. *)
RetrySave ==
    /\ editor.open /\ editor.err /\ chain = <<>> /\ Tap
    /\ chain' = <<AsDraft(editor)>>
    /\ timer' = FALSE /\ RunSync
    /\ UNCHANGED <<row, draft, detail, floor, editor, opening, review, server, pulling, removed,
                   budget, history>>

(* nextGeneration: an absent row has generation 0. *)
NextGeneration(r) == r.gen + 1

(* The 800 ms staging timer (due), the Save button or the app going to the background:
   stageFromController + coordinator.stage + queueMutation.  Only a durable, not yet
   staged generation; UPSERT bumps the row's generation. *)
Stage ==
    /\ CanStage /\ (editor.open \/ editor.due)
    /\ row' = [state |-> "pending", doc |-> editor.doc, exp |-> MaxOf(editor.ver, floor),
               lgen |-> editor.gen, gen |-> NextGeneration(row), srv |-> NoSketch]
    /\ editor' = [editor EXCEPT !.staged = editor.gen, !.due = FALSE]
    /\ timer' = FALSE /\ RunSync
    /\ UNCHANGED <<draft, detail, floor, chain, opening, review, server, pulling, removed, budget,
                   history>>

(* The timer finds the screen blocked, or the newest commit not durable or already
   staged: nothing is queued and the timer is not armed again. *)
StageSkips ==
    /\ editor.due /\ chain = <<>> /\ ~CanStage
    /\ editor' = [editor EXCEPT !.due = FALSE]
    /\ UNCHANGED <<row, draft, detail, floor, chain, opening, review, engine, server, pulling,
                   removed, budget, history>>

UiOf_Raw(state) == state

(* refreshSync: adopt CAS metadata and the row's state into the open screen. *)
UiOf(state) == IF state \in {"conflict", "locked"} THEN state ELSE "ok"

RefreshScreen ==
    /\ editor.open
    /\ LET e == [editor EXCEPT !.ui = UiOf(row.state)]
       IN  editor' = IF draft.gen > 0 THEN Adopt(e, draft.ver)
                     ELSE IF row.state = "synced" THEN Adopt(e, row.srv.ver) ELSE e
    /\ editor' # editor
    /\ UNCHANGED <<row, draft, detail, floor, chain, opening, review, engine, server, pulling,
                   removed, budget, history>>

-----------------------------------------------------------------------------
(* Resolving a 409: the review is read first, the transition re-checks it. *)

BeginResolve(choice) ==
    /\ editor.open /\ editor.ui = "conflict" /\ row.state = "conflict" /\ review = NoReview /\ Tap
    /\ review' = [choice |-> choice, lgen |-> row.lgen, gen |-> row.gen, office |-> row.srv,
                  local |-> IF draft.gen > 0 THEN draft.doc ELSE row.doc]
    /\ UNCHANGED <<row, draft, detail, floor, editor, chain, opening, engine, server, pulling,
                   removed, budget, history>>

(* decideSketchConflictResolution's invariants against the live state *)
ReviewCurrent ==
    /\ row.state = "conflict" /\ row.lgen = review.lgen /\ row.gen = review.gen
    /\ draft.gen <= review.lgen

ResolveStale ==
    /\ review # NoReview /\ ~ReviewCurrent
    /\ review' = NoReview
    /\ UNCHANGED <<row, draft, detail, floor, editor, chain, opening, engine, server, pulling,
                   removed, budget, history>>

ResolveUseOffice ==
    /\ review.choice = "use_office" /\ ReviewCurrent /\ (TapsMidWrite \/ ~Burst)
    /\ detail' = review.office
    /\ draft' = NoDraft
    /\ row' = NoRow
    /\ floor' = MaxOf(floor, review.office.ver)
    /\ editor' = IF editor.open
                 THEN [editor EXCEPT !.doc = review.office.doc, !.ver = review.office.ver, !.ui = "ok"]
                 ELSE editor
    /\ review' = NoReview
    /\ newest' = 0
    /\ UNCHANGED <<chain, opening, engine, server, pulling, removed, budget, known, accepted>>

ResolveKeepLocal ==
    /\ review.choice = "keep_local" /\ ReviewCurrent
    /\ draft' = [gen |-> review.lgen, doc |-> review.local, ver |-> review.office.ver]
    /\ row' = [state |-> "pending", doc |-> review.local, exp |-> review.office.ver,
               lgen |-> review.lgen, gen |-> NextGeneration(row), srv |-> NoSketch]
    /\ floor' = MaxOf(floor, review.office.ver)
    /\ editor' = IF editor.open THEN [Adopt(editor, review.office.ver) EXCEPT !.ui = "ok"] ELSE editor
    /\ review' = NoReview
    /\ known' = [known EXCEPT ![review.local] = @ \cup {review.office.doc}]
    /\ RunSync /\ timer' = timer
    /\ UNCHANGED <<detail, chain, opening, server, pulling, removed, budget, accepted, newest>>
-----------------------------------------------------------------------------
(* The sync engine: one runSync pass *)

(* Auto-sync triggers: foreground, connectivity, "Sync Now". *)
Trigger ==
    /\ timer' = FALSE /\ RunSync
    /\ UNCHANGED <<device, server, pulling, removed, budget, history>>

TimerFires ==
    /\ timer /\ timer' = FALSE /\ RunSync
    /\ UNCHANGED <<device, server, pulling, removed, budget, history>>

(* NetInfo says offline: leave the queue alone, come back later. *)
PassOffline ==
    /\ pass.phase = "start" /\ budget.faults < MaxFaults
    /\ timer' = (timer \/ row.state \in Unsynced)
    /\ pass' = [pass EXCEPT !.phase = "ending"]
    /\ budget' = [budget EXCEPT !.faults = @ + 1]
    /\ UNCHANGED <<device, server, rerun, pulling, removed, history>>

(* loadPending + processQueue: pending and failed rows are sent, conflict and
   locked rows ride along unsent. *)
PassLoad ==
    /\ pass.phase = "start"
    /\ pass' = [phase |-> CASE row.state \in {"pending", "failed"} -> "waiting"
                            [] row.state \in {"conflict", "locked"} -> "answered"
                            [] OTHER -> "finish",
                item |-> IF row.state \in Unsynced THEN row ELSE NoRow]
    /\ wire' = IF row.state \in {"pending", "failed"}
               THEN wire \cup {[doc |-> row.doc, exp |-> row.exp, live |-> TRUE]} ELSE wire
    /\ UNCHANGED <<device, office, editable, timer, rerun, pulling, removed, budget, history>>

Answer(state, srv) ==
    pass' = [phase |-> "answered", item |-> [pass.item EXCEPT !.state = state, !.srv = srv]]

(* The request fails or times out on the device; Office may still handle it later. *)
PassTimesOut(late) ==
    /\ pass.phase = "waiting" /\ budget.faults < MaxFaults
    /\ wire' = {r \in wire : ~r.live}
                \cup {[r EXCEPT !.live = FALSE] : r \in IF late THEN {q \in wire : q.live} ELSE {}}
    /\ Answer("pending", pass.item.srv)
    /\ budget' = [budget EXCEPT !.faults = @ + 1]
    /\ UNCHANGED <<device, office, editable, timer, rerun, pulling, removed, history>>

Writeback_ByClientId(cur, item) ==
    IF cur.state # "none" THEN [cur EXCEPT !.state = item.state, !.srv = item.srv] ELSE cur

(* saveMutationIfCurrent: the result lands only on the generation that was loaded. *)
Writeback(cur, item) == IF cur.state # "none" /\ cur.gen = item.gen THEN item ELSE cur

PassWriteback ==
    /\ pass.phase = "answered"
    /\ row' = Writeback(row, pass.item)
    /\ pass' = IF pass.item.state = "synced" THEN [pass EXCEPT !.phase = "ackDetail"]
               ELSE [NoPass EXCEPT !.phase = "finish"]
    /\ UNCHANGED <<draft, detail, floor, editor, chain, opening, review, server, timer, rerun,
                   pulling, removed, budget, history>>

(* _reconcileSketchAcks, its four writes in order *)
AckDetail ==
    /\ pass.phase = "ackDetail"
    /\ detail' = pass.item.srv
    /\ pass' = [pass EXCEPT !.phase = "ackDraft"]
    /\ UNCHANGED <<row, draft, floor, editor, chain, opening, review, server, timer, rerun,
                   pulling, removed, budget, history>>

AckedDraft_RetiresNewer(d, ack, v) == IF d.gen >= ack THEN NoDraft ELSE d

(* applySketchAck: retire exactly the acknowledged generation, rebase a newer one. *)
AckedDraft(d, ack, v) ==
    CASE d.gen = ack -> NoDraft
      [] d.gen > ack -> [d EXCEPT !.ver = MaxOf(@, v)]
      [] OTHER -> d

AckDraft ==
    /\ pass.phase = "ackDraft"
    /\ draft' = AckedDraft(draft, pass.item.lgen, pass.item.srv.ver)
    /\ pass' = [pass EXCEPT !.phase = "ackRow"]
    /\ UNCHANGED <<row, detail, floor, editor, chain, opening, review, server, timer, rerun,
                   pulling, removed, budget, history>>

(* planExpectedVersionFloor on the live row *)
FlooredRow(r, v) == IF r.state = "pending" THEN [r EXCEPT !.exp = MaxOf(@, v)] ELSE r

AckRow ==
    /\ pass.phase = "ackRow"
    /\ row' = FlooredRow(row, pass.item.srv.ver)
    /\ pass' = [pass EXCEPT !.phase = "ackFloor"]
    /\ UNCHANGED <<draft, detail, floor, editor, chain, opening, review, server, timer, rerun,
                   pulling, removed, budget, history>>

AckFloor ==
    /\ pass.phase = "ackFloor"
    /\ floor' = MaxOf(floor, pass.item.srv.ver)
    /\ pass' = [NoPass EXCEPT !.phase = "finish"]
    /\ UNCHANGED <<row, draft, detail, editor, chain, opening, review, server, timer, rerun,
                   pulling, removed, budget, history>>

RetryDue_FailedOnly == row.state = "failed"

(* pendingLeft *)
RetryDue == row.state = "pending"

(* Completion is decided from the stored rows, not from the pass's copies. *)
PassFinish ==
    /\ pass.phase = "finish"
    /\ timer' = RetryDue
    /\ pass' = [pass EXCEPT !.phase = "ending"]
    /\ UNCHANGED <<device, server, rerun, pulling, removed, budget, history>>

(* The finally block *)
PassEnd ==
    /\ pass.phase = "ending"
    /\ pass' = IF rerun THEN [NoPass EXCEPT !.phase = "start"] ELSE NoPass
    /\ rerun' = FALSE
    /\ UNCHANGED <<device, server, timer, pulling, removed, budget, history>>

-----------------------------------------------------------------------------
(* Office *)

(* save_sketch for a request of the Field device: locked, compare-and-swap, conflict. *)
OfficeHandles(r) ==
    LET saved == [ver |-> office.ver + 1, doc |-> r.doc]
        accepts == editable /\ r.exp = office.ver
    IN  /\ wire' = wire \ {r}
        /\ office' = IF accepts THEN saved ELSE office
        /\ accepted' = IF accepts THEN accepted \cup {r.doc} ELSE accepted
        /\ IF r.live
           THEN CASE ~editable -> Answer("locked", pass.item.srv)
                  [] accepts -> Answer("synced", saved)
                  [] OTHER -> Answer("conflict", office)
           ELSE pass' = pass
        /\ UNCHANGED <<device, editable, timer, rerun, pulling, removed, budget, known, newest>>

(* Any other 4xx: no access to the lead, structure gone, invalid document. *)
OfficeRefuses(r) ==
    /\ r.live /\ budget.faults < MaxFaults
    /\ wire' = wire \ {r}
    /\ Answer("failed", pass.item.srv)
    /\ budget' = [budget EXCEPT !.faults = @ + 1]
    /\ UNCHANGED <<device, office, editable, timer, rerun, pulling, removed, history>>

(* An accepted save of Office's own sketch editor. *)
OfficeSaves ==
    /\ editable /\ budget.saves < MaxSaves
    /\ office' = [ver |-> office.ver + 1, doc |-> -(budget.saves + 1)]
    /\ budget' = [budget EXCEPT !.saves = @ + 1]
    /\ UNCHANGED <<device, engine, editable, wire, pulling, removed, history>>

OfficeLocks ==
    /\ editable /\ editable' = FALSE
    /\ UNCHANGED <<device, engine, office, wire, pulling, removed, budget, history>>

-----------------------------------------------------------------------------
(* refreshLead: watermark first, then - with no active row - raise the CAS floor
   and fetch; the fetch is cached a moment later. *)

RefreshDecide ==
    /\ Refreshes /\ ~pulling
    /\ office.ver > 0 /\ row.state \notin Active
    /\ IF detail.ver = 0 THEN draft.gen = 0 /\ floor' = floor                        \* "pull"
       ELSE detail.ver # office.ver /\ floor' = MaxOf(floor, office.ver)   \* "floor_and_pull"
    /\ pulling' = TRUE
    /\ UNCHANGED <<row, draft, detail, editor, chain, opening, review, engine, server, removed,
                   budget, history>>

RefreshPull(online) ==
    /\ pulling /\ pulling' = FALSE
    /\ detail' = IF online THEN office ELSE detail
    /\ UNCHANGED <<row, draft, floor, editor, chain, opening, review, engine, server, removed,
                   budget, history>>

-----------------------------------------------------------------------------
(* Sync Center: remove a stuck row, undo the removal. *)

RemoveRow ==
    /\ budget.removals < MaxRemovals /\ row.state \in {"pending", "failed"}
    /\ removed' = row /\ row' = NoRow
    /\ budget' = [budget EXCEPT !.removals = @ + 1]
    /\ UNCHANGED <<draft, detail, floor, editor, chain, opening, review, engine, server, pulling,
                   history>>

RestoreRow ==
    /\ removed # NoRow
    /\ row' = removed /\ removed' = NoRow
    /\ UNCHANGED <<draft, detail, floor, editor, chain, opening, review, engine, server, pulling,
                   budget, history>>

-----------------------------------------------------------------------------
(* The app is killed and started again: memory is lost, storage and requests
   already on the wire are not; start-up runs a pass. *)
CrashRestart ==
    /\ budget.faults < MaxFaults
    /\ editor' = NoEditor /\ chain' = <<>> /\ opening' = NoOpening /\ review' = NoReview
    /\ floor' = 0 /\ timer' = FALSE /\ rerun' = FALSE /\ pulling' = FALSE /\ removed' = NoRow
    /\ pass' = [NoPass EXCEPT !.phase = "start"]
    /\ wire' = {[r EXCEPT !.live = FALSE] : r \in wire}
    /\ budget' = [budget EXCEPT !.faults = @ + 1]
    /\ UNCHANGED <<row, draft, detail, office, editable, history>>

-----------------------------------------------------------------------------
ScreenNext ==
    \/ OpenLoadDraft \/ OpenFinish \/ OpenUseOffice \/ OpenKeepMine \/ CloseEditor
    \/ \E online \in BOOLEAN : OpenFetch(online)
    \/ Commit \/ Persist \/ PersistFails \/ RetrySave \/ Stage \/ StageSkips \/ RefreshScreen
    \/ \E choice \in {"use_office", "keep_local"} : BeginResolve(choice)
    \/ ResolveStale \/ ResolveUseOffice \/ ResolveKeepLocal

EngineNext ==
    \/ Trigger \/ TimerFires \/ PassOffline \/ PassLoad
    \/ \E late \in BOOLEAN : PassTimesOut(late)
    \/ PassWriteback \/ AckDetail \/ AckDraft \/ AckRow \/ AckFloor \/ PassFinish \/ PassEnd

OfficeNext ==
    \/ \E r \in wire : OfficeHandles(r) \/ OfficeRefuses(r)
    \/ OfficeSaves \/ OfficeLocks

Next ==
    \/ ScreenNext \/ EngineNext \/ OfficeNext
    \/ RefreshDecide \/ \E online \in BOOLEAN : RefreshPull(online)
    \/ RemoveRow \/ RestoreRow \/ CrashRestart

Spec == Init /\ [][Next]_vars

(* What the device's event loop guarantees: a started write, pass step or timer is
   eventually run.  Office eventually answers a request that is not lost; how often
   answers are lost is bounded by MaxFaults. *)
PassStep ==
    \/ PassLoad \/ PassWriteback \/ AckDetail \/ AckDraft \/ AckRow \/ AckFloor
    \/ PassFinish \/ PassEnd

Fairness ==
    /\ WF_vars(Persist) /\ WF_vars(editor.due /\ (Stage \/ StageSkips))
    /\ WF_vars(PassStep) /\ WF_vars(TimerFires)
    /\ WF_vars(\E r \in wire : r.live /\ OfficeHandles(r))

FairSpec == Spec /\ Fairness

-----------------------------------------------------------------------------
(* Properties *)

Drafts == [gen : Nat, doc : Docs, ver : Versions]
Rows == [state : States, doc : Docs, exp : Versions, lgen : Nat, gen : Nat, srv : Sketches]
Requests == [doc : Docs, exp : Versions, live : BOOLEAN]
Editors == [open : BOOLEAN, doc : Docs, gen : Nat, ver : Versions, persisted : Nat, err : BOOLEAN,
            staged : Nat, due : BOOLEAN, ui : {"ok", "conflict", "locked"}, offer : Sketches]
Openings == [step : {"no", "draft", "fetched"}, draft : Drafts, server : Sketches]
Reviews == [choice : {"no", "use_office", "keep_local"}, lgen : Nat, gen : Nat,
            office : Sketches, local : Docs]
Phases == {"idle", "start", "waiting", "answered", "finish", "ending"} \cup AckPhases
Passes == [phase : Phases, item : Rows]
Budgets == [commits : 0..MaxCommits, saves : 0..MaxSaves, faults : 0..MaxFaults,
            opens : 0..MaxOpens, removals : 0..MaxRemovals]

(* Every variable has its type. *)
TypeOK ==
    /\ office \in Sketches /\ editable \in BOOLEAN /\ wire \subseteq Requests
    /\ row \in Rows /\ draft \in Drafts /\ detail \in Sketches /\ floor \in Versions
    /\ editor \in Editors /\ chain \in Seq(Drafts) /\ opening \in Openings /\ review \in Reviews
    /\ pass \in Passes /\ timer \in BOOLEAN /\ rerun \in BOOLEAN
    /\ pulling \in BOOLEAN /\ removed \in Rows /\ budget \in Budgets
    /\ known \in [Docs -> SUBSET Docs] /\ accepted \subseteq Docs /\ newest \in Docs

(* Field work is never lost: the newest commit that reached the device's storage
   is the durable draft, or Office has stored it - unless the rep chose Office's
   version over it (sync.js "Pending data is never deleted until acknowledged"). *)
NewestEditKept == newest > 0 => draft.doc = newest \/ newest \in accepted

(* A row reads "synced" only if Office stored the very document of that row
   (sync.js "Server acknowledgement is the ONLY thing that flips a mutation"). *)
SyncedMeansAccepted == row.state = "synced" => row.doc \in accepted

(* No lost wake-up: a pending row always has a pass running or a retry armed, so
   single-flight with _rerunRequested never drops a trigger. *)
PendingIsScheduled == row.state = "pending" => pass.phase # "idle" \/ timer

(* The generation guard identifies a row: while a pass holds a copy of the row, a
   stored row of the same generation is that row, so a result can only land on the
   edit it belongs to (storage.js saveMutationIfCurrent, "a late result can never
   resurrect a removed mutation"). *)
GenerationIdentifiesRow ==
    pass.phase \in {"waiting", "answered"} /\ row.state # "none" /\ row.gen = pass.item.gen
        => row.doc = pass.item.doc /\ row.lgen = pass.item.lgen

(* The durable draft's CAS version never goes back while the draft lives (the
   reverse race of a late acknowledgement and a newer editor write). *)
DraftVersionNeverRegresses ==
    [][draft.gen > 0 /\ draft'.gen > 0 => draft'.ver >= draft.ver]_vars

(* Office is never overwritten unseen: when Office stores a Field document, the
   content it replaces is one the rep drew from or was shown in a review
   (roofSketchFieldController "preserve local, no silent overwrite"). *)
NoSilentOverwrite ==
    [][office'.ver # office.ver /\ office'.doc > 0 => office.doc \in known'[office'.doc]]_vars

(* A queued edit does not wait for ever: every pending row is eventually answered
   (no trigger, rerun request or retry timer is lost between passes). *)
PendingSettles == row.state = "pending" ~> row.state # "pending"

(* While nothing crashes and nothing is lost, a durable edit eventually reaches Office,
   unless a newer edit or the rep's choice replaces it, or Office refused it with a
   conflict or a lock. *)
EditReachesOffice ==
    \A d \in 1..MaxCommits :
        newest = d ~> (\/ newest # d \/ d \in accepted \/ row.state \in {"conflict", "locked"}
                       \/ budget.faults > 0)
=============================================================================
