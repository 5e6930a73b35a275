----------------------------- MODULE FieldWork ------------------------------
(***************************************************************************)
(* The rep's field work on one property: visits, Do Not Knock, leads,      *)
(* edits of lead, job and inspection records, and photos, from the screen  *)
(* that queues a mutation, through the sync pass and Office's handlers, to *)
(* the reconciliation of the cached property and the review of conflicts.  *)
(*                                                                         *)
(* office.ver stands for the property's updated_at: it moves whenever a    *)
(* column of the property changes, and a visit alone does not move it.     *)
(* The content of a property is its Do Not Knock flag.  A mutation is its  *)
(* number, in the order it was queued; a photo's content is the number of  *)
(* the file.                                                               *)
(***************************************************************************)
EXTENDS Naturals, FiniteSets, FiniteSetsExt

CONSTANTS
    MaxRows,      \* bound on queued mutations
    MaxAttempts,  \* MAX_AUTO_PHOTO_ATTEMPTS
    Plans,        \* the mixes of work looked at: sets of Kinds
    MaxEvents,    \* of each mix, the bound on Office edits, lost messages, refusals, lost files, crashes
    Windows       \* races let in: "late" (a row is acknowledged before its optimistic patch
                  \* is written), "replace" (a photo replaced while it is being uploaded),
                  \* "blind" (a property known only from acknowledgements), "merge" (a visit's
                  \* conflict merged), "crash" (killed between a row's acknowledgement and its
                  \* reconciliation)

AllWindows == {"late", "replace", "blind", "merge", "crash"}

Kinds == {"visit", "leadVisit", "patch", "lead", "edit", "photo"}

ASSUME WorkAssumption ==
    /\ {MaxRows, MaxAttempts} \subseteq Nat
    /\ Plans \subseteq SUBSET Kinds /\ MaxEvents \in [Plans -> Nat]
    /\ Windows \subseteq AllWindows

Ids == 1..MaxRows

VARIABLES
    office,   \* PostgreSQL: the property, its visits and leads, the record, photos, used keys
    rows,     \* pending_mutations
    detail,   \* cache property:<id>
    screen,   \* the Property screen: what it shows, the conflict it offers
    load,     \* the read-through of the property that is in flight
    opt,      \* the optimistic patch a save still has to write
    record,   \* the if_match of the cached lead, job or inspection; 0: never loaded
    pass,     \* runSync
    sync,     \* a pass wanted, the retry timer
    hist      \* the plan and the budget, and what the properties remember

vars == <<office, rows, detail, screen, load, opt, record, pass, sync, hist>>
device == <<detail, screen, load, opt, record>>

-----------------------------------------------------------------------------
(* Values *)

NoDetail == [has |-> FALSE, ver |-> 0, dnk |-> FALSE, visits |-> {}, waiting |-> {}, lead |-> FALSE]

(* build_property_detail: what Office answers about the property. *)
Snapshot(o) == [has |-> TRUE, ver |-> o.ver, dnk |-> o.dnk,
                visits |-> {i \in Ids : o.visits[i] > 0}, waiting |-> {}, lead |-> o.leads # {}]

NoRow == [kind |-> "none", state |-> "none", tok |-> 0, val |-> FALSE, saw |-> 0, file |-> 0,
          tries |-> 0, code |-> "none", server |-> NoDetail]

NoScreen == [prop |-> NoDetail, conflict |-> 0]
NoOpt == [st |-> "idle", id |-> 0, kind |-> "none", val |-> FALSE, cur |-> NoDetail,
          visits |-> {}, waiting |-> {}]
NoLoad == [st |-> "idle", snap |-> NoDetail]
NoPass == [pc |-> "idle", snap |-> [i \in Ids |-> NoRow], todo |-> {}, sent |-> {}, acks |-> {}]

Created == {i \in Ids : rows[i].kind # "none"}
NextId == Cardinality(Created) + 1
Live(i) == rows[i].state \notin {"none", "removed"}
Spend(h) == [h EXCEPT !.events = @ + 1]
CanSpend == hist.events < MaxEvents[hist.plan]

Init ==
    /\ office = [ver |-> 1, dnk |-> FALSE, visits |-> [i \in Ids |-> 0], leads |-> {}, rec |-> 1,
                 arch |-> FALSE, insps |-> [i \in Ids |-> 0], photos |-> [i \in Ids |-> {}], keys |-> {}, ran |-> {}]
    /\ rows = [i \in Ids |-> NoRow]
    /\ detail = NoDetail /\ screen = NoScreen
    /\ load = NoLoad /\ opt = NoOpt /\ record = 0
    /\ pass = NoPass /\ sync = [want |-> FALSE, timer |-> FALSE]
    /\ \E p \in Plans : hist = [plan |-> p, events |-> 0, officeVer |-> 1, officeRec |-> 1,
                                 blind |-> FALSE, overtaken |-> FALSE, files |-> {}]

-----------------------------------------------------------------------------
(* Queueing: queueMutation of sync.js, called by every screen of field work *)

(* _resetBackoff, then runSync: a running pass is noted to run again. *)
Trigger == [want |-> TRUE, timer |-> FALSE]

makeMutation(kind, tok, val) ==
    [NoRow EXCEPT !.kind = kind, !.state = "pending", !.tok = tok, !.val = val, !.saw = tok]

Queue(work, row) ==
    /\ NextId \in Ids /\ work \in hist.plan
    /\ rows' = [rows EXCEPT ![NextId] = row]
    /\ sync' = Trigger

(* Property.load: Office answers with the property as it is now ... *)
OpenProperty ==
    /\ load.st = "idle" /\ hist.plan \cap {"visit", "leadVisit", "patch", "lead"} # {}
    /\ load' = [st |-> "sent", snap |-> Snapshot(office)]
    /\ UNCHANGED <<office, rows, detail, screen, opt, record, pass, sync, hist>>

(* conflictMutationForProperty: the oldest row of this property in conflict. *)
conflictMutationForProperty ==
    LET c == {i \in Created : /\ rows[i].state = "conflict"
                              /\ rows[i].kind \in {"visit", "patch", "resolve", "lead"}}
    IN IF c = {} THEN 0 ELSE Min(c)

(* readThrough: a value is cached and shown; a failure shows the cached copy. *)
readThrough(ok) == IF ok THEN load.snap ELSE detail

(* ... and the answer is cached and shown, or the saved copy is. *)
Shown(d) == [prop |-> d, conflict |-> conflictMutationForProperty]
LoadAnswered ==
    /\ load.st = "sent"
    /\ detail' = readThrough(TRUE)
    /\ screen' = Shown(readThrough(TRUE))
    /\ load' = NoLoad
    /\ UNCHANGED <<office, rows, opt, record, pass, sync, hist>>
LoadFailed ==
    /\ load.st = "sent" /\ CanSpend
    /\ screen' = Shown(readThrough(FALSE))
    /\ load' = NoLoad
    /\ hist' = Spend(hist)
    /\ UNCHANGED <<office, rows, detail, opt, record, pass, sync>>

CanAct == screen.prop.has /\ opt.st = "idle"

(* The optimistic patch p of a save: a visit rewrites the list the screen showed. *)
Patched(p, d) ==
    IF p.kind = "visit"
    THEN [d EXCEPT !.has = TRUE, !.visits = p.visits, !.waiting = p.waiting \cup {p.id},
                   !.dnk = @ \/ p.val]
    ELSE [d EXCEPT !.has = TRUE, !.dnk = p.val]

(* recordVisit and toggleDNK queue, show the patch, and read the cached copy ... *)
Save(kind, val) ==
    LET seen == kind = "visit"
        p == [st |-> "put", id |-> NextId, kind |-> kind, val |-> val, cur |-> detail,
              visits |-> IF seen THEN screen.prop.visits ELSE {},
              waiting |-> IF seen THEN screen.prop.waiting ELSE {}]
    IN /\ CanAct
       /\ Queue(kind, makeMutation(kind, screen.prop.ver, val))
       /\ screen' = [screen EXCEPT !.prop = Patched(p, @)]
       /\ opt' = p
       /\ UNCHANGED <<office, detail, load, record, pass, hist>>

recordVisit(dnk) == Save("visit", dnk)
toggleDNK == Save("patch", ~screen.prop.dnk)

(* ... and its write, which is not serialized with the reconciliation. *)
patchCachedDetail ==
    /\ opt.st = "put"
    /\ detail' = Patched(opt, opt.cur)
    /\ opt' = NoOpt
    /\ UNCHANGED <<office, rows, screen, load, record, pass, sync, hist>>

(* createLead and NewLead.save: offered while the shown property has no lead. *)
createLead ==
    /\ CanAct /\ ~screen.prop.lead
    /\ Queue("lead", makeMutation("lead", 0, FALSE))
    /\ UNCHANGED <<office, device, pass, hist>>

(* LeadDetail.recordVisit: a visit with no token and no optimistic patch of the property. *)
leadVisit(dnk) ==
    /\ detail.has \/ "blind" \in Windows
    /\ Queue("leadVisit", makeMutation("visit", 0, dnk))
    /\ UNCHANGED <<office, device, pass, hist>>

(* LeadDetail, JobDetail and Inspection: open (read-through), edit under If-Match. *)
OpenRecord ==
    /\ "edit" \in hist.plan /\ record # office.rec
    /\ record' = office.rec
    /\ UNCHANGED <<office, rows, detail, screen, load, opt, pass, sync, hist>>
EditRecord(kind) ==
    /\ Queue("edit", makeMutation(kind, IF kind = "edit" THEN record ELSE 0, FALSE))
    /\ UNCHANGED <<office, device, pass, hist>>

(* LeadDetail.saveEdit and addNote, JobDetail.setStatus and addUpdate. *)
saveEdit == record # 0 /\ EditRecord("edit")
setStatus == record # 0 /\ EditRecord("edit")

(* Inspection.save: an inspection that was never loaded is created. *)
saveInspection == EditRecord(IF record = 0 THEN "inspection" ELSE "edit")

(* LeadDetail.archive: a DELETE with no token. *)
archive == record # 0 /\ EditRecord("archive")

(* PhotoSection.persistAndQueue: buildPhoto copied the file first. *)
persistAndQueue ==
    /\ Queue("photo", [makeMutation("photo", 0, FALSE) EXCEPT !.file = NextId])
    /\ hist' = [hist EXCEPT !.files = @ \cup {NextId}]
    /\ UNCHANGED <<office, device, pass>>

(* replacePhoto: another file under the same idempotency key and generation. *)
ReplacementFile(i) == i + MaxRows
replacePhoto(i) ==
    /\ rows[i].kind = "photo" /\ rows[i].state = "failed" /\ rows[i].file = i
    /\ "replace" \in Windows \/ (pass.pc = "idle" /\ i \notin office.keys)
    /\ rows' = [rows EXCEPT ![i] = [@ EXCEPT !.file = ReplacementFile(i), !.state = "pending",
                                             !.code = "none", !.tries = 0]]
    /\ hist' = [hist EXCEPT !.files = @ \cup {ReplacementFile(i)}]
    /\ sync' = [sync EXCEPT !.want = TRUE]
    /\ UNCHANGED <<office, device, pass>>

(* PhotoSection.retryItem: syncNow, also when the attempts of a photo are used up. *)
retryItem ==
    /\ \E i \in Ids : rows[i].kind = "photo" /\ rows[i].state = "failed"
    /\ sync' = Trigger
    /\ UNCHANGED <<office, rows, device, pass, hist>>

(* PhotoSection.removeItem: offered on a failed photo. *)
removeItem(i) ==
    /\ rows[i].kind = "photo" /\ rows[i].state = "failed"
    /\ rows' = [rows EXCEPT ![i].state = "removed"]
    /\ UNCHANGED <<office, device, pass, sync, hist>>

-----------------------------------------------------------------------------
(* Office: the handlers of routers/mobile.py *)

(* conflict_if_stale: only a token that was sent is compared. *)
conflict_if_stale_Never(r) == FALSE
conflict_if_stale(r) == r.tok # 0 /\ r.tok # office.ver

(* _reserve_idem: an answered key is answered again, never run again. *)
Replayed_Never(i) == FALSE
Replayed(i) == i \in office.keys

Answer(o, status, data) == [office |-> o, status |-> status, data |-> data]
Refusal == Answer(office, 409, Snapshot(office))

create_visit(i, r) ==
    LET marks == r.val /\ ~office.dnk
        o == [office EXCEPT !.visits[i] = @ + 1, !.keys = @ \cup {i}, !.ran = @ \cup {i},
                            !.dnk = @ \/ r.val, !.ver = @ + (IF marks THEN 1 ELSE 0)]
    IN IF Replayed(i) THEN Answer(office, 201, NoDetail)
       ELSE IF conflict_if_stale(r) THEN Refusal ELSE Answer(o, 201, NoDetail)

(* patch_property: a resolution note changes the notes; else only a new value is a change. *)
patch_property(i, r) ==
    LET o == [office EXCEPT !.dnk = r.val, !.ran = @ \cup {i},
                            !.ver = @ + (IF r.kind = "resolve" \/ r.val # office.dnk THEN 1 ELSE 0)]
    IN IF conflict_if_stale(r) THEN Refusal ELSE Answer(o, 200, Snapshot(o))

(* create_lead: an active lead of this rep for the property is reused. *)
create_lead(i, r) ==
    LET o == [office EXCEPT !.leads = IF @ = {} THEN {i} ELSE @, !.keys = @ \cup {i}, !.ran = @ \cup {i}]
    IN IF Replayed(i) THEN Answer(office, 201, NoDetail) ELSE Answer(o, 201, NoDetail)

(* update_lead, the job and the inspection patch: If-Match against the record. *)
update_record(i, r) ==
    IF r.tok # office.rec THEN Answer(office, 409, NoDetail)
    ELSE Answer([office EXCEPT !.rec = @ + 1, !.ran = @ \cup {i}], 200, NoDetail)

create_inspection(i, r) ==
    IF Replayed(i) THEN Answer(office, 201, NoDetail)
    ELSE Answer([office EXCEPT !.insps[i] = @ + 1, !.keys = @ \cup {i}, !.ran = @ \cup {i}], 201, NoDetail)

archive_lead(i, r) ==
    Answer([office EXCEPT !.arch = TRUE, !.ran = @ \cup {i}, !.rec = @ + (IF office.arch THEN 0 ELSE 1)],
           200, NoDetail)

upload_photo(i, r) ==
    IF Replayed(i) THEN Answer(office, 201, NoDetail)
    ELSE Answer([office EXCEPT !.photos[i] = @ \cup {r.file}, !.keys = @ \cup {i}, !.ran = @ \cup {i}],
                201, NoDetail)

Handle(i, r) ==
    CASE r.kind = "visit" -> create_visit(i, r)
      [] r.kind \in {"patch", "resolve"} -> patch_property(i, r)
      [] r.kind = "lead" -> create_lead(i, r)
      [] r.kind = "edit" -> update_record(i, r)
      [] r.kind = "inspection" -> create_inspection(i, r)
      [] r.kind = "archive" -> archive_lead(i, r)
      [] OTHER -> upload_photo(i, r)

(* The flag is cleared while a Do Not Knock visit Office has run is not reconciled yet. *)
Overtakes(o) ==
    \E i \in office.ran : /\ rows[i].kind = "visit" /\ rows[i].val /\ office.dnk /\ ~o.dnk
                          /\ rows[i].state # "synced" \/ i \in pass.acks

(* Somebody at Office changes the property, or the record. *)
OfficeEditsProperty ==
    /\ CanSpend
    /\ office' = [office EXCEPT !.dnk = ~@, !.ver = @ + 1]
    /\ hist' = [Spend(hist) EXCEPT !.officeVer = office.ver + 1, !.overtaken = @ \/ Overtakes(office')]
    /\ UNCHANGED <<rows, device, pass, sync>>
OfficeEditsRecord ==
    /\ CanSpend /\ "edit" \in hist.plan
    /\ office' = [office EXCEPT !.rec = @ + 1]
    /\ hist' = [Spend(hist) EXCEPT !.officeRec = office.rec + 1]
    /\ UNCHANGED <<rows, device, pass, sync>>

-----------------------------------------------------------------------------
(* The pass: runSync of sync.js over processQueue of queue.js *)

(* isPermanentFailure: a photo's local failure or a refused size or type; any other row. *)
isPermanentFailure(r) == r.kind # "photo" \/ r.code = "permanent"
Retryable(r) == r.state = "failed" /\ ~isPermanentFailure(r) /\ r.tries < MaxAttempts

_reviveRetryablePhotos ==
    [i \in Ids |-> IF Retryable(rows[i]) THEN [rows[i] EXCEPT !.state = "pending", !.code = "none"]
                   ELSE rows[i]]

PassBegin ==
    /\ pass.pc = "idle" /\ sync.want
    /\ rows' = _reviveRetryablePhotos
    /\ LET open == {i \in Ids : rows'[i].state \in {"pending", "failed", "conflict"}}
       IN pass' = [NoPass EXCEPT !.pc = "send",
                                 !.snap = [i \in Ids |-> IF i \in open THEN rows'[i] ELSE NoRow],
                                 !.todo = {i \in open : rows'[i].state # "conflict"}]
    /\ sync' = [sync EXCEPT !.want = FALSE]
    /\ UNCHANGED <<office, device, hist>>

(* NetInfo says there is no network: the queue waits for the timer. *)
PassOffline ==
    /\ pass.pc = "idle" /\ sync.want /\ CanSpend
    /\ sync' = [want |-> FALSE, timer |-> \E i \in Ids : rows[i].state \in {"pending", "failed", "conflict"}]
    /\ hist' = Spend(hist)
    /\ UNCHANGED <<office, rows, device, pass>>

(* processMutation: what an answer makes of the row that was sent; attempts are counted
   where they are limited, on photos. *)
processMutation(r, a) ==
    LET n == [r EXCEPT !.tries = IF r.kind = "photo" /\ @ < MaxAttempts THEN @ + 1 ELSE @]
    IN CASE a.status \in {200, 201} -> [n EXCEPT !.state = "synced", !.server = a.data, !.code = "none"]
         [] a.status = 409 -> [n EXCEPT !.state = "conflict", !.server = a.data]
         [] a.status = 422 -> [n EXCEPT !.state = "failed", !.code = a.data]
         [] OTHER -> [n EXCEPT !.state = "pending", !.code = "none"]

NoAnswer == Answer(office, 0, "none")

(* What the rep had seen when he made the change that Office now runs. *)
Judge(h, i, r, o) ==
    [h EXCEPT !.overtaken = @ \/ Overtakes(o),
              !.blind = @ \/ /\ i \in o.ran \ office.ran
                             /\ \/ r.kind \in {"patch", "resolve"} /\ r.saw < h.officeVer
                                \/ r.kind = "edit" /\ r.saw < h.officeRec]

(* The row in turn is sent and its answer comes, or not. *)
InTurn == Min(pass.todo)
Done(a) == pass' = [pass EXCEPT !.todo = @ \ {InTurn}, !.sent = @ \cup {InTurn},
                                !.snap[InTurn] = processMutation(@, a)]
Sending == /\ pass.pc = "send" /\ pass.todo # {}
           /\ "late" \in Windows \/ opt.id # InTurn

(* localFileOk and buildSendPlan: a photo whose file is gone is not sent. *)
FileGone(r) == r.kind = "photo" /\ r.file \notin hist.files
SendRow ==
    /\ Sending
    /\ LET r == pass.snap[InTurn]
           a == IF FileGone(r) THEN Answer(office, 422, "permanent") ELSE Handle(InTurn, r)
       IN /\ office' = a.office
          /\ hist' = Judge(hist, InTurn, r, a.office)
          /\ Done(a)
    /\ UNCHANGED <<rows, device, sync>>

(* The request does not arrive. *)
RequestLost ==
    /\ Sending /\ CanSpend /\ ~FileGone(pass.snap[InTurn])
    /\ Done(NoAnswer)
    /\ hist' = Spend(hist)
    /\ UNCHANGED <<office, rows, device, sync>>

(* Office runs it and the answer does not arrive. *)
AnswerLost ==
    /\ Sending /\ CanSpend /\ ~FileGone(pass.snap[InTurn])
    /\ LET a == Handle(InTurn, pass.snap[InTurn])
       IN office' = a.office /\ hist' = Spend(Judge(hist, InTurn, pass.snap[InTurn], a.office))
    /\ Done(NoAnswer)
    /\ UNCHANGED <<rows, device, sync>>

(* Office refuses with a 4xx that may pass (the parent record, a category). *)
Refused ==
    /\ Sending /\ CanSpend /\ pass.snap[InTurn].kind = "photo" /\ ~FileGone(pass.snap[InTurn])
    /\ Done(Answer(office, 422, "http"))
    /\ hist' = Spend(hist)
    /\ UNCHANGED <<office, rows, device, sync>>

(* saveMutationIfCurrent: a row that was removed meanwhile is not brought back. *)
PassWrite ==
    /\ pass.pc = "send" /\ pass.todo = {}
    /\ rows' = [i \in Ids |-> IF pass.snap[i].kind # "none" /\ Live(i) THEN pass.snap[i] ELSE rows[i]]
    /\ pass' = [pass EXCEPT !.pc = "ack", !.snap = [i \in Ids |-> NoRow], !.sent = {},
                            !.acks = {i \in pass.sent : /\ pass.snap[i].state = "synced"
                                                        /\ pass.snap[i].kind \in {"visit", "patch", "resolve", "lead"}}]
    /\ UNCHANGED <<office, device, sync, hist>>

(* reconcilePropertyDetail: the answer of Office wins over the optimistic copy. *)
reconcilePropertyDetail_KeepsLocal(i, r, d) ==
    CASE r.kind \in {"patch", "resolve"} -> [r.server EXCEPT !.dnk = d.dnk]
      [] r.kind = "visit" -> [d EXCEPT !.has = TRUE, !.waiting = {}, !.visits = @ \cup {i}, !.dnk = @ \/ r.val]
      [] OTHER -> [d EXCEPT !.has = TRUE, !.lead = TRUE]
reconcilePropertyDetail(i, r, d) ==
    CASE r.kind \in {"patch", "resolve"} -> r.server
      [] r.kind = "visit" -> [d EXCEPT !.has = TRUE, !.waiting = {}, !.visits = @ \cup {i}, !.dnk = @ \/ r.val]
      [] OTHER -> [d EXCEPT !.has = TRUE, !.lead = TRUE]

(* _reconcileFieldAcks, one acknowledged row after the other. *)
PassAck ==
    /\ pass.pc = "ack" /\ pass.acks # {}
    /\ LET i == Min(pass.acks)
       IN /\ detail' = reconcilePropertyDetail(i, rows[i], detail)
          /\ pass' = [pass EXCEPT !.acks = @ \ {i}]
          /\ rows' = [rows EXCEPT ![i].server = NoDetail]  \* not read again
    /\ UNCHANGED <<office, screen, load, opt, record, sync, hist>>

(* The end decides from the stored rows whether the timer is needed. *)
TimerNeeded_IgnoresPhotos == \E i \in Ids : rows[i].state = "pending"
TimerNeeded == \E i \in Ids : rows[i].state = "pending" \/ Retryable(rows[i])
PassEnd ==
    /\ pass.pc = "ack" /\ pass.acks = {}
    /\ pass' = NoPass
    /\ sync' = [sync EXCEPT !.timer = TimerNeeded]
    /\ UNCHANGED <<office, rows, device, hist>>

TimerFires ==
    /\ sync.timer
    /\ sync' = [want |-> TRUE, timer |-> FALSE]
    /\ UNCHANGED <<office, rows, device, pass, hist>>

FileLost ==
    /\ CanSpend
    /\ \E f \in hist.files : hist' = [Spend(hist) EXCEPT !.files = @ \ {f}]
    /\ UNCHANGED <<office, rows, device, pass, sync>>

(* The app is killed; startAutoSync runs a pass when it is opened again. *)
Crash ==
    /\ CanSpend /\ ("crash" \in Windows \/ pass.acks = {})
    /\ screen' = NoScreen
    /\ load' = NoLoad /\ opt' = NoOpt /\ pass' = NoPass
    /\ sync' = Trigger
    /\ hist' = Spend(hist)
    /\ UNCHANGED <<office, rows, detail, record>>

-----------------------------------------------------------------------------
(* Review of a conflict on the Property screen *)

Reviewing(i) == /\ CanAct /\ screen.conflict = i /\ i \in Ids
                /\ rows[i].state = "conflict" /\ load.st = "idle"

(* setConflict(null), then load. *)
Reload == /\ screen' = [screen EXCEPT !.conflict = 0]
          /\ load' = [st |-> "sent", snap |-> Snapshot(office)]

(* resolveFieldConflict "use_server": the 409's snapshot becomes the cached copy. *)
useServer(i) ==
    /\ Reviewing(i)
    /\ detail' = IF rows[i].server.has THEN rows[i].server ELSE detail
    /\ rows' = [rows EXCEPT ![i].state = "removed"]
    /\ Reload
    /\ UNCHANGED <<office, opt, record, pass, sync, hist>>

(* resolveFieldConflict "keep_local": the same body again, its old token included. *)
keepLocal(i) ==
    /\ Reviewing(i)
    /\ rows' = [rows EXCEPT ![i] = [@ EXCEPT !.state = "pending", !.code = "none", !.tries = 0,
                                             !.server = NoDetail]]
    /\ sync' = [sync EXCEPT !.want = TRUE]
    /\ Reload
    /\ UNCHANGED <<office, detail, opt, record, pass, hist>>

(* mergeConflictResolution: the kept field goes into a new patch with the snapshot's token.
   A visit's own fields are no fields of the property, so nothing of the visit is kept. *)
mergeConflictResolution(r) ==
    makeMutation("resolve", r.server.ver, IF r.kind = "visit" THEN r.server.dnk ELSE r.val)

(* resolveFieldConflictMerge with the rep's field kept, where it differs. *)
applyMergeMine(i) ==
    /\ Reviewing(i)
    /\ IF rows[i].kind = "visit" THEN "merge" \in Windows ELSE rows[i].val # rows[i].server.dnk
    /\ NextId \in Ids
    /\ rows' = [rows EXCEPT ![i].state = "removed", ![NextId] = mergeConflictResolution(rows[i])]
    /\ detail' = [rows[i].server EXCEPT !.dnk = mergeConflictResolution(rows[i]).val]
    /\ sync' = Trigger
    /\ Reload
    /\ UNCHANGED <<office, opt, record, pass, hist>>

-----------------------------------------------------------------------------
PassStep == PassBegin \/ SendRow \/ PassWrite \/ PassAck \/ PassEnd

Next ==
    \/ PassStep \/ patchCachedDetail \/ LoadAnswered \/ TimerFires
    \/ OpenProperty \/ LoadFailed \/ toggleDNK \/ createLead
    \/ (\E dnk \in BOOLEAN : recordVisit(dnk) \/ leadVisit(dnk))
    \/ OpenRecord \/ saveEdit \/ setStatus \/ saveInspection \/ archive \/ persistAndQueue \/ retryItem
    \/ (\E i \in Ids : replacePhoto(i) \/ removeItem(i) \/ useServer(i) \/ keepLocal(i) \/ applyMergeMine(i))
    \/ OfficeEditsProperty \/ OfficeEditsRecord
    \/ PassOffline \/ RequestLost \/ AnswerLost \/ Refused \/ FileLost \/ Crash

Spec == Init /\ [][Next]_vars

(* Started chains of awaits run on, requests have timeouts, and the retry timer fires. *)
FairSpec ==
    Spec /\ WF_vars(PassStep) /\ WF_vars(patchCachedDetail) /\ WF_vars(LoadAnswered) /\ WF_vars(TimerFires)

-----------------------------------------------------------------------------
(* Properties *)

(* Values the variables of field work range over. *)
MutationKinds == {"none", "visit", "patch", "resolve", "lead", "edit", "inspection", "archive", "photo"}
MutationStates == {"none", "pending", "synced", "failed", "conflict", "removed"}
Details == [has : BOOLEAN, ver : Nat, dnk : BOOLEAN, visits : SUBSET Ids, waiting : SUBSET Ids, lead : BOOLEAN]
Mutations == [kind : MutationKinds, state : MutationStates, tok : Nat, val : BOOLEAN, saw : Nat, file : Nat,
              tries : Nat, code : {"none", "permanent", "http"}, server : Details]
Offices == [ver : Nat, dnk : BOOLEAN, visits : [Ids -> Nat], leads : SUBSET Ids, rec : Nat, arch : BOOLEAN,
            insps : [Ids -> Nat], photos : [Ids -> SUBSET Nat], keys : SUBSET Ids, ran : SUBSET Ids]
Patches == [st : {"idle", "put"}, id : Nat, kind : {"none", "visit", "patch"}, val : BOOLEAN, cur : Details,
            visits : SUBSET Ids, waiting : SUBSET Ids]
WorkPasses == [pc : {"idle", "send", "ack"}, snap : [Ids -> Mutations], todo : SUBSET Ids, sent : SUBSET Ids,
               acks : SUBSET Ids]
Histories == [plan : SUBSET Kinds, events : Nat, officeVer : Nat, officeRec : Nat, blind : BOOLEAN,
              overtaken : BOOLEAN, files : SUBSET Nat]

TypeOK ==
    /\ office \in Offices /\ rows \in [Ids -> Mutations] /\ detail \in Details
    /\ screen \in [prop : Details, conflict : Ids \cup {0}]
    /\ load \in [st : {"idle", "sent"}, snap : Details] /\ opt \in Patches
    /\ opt.st = "put" => opt.id \in Ids
    /\ record \in Nat /\ pass \in WorkPasses
    /\ sync \in [want : BOOLEAN, timer : BOOLEAN] /\ hist \in Histories

(* A row counts as synced only when Office ran it, a synced photo is the file the rep last
   chose, and nothing is run twice through lost answers, crashes and retries: no visit is
   recorded twice, no inspection or photo is filed twice, and the property gets one lead. *)
SyncedRanOnce ==
    /\ \A i \in Ids : rows[i].state = "synced" =>
        /\ i \in office.ran
        /\ rows[i].kind = "photo" => rows[i].file \in office.photos[i]
    /\ \A i \in Ids : office.visits[i] <= 1 /\ office.insps[i] <= 1 /\ Cardinality(office.photos[i]) <= 1
    /\ Cardinality(office.leads) <= 1

(* A Do Not Knock change, a merged field or an edit of a record is run at Office only if the
   rep had seen the last change somebody made there; else it comes back as a conflict. *)
OfficeEditsSeen == ~hist.blind

Settled == /\ \A i \in Ids : rows[i].state \in {"none", "synced", "removed"}
           /\ pass.pc = "idle" /\ opt.st = "idle" /\ load.st = "idle"
Agrees == detail.has /\ detail.ver = office.ver => detail.dnk = office.dnk

(* Once no row is unsettled, the cached property holds nothing optimistic: no placeholder of
   a visit, and at Office's version it says what Office says, unless the flag was cleared
   between a Do Not Knock visit's run and its reconciliation. *)
CacheSettles == Settled => detail.waiting = {} /\ (hist.overtaken \/ Agrees)

(* Every pending row is sent and answered, and a failed photo that may be retried is, until
   its attempts are used up; no trigger is lost between passes. *)
RowsSettle ==
    \A i \in Ids : (rows[i].state = "pending" \/ Retryable(rows[i]))
                        ~> ~(rows[i].state = "pending" \/ Retryable(rows[i]))
=============================================================================
