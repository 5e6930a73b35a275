--------------------------- MODULE MeasurementSync ---------------------------
(***************************************************************************)
(* Roof measurements of one lead, between a Field device and Office.  On   *)
(* the device: the Measurements screen and its loads, the working draft    *)
(* (edits not saved yet), the draft of a measurement Office does not have  *)
(* yet, the cached Office revisions, one queue row per revision and one    *)
(* for the create, the sync pass with its acknowledgements, the recovery   *)
(* at start-up.  In Office: numbered revisions guarded by an If-Match      *)
(* token, and the idempotency keys.                                        *)
(*                                                                         *)
(* A document gives each group of fields (facets, edges, summary ...) a    *)
(* value: 0 is empty, Field's k-th edit writes k, Office's k-th edit -k.   *)
(* Token 0 and state "none" stand for an absent record.                    *)
(***************************************************************************)
EXTENDS Integers, FiniteSets

CONSTANTS
    Groups,     \* the groups threeWayMergeMeasurement merges one by one
    MaxRevs,    \* bound: revisions of the lead
    MaxEdits,   \* bound: Field edits
    MaxSaves,   \* bound: taps on Save
    MaxOffice,  \* bound: Office edits, verifications and returns to the field
    MaxLoads,   \* bound: loads of the screen
    MaxFaults,  \* bound: lost answers, refusals, app crashes
    Windows     \* which known windows the rep's taps may fall into: Save while start-up
                \* recovery runs ("recovery"), Use Office while the row's PUT is in
                \* flight ("discard"), Save while a create is being replayed ("replay")

ASSUME MeasurementAssumption ==
    /\ Groups # {} /\ MaxRevs \in Nat \ {0}
    /\ {MaxEdits, MaxSaves, MaxOffice, MaxLoads, MaxFaults} \subseteq Nat
    /\ Windows \subseteq {"recovery", "discard", "replay"}

VARIABLES
    office,   \* measurement_revisions: [tok, doc, ed] per revision
    keys,     \* idempotency keys Office has seen, with what they made
    rows,     \* pending_mutations: the create and one update per revision
    draft,    \* cache["measurement_draft:..."], the create not acknowledged
    working,  \* cache["measurement_working:..."], edits before Save
    detail,   \* cache["measurement_detail:<rev>"]
    list,     \* cache["measurement_scope:..."], the revisions listed
    opkey,    \* cache["measurement-new-revision:<rev>"]
    screen,   \* the Measurements screen
    load,     \* its load() waiting for the revision's GET
    pulls,    \* read-throughs under way whose answer only goes to the cache
    pass,     \* the running runSync pass
    rec,      \* recoverMeasurementsOnStartup
    budget,
    seen,     \* history: values the rep has had on the screen
    newest,   \* history: the newest save not discarded by the rep
    stored,   \* history: saves Office has stored
    clobbered \* history: unseen Office values a Field save replaced

server == <<office, keys>>
device == <<rows, draft, working, detail, list, opkey>>
history == <<seen, newest, stored, clobbered>>
vars == <<server, device, screen, load, pulls, pass, rec, budget, history>>

Revs == 1..MaxRevs
Create == 0                       \* the client_id of the create's row
RowIds == {Create} \cup Revs
Doc == [Groups -> (-MaxOffice)..MaxEdits]
Blank == [g \in Groups |-> 0]
Values(doc) == {doc[g] : g \in Groups}

(* canonicalEqual: ids, order and number formats are what Doc leaves out. *)
Same(d1, d2) == d1 = d2

(* workingDraftHasContent *)
HasContent(doc) == doc # Blank

NoRev == [tok |-> 0, doc |-> Blank, ed |-> FALSE]
NoRow == [state |-> "none", body |-> Blank, tok |-> 0, base |-> Blank, baseTok |-> 0,
          gen |-> 0, save |-> 0, key |-> 0, srv |-> NoRev, rev |-> 0]
NoDraft == [has |-> FALSE, body |-> Blank, key |-> 0]
NoBase == [rev |-> 0, key |-> 0, tok |-> 0, base |-> Blank, baseTok |-> 0, ed |-> TRUE]
NoWorking == [has |-> FALSE, doc |-> Blank, of |-> NoBase, from |-> Blank]
NoConflict == [on |-> FALSE, gen |-> 0, state |-> "none", srv |-> NoRev]
NoScreen == [open |-> FALSE, step |-> "none", of |-> NoBase, form |-> Blank, from |-> Blank,
             conflict |-> NoConflict, held |-> NoRow]
NoLoad == [on |-> FALSE, head |-> 0, opt |-> NoRev, row |-> NoRow, create |-> NoRow,
           draft |-> NoDraft, srv |-> NoRev, online |-> FALSE]
NoPass == [phase |-> "idle", todo |-> {}, items |-> [r \in RowIds |-> NoRow], acks |-> {},
           half |-> {}, sup |-> {}]
NoRec == [on |-> FALSE, rows |-> [r \in RowIds |-> NoRow], todo |-> {}, half |-> {}]

Active(row) == row.state \in {"pending", "failed", "conflict"}
Exists(r) == office[r].tok > 0
ListedBy(revs) == {r \in Revs : revs[r].tok > 0}
Newest(S) == IF S = {} THEN 0 ELSE CHOOSE r \in S : \A q \in S : q <= r   \* pickCurrent
Spend(what) == budget[what] < [edits |-> MaxEdits, saves |-> MaxSaves, office |-> MaxOffice,
                               loads |-> MaxLoads, faults |-> MaxFaults][what]
               /\ budget' = [budget EXCEPT ![what] = @ + 1]

Init ==
    /\ office \in {[r \in Revs |-> NoRev],
                   [r \in Revs |-> IF r = 1 THEN [tok |-> 1, doc |-> Blank, ed |-> TRUE]
                                   ELSE NoRev]}
    /\ keys = {} /\ rows = [r \in RowIds |-> NoRow]
    /\ draft = NoDraft /\ working = NoWorking
    /\ detail = [r \in Revs |-> NoRev] /\ list = {} /\ opkey = [r \in Revs |-> 0]
    /\ screen = NoScreen /\ load = NoLoad /\ pulls = {}
    /\ pass = NoPass /\ rec = NoRec
    /\ budget = [edits |-> 0, saves |-> 0, office |-> 0, loads |-> 0, faults |-> 0]
    /\ seen = {0} /\ newest = 0 /\ stored = {0} /\ clobbered = {}

-----------------------------------------------------------------------------
(* Office *)

OfficeEdit(r, g) ==
    /\ Exists(r) /\ office[r].ed /\ Spend("office")
    /\ office' = [office EXCEPT ![r].doc[g] = -(budget.office + 1), ![r].tok = @ + 1]
    /\ UNCHANGED <<keys, device, screen, load, pulls, pass, rec, history>>

(* transition_status: Office verifies a revision, or returns it to the field. *)
OfficeTransition(r) ==
    /\ Exists(r) /\ Spend("office")
    /\ office' = [office EXCEPT ![r].ed = ~@, ![r].tok = @ + 1]
    /\ UNCHANGED <<keys, device, screen, load, pulls, pass, rec, history>>

(* token_conflict *)
TokenConflict(r, tok) == office[r].tok # tok

(* An answer: what Office becomes, its keys, and the row processMutation makes of it. *)
Refused(m, srv) == [office |-> office, keys |-> keys,
                    row |-> [m EXCEPT !.state = "conflict", !.srv = srv]]
Done(m, revs, ks, r) == [office |-> revs, keys |-> ks,
                         row |-> [m EXCEPT !.state = "synced", !.srv = revs[r], !.rev = r]]

(* update_measurement: If-Match, then is_editable, then the whole document is replaced. *)
HandleUpdate(m, r) ==
    IF TokenConflict(r, m.tok) THEN Refused(m, office[r])
    ELSE IF ~office[r].ed THEN Refused(m, NoRev)
    ELSE Done(m, [office EXCEPT ![r].doc = m.body, ![r].tok = @ + 1], keys, r)

(* create_measurement under its Idempotency-Key: a replay is answered with the revision
   the key made, the same key with another body is refused. *)
HandleCreate(m) ==
    LET made == {k \in keys : k.of = Create /\ k.key = m.key}
        new == Cardinality(ListedBy(office)) + 1
    IN  IF \E k \in made : k.body = m.body
        THEN Done(m, office, keys, (CHOOSE k \in made : TRUE).rev)
        ELSE IF made # {} THEN Refused(m, NoRev)
        ELSE Done(m, [office EXCEPT ![new] = [tok |-> 1, doc |-> m.body, ed |-> TRUE]],
                  keys \cup {[of |-> Create, key |-> m.key, rev |-> new, body |-> m.body]}, new)

Handle(m, r) == IF r = Create THEN HandleCreate(m) ELSE HandleUpdate(m, r)

-----------------------------------------------------------------------------
(* The screen: loading *)

ReadOnly == screen.of.rev # 0 /\ ~screen.of.ed
Dirty == ~Same(screen.form, screen.from)

Shown(of, form, conflict) ==
    [NoScreen EXCEPT !.open = TRUE, !.step = "idle", !.of = of, !.form = form, !.from = form,
                     !.conflict = conflict]

(* hydrate, from a revision *)
FromRevision(r, d, conflict) ==
    Shown([NoBase EXCEPT !.rev = r, !.tok = d.tok, !.base = d.doc, !.baseTok = d.tok, !.ed = d.ed],
          d.doc, conflict)

ConflictOf(row, srv) == [on |-> TRUE, gen |-> row.gen, state |-> row.state, srv |-> srv]

(* A load that is overtaken, or whose screen is left, still caches its answer. *)
Orphaned == IF load.on /\ load.online THEN pulls \cup {[rev |-> load.head, srv |-> load.srv]}
            ELSE pulls

(* hydrateWorking: the working draft wins over everything else. *)
ShowWorking ==
    LET row == rows[working.of.rev]
        conflict == IF working.of.rev # 0 /\ row.state = "conflict"
                    THEN ConflictOf(row, row.srv) ELSE NoConflict
    IN  /\ screen' = Shown(working.of, working.doc, conflict)
        /\ seen' = seen \cup Values(working.doc)
        /\ load' = NoLoad
        /\ UNCHANGED <<working, list>>

(* No revision is known: the draft of the create, or an empty form. *)
ShowDraft ==
    /\ screen' = Shown([NoBase EXCEPT !.key = draft.key], draft.body, NoConflict)
    /\ load' = NoLoad /\ seen' = seen

(* load(), up to the GET of the revision: on focus, on the 15 s tick and on every
   sync_end, when the form holds no edit of its own. *)
LoadBegin(online) ==
    /\ screen.open /\ (screen.step = "opening" \/ (screen.step = "idle" /\ ~Dirty))
    /\ Spend("loads")
    /\ pulls' = Orphaned
    /\ IF working.has /\ HasContent(working.doc) THEN ShowWorking
       ELSE /\ working' = NoWorking
            /\ list' = IF online THEN ListedBy(office) ELSE list
            /\ LET head == Newest(list')
               IN  IF head = 0 THEN ShowDraft
                   ELSE /\ load' = [on |-> TRUE, head |-> head, opt |-> detail[head],
                                    row |-> rows[head], draft |-> draft,
                                    create |-> IF draft.has /\ rows[Create].key = draft.key THEN rows[Create] ELSE NoRow,
                                    srv |-> IF online THEN office[head] ELSE NoRev,
                                    online |-> online]
                        /\ UNCHANGED <<screen, seen>>
    /\ UNCHANGED <<server, rows, draft, detail, opkey, pass, rec, newest, stored, clobbered>>

(* resolveMeasurementView *)
View(srv) ==
    LET row == load.row
    IN  IF load.draft.has /\ load.create.state \notin {"none", "synced"} THEN "local_draft"
        ELSE IF row.state = "conflict" /\ load.opt.tok > 0 THEN "conflict"
        ELSE IF row.state = "failed" /\ load.opt.tok > 0 THEN "local_update"
        ELSE IF row.state = "pending" /\ load.opt.tok > 0
             THEN IF load.online /\ srv.tok # row.tok THEN "conflict" ELSE "local_update"
        ELSE IF srv.tok > 0 THEN "server"
        ELSE IF load.draft.has THEN "local_draft" ELSE "empty"

(* The GET is answered (and cached by the read-through) or fails (the cached copy is
   served); then the view is chosen, and local work is put back into the cache. *)
LoadEnd ==
    LET r == load.head
        srv == IF load.online THEN load.srv ELSE detail[r]
        view == View(srv)
        local == view \in {"local_update", "conflict"}
        office1 == IF load.row.state = "conflict" /\ load.row.srv.tok > 0 THEN load.row.srv ELSE srv
    IN  /\ load.on /\ screen.step \in {"idle", "opening"}
        /\ load' = NoLoad
        /\ detail' = [detail EXCEPT ![r] = IF local THEN load.opt ELSE srv]
        /\ draft' = IF view = "server" /\ load.online /\ load.create.state = "none"
                    THEN NoDraft ELSE draft
        /\ screen' = CASE local -> FromRevision(r, load.opt,
                                       IF view = "conflict" THEN ConflictOf(load.row, office1)
                                       ELSE NoConflict)
                       [] view = "server" -> FromRevision(r, srv, NoConflict)
                       [] view = "local_draft" -> Shown([NoBase EXCEPT !.key = load.draft.key], load.draft.body, NoConflict)
                       [] OTHER -> Shown(NoBase, Blank, NoConflict)
        /\ seen' = seen \cup Values(screen'.form)
        /\ UNCHANGED <<server, rows, working, list, opkey, pulls, pass, rec, budget,
                       newest, stored, clobbered>>

(* A read-through whose reader no longer waits: the cache is all it changes. *)
PullEnd(p) ==
    /\ p \in pulls /\ pulls' = pulls \ {p}
    /\ detail' = [detail EXCEPT ![p.rev] = p.srv]
    /\ UNCHANGED <<server, rows, draft, working, list, opkey, screen, load, pass, rec, budget,
                   history>>

(* The cached revision is not the one of the watermark. *)
Behind(r) == Exists(r) /\ detail[r].tok # office[r].tok

(* refreshLead: a revision behind its watermark with no active row is pulled. *)
RefreshLead(r) ==
    /\ Behind(r) /\ ~Active(rows[r])
    /\ pulls' = pulls \cup {[rev |-> r, srv |-> office[r]]}
    /\ UNCHANGED <<server, device, screen, load, pass, rec, budget, history>>

-----------------------------------------------------------------------------
(* The screen: editing *)

Open ==
    /\ ~screen.open /\ budget.loads < MaxLoads
    /\ screen' = [NoScreen EXCEPT !.open = TRUE, !.step = "opening"]
    /\ UNCHANGED <<server, device, load, pulls, pass, rec, budget, history>>

(* Every control of the form is disabled on a read-only revision. *)
Editable == screen.step = "idle" /\ ~ReadOnly

(* A field control; an edit may also empty a group (the remove buttons). *)
Type(g, empties) ==
    /\ Editable /\ ~load.on /\ Spend("edits")
    /\ screen' = [screen EXCEPT !.form[g] = IF empties THEN 0 ELSE budget.edits + 1]
    /\ screen'.form # screen.from
    /\ UNCHANGED <<server, device, load, pulls, pass, rec, history>>

AsWorking == [has |-> TRUE, doc |-> screen.form, of |-> screen.of, from |-> screen.from]

(* The 700 ms autosave, or the app going to the background. *)
Autosave ==
    /\ Editable /\ Dirty /\ working # AsWorking
    /\ working' = AsWorking
    /\ UNCHANGED <<server, rows, draft, detail, list, opkey, screen, load, pulls, pass, rec,
                   budget, history>>

(* All edits reverted: the working draft is cleared. *)
Revert ==
    /\ Editable /\ Dirty
    /\ screen' = [screen EXCEPT !.form = screen.from]
    /\ working' = NoWorking
    /\ UNCHANGED <<server, rows, draft, detail, list, opkey, load, pulls, pass, rec, budget,
                   history>>

(* Leaving the screen flushes an edited form into the working draft. *)
Leave ==
    /\ screen.step \in {"opening", "idle"} /\ (screen.step = "opening" => load.on)
    /\ screen' = NoScreen /\ load' = NoLoad /\ pulls' = Orphaned
    /\ working' = IF Editable /\ Dirty THEN AsWorking ELSE working
    /\ UNCHANGED <<server, rows, draft, detail, list, opkey, pass, rec, budget, history>>

-----------------------------------------------------------------------------
(* The screen: Save *)

(* The row is in the hands of a pass. *)
InFlight(r) == pass.phase = "send" /\ pass.items[r].state # "none"

(* chooseDurableMeasurementBase and the write token: a row still unsynced keeps its
   original base and token. *)
SaveRow_LatestToken ==
    [NoRow EXCEPT !.body = screen.form,
                  !.key = IF screen.of.key # 0 THEN screen.of.key ELSE budget.saves + 1,
                  !.tok = IF screen.of.rev = 0 THEN 0 ELSE detail[screen.of.rev].tok,
                  !.base = screen.of.base, !.baseTok = screen.of.baseTok]
SaveRow ==
    LET row == rows[screen.of.rev]
        kept == row.state \notin {"none", "synced"}
    IN  IF screen.of.rev = 0
        THEN [NoRow EXCEPT !.body = screen.form,
                           !.key = IF screen.of.key # 0 THEN screen.of.key ELSE budget.saves + 1]
        ELSE [NoRow EXCEPT !.body = screen.form,
                           !.tok = IF kept THEN row.tok ELSE screen.of.tok,
                           !.base = IF kept THEN row.base ELSE screen.of.base,
                           !.baseTok = IF kept THEN row.baseTok ELSE screen.of.baseTok]

(* Save writes the optimistic copy (or the create's draft) first ... *)
SaveBegin ==
    LET r == screen.of.rev
    IN  /\ Editable /\ Spend("saves")
        /\ screen' = [screen EXCEPT !.step = "queue", !.held = SaveRow]
        /\ IF r = 0
           THEN draft' = [has |-> TRUE, body |-> screen.form, key |-> SaveRow.key] /\ detail' = detail
           ELSE /\ detail' = [detail EXCEPT ![r] = [tok |-> screen.of.tok, doc |-> screen.form,
                                                    ed |-> TRUE]]
                /\ draft' = draft
        /\ UNCHANGED <<server, rows, working, list, opkey, load, pulls, pass, rec, history>>

(* ... then queues the mutation: the upsert bumps the row's generation ... *)
SaveQueue ==
    LET r == screen.of.rev
    IN  /\ screen.step = "queue" /\ (rec.on => "recovery" \in Windows)
        /\ (r = Create /\ InFlight(Create) /\ keys # {} => "replay" \in Windows)
        /\ rows' = [rows EXCEPT ![r] = [screen.held EXCEPT !.state = "pending", !.gen = rows[r].gen + 1,
                                                           !.save = budget.saves]]
        /\ newest' = budget.saves
        /\ screen' = [screen EXCEPT !.step = "clear"]
        /\ UNCHANGED <<server, draft, working, detail, list, opkey, load, pulls, pass, rec, budget,
                       seen, stored, clobbered>>

(* ... then seals and clears the working draft and goes back. *)
SaveClear ==
    /\ screen.step = "clear"
    /\ working' = NoWorking
    /\ screen' = NoScreen /\ load' = NoLoad /\ pulls' = Orphaned
    /\ UNCHANGED <<server, rows, draft, detail, list, opkey, pass, rec, budget, history>>

-----------------------------------------------------------------------------
(* The screen: conflicts *)

(* threeWayMergeMeasurement, group by group *)
Merge(base, field, off) ==
    [g \in Groups |-> IF field[g] # base[g] THEN field[g] ELSE off[g]]
MergeClean(base, field, off) ==
    \A g \in Groups : field[g] # base[g] /\ off[g] # base[g] => field[g] = off[g]

(* onKeepMine: only a row whose base is the one its PUT was checked against, and only a
   merge without a group both sides changed. *)
KeepMineBegin ==
    LET row == rows[screen.of.rev]
    IN  /\ screen.step = "idle" /\ screen.conflict.on /\ screen.conflict.srv.tok > 0
        /\ row.state # "none" /\ row.baseTok = row.tok
        /\ MergeClean(row.base, row.body, screen.conflict.srv.doc)
        /\ screen' = [screen EXCEPT !.step = "keep", !.held = row]
        /\ UNCHANGED <<server, device, load, pulls, pass, rec, budget, history>>

(* rebaseMeasurementUpdate: the row read before is written back, unguarded, as pending. *)
KeepMineWrite ==
    LET r == screen.of.rev
        m == screen.held
        srv == screen.conflict.srv
    IN  /\ screen.step = "keep"
        /\ rows' = [rows EXCEPT ![r] = [m EXCEPT !.state = "pending", !.tok = srv.tok, !.srv = NoRev,
                                                 !.body = Merge(m.base, m.body, srv.doc),
                                                 !.base = srv.doc, !.baseTok = srv.tok]]
        /\ screen' = [screen EXCEPT !.step = "opening", !.conflict = NoConflict]
        /\ seen' = seen \cup Values(srv.doc)
        /\ UNCHANGED <<server, draft, working, detail, list, opkey, load, pulls, pass, rec, budget,
                       newest, stored, clobbered>>

(* adoptOfficeVersion: the Office revision is fetched, and the row must still be the one
   the rep reviewed (onUseOffice) or the failed one on screen (onFailedUseOffice). *)
UseOfficeBegin ==
    LET r == screen.of.rev
        row == rows[r]
    IN  /\ screen.step = "idle" /\ r # 0 /\ ~load.on
        /\ \/ screen.conflict.on /\ row.gen = screen.conflict.gen /\ row.state = screen.conflict.state
           \/ row.state = "failed"
        /\ Active(row)
        /\ screen' = [screen EXCEPT !.step = "office", !.held = [row EXCEPT !.srv = office[r]]]
        /\ UNCHANGED <<server, device, load, pulls, pass, rec, budget, history>>

(* validateLiveMutation *)
LiveRowReviewed == rows[screen.of.rev].gen = screen.held.gen
                   /\ rows[screen.of.rev].state = screen.held.state

(* One exclusive transaction: the row, both drafts, the cached revision and the list. *)
UseOfficeCommit ==
    LET r == screen.of.rev
    IN  /\ screen.step = "office" /\ LiveRowReviewed
        /\ InFlight(r) => "discard" \in Windows
        /\ rows' = [rows EXCEPT ![r] = NoRow]
        /\ detail' = [detail EXCEPT ![r] = screen.held.srv]
        /\ draft' = NoDraft /\ working' = NoWorking /\ list' = list \cup {r}
        /\ newest' = 0
        /\ screen' = [screen EXCEPT !.step = "opening", !.conflict = NoConflict]
        /\ UNCHANGED <<server, opkey, load, pulls, pass, rec, budget, seen, stored, clobbered>>

(* Stale, not fetched, or the transaction failed: nothing is discarded. *)
UseOfficePreserved ==
    /\ screen.step = "office"
    /\ screen' = [screen EXCEPT !.step = "opening"]
    /\ UNCHANGED <<server, device, load, pulls, pass, rec, budget, history>>

(* onFailedRemoveLocal: a refused create is dropped with its drafts. *)
RemoveLocal ==
    /\ screen.step = "idle" /\ screen.of.rev = 0 /\ draft.has /\ rows[Create].state = "failed"
    /\ screen.of.key = rows[Create].key
    /\ rows' = [rows EXCEPT ![Create] = NoRow]
    /\ draft' = NoDraft /\ working' = NoWorking /\ newest' = 0
    /\ screen' = NoScreen /\ load' = NoLoad /\ pulls' = Orphaned
    /\ UNCHANGED <<server, detail, list, opkey, pass, rec, budget, seen, stored, clobbered>>

-----------------------------------------------------------------------------
(* The screen: a new revision of a locked one *)

(* createFieldRevision stores an operation key before it asks. *)
NewRevisionKey_NotKept ==
    LET r == screen.of.rev
    IN  /\ screen.step = "idle" /\ r # 0 /\ ReadOnly /\ ~(working.has /\ HasContent(working.doc))
        /\ opkey' = [opkey EXCEPT ![r] = Cardinality(keys) + 1]
        /\ screen' = [screen EXCEPT !.step = "clone"]
        /\ UNCHANGED <<server, rows, draft, working, detail, list, load, pulls, pass, rec, budget,
                       history>>
NewRevisionKey ==
    LET r == screen.of.rev
    IN  /\ screen.step = "idle" /\ r # 0 /\ ReadOnly /\ ~(working.has /\ HasContent(working.doc))
        /\ opkey' = [opkey EXCEPT ![r] = IF @ # 0 THEN @ ELSE Cardinality(keys) + 1]
        /\ screen' = [screen EXCEPT !.step = "clone"]
        /\ UNCHANGED <<server, rows, draft, working, detail, list, load, pulls, pass, rec, budget,
                       history>>

(* new_measurement_revision: one clone per key, however often it is asked. *)
NewRevision(lost) ==
    LET r == screen.of.rev
        made == {k \in keys : k.of = r /\ k.key = opkey[r]}
        new == IF made # {} THEN (CHOOSE k \in made : TRUE).rev
               ELSE Cardinality(ListedBy(office)) + 1
    IN  /\ screen.step = "clone" /\ new \in Revs
        /\ IF made # {} THEN UNCHANGED server
           ELSE /\ office' = [office EXCEPT ![new] = [tok |-> 1, doc |-> office[r].doc, ed |-> TRUE]]
                /\ keys' = keys \cup {[of |-> r, key |-> opkey[r], rev |-> new, body |-> Blank]}
        /\ IF lost
           THEN /\ Spend("faults") /\ screen' = [screen EXCEPT !.step = "idle"]
                /\ UNCHANGED <<detail, list, opkey, seen, load, pulls>>
           ELSE /\ detail' = [detail EXCEPT ![new] = office'[new]] /\ list' = list \cup {new}
                /\ opkey' = [opkey EXCEPT ![r] = 0]
                /\ screen' = FromRevision(new, office'[new], NoConflict)
                /\ seen' = seen \cup Values(office'[new].doc)
                /\ load' = NoLoad /\ pulls' = Orphaned
                /\ UNCHANGED budget
        /\ UNCHANGED <<rows, draft, working, pass, rec, newest, stored, clobbered>>

NewRevisionFails ==
    /\ screen.step = "clone"
    /\ screen' = [screen EXCEPT !.step = "idle"]
    /\ UNCHANGED <<server, device, load, pulls, pass, rec, budget, history>>

-----------------------------------------------------------------------------
(* The sync pass *)

(* loadPending: every row not synced is read; the conflicted ones are not sent. *)
PassStart ==
    /\ pass.phase = "idle" /\ ~rec.on
    /\ \E r \in RowIds : rows[r].state \in {"pending", "failed"}
    /\ pass' = [NoPass EXCEPT !.phase = "send",
                              !.todo = {r \in RowIds : rows[r].state \in {"pending", "failed"}},
                              !.items = [r \in RowIds |-> IF Active(rows[r]) THEN rows[r] ELSE NoRow]]
    /\ UNCHANGED <<server, device, screen, load, pulls, rec, budget, history>>

(* Bound: a create finds a free revision number, or replays its key. *)
CreateFits(m) == Cardinality(ListedBy(office)) < MaxRevs
                 \/ \E k \in keys : k.of = Create /\ k.key = m.key

(* Office handles a request: its answer, and what a Field save replaced unseen. *)
Answered(r, m) ==
    LET a == Handle(m, r)
    IN  /\ (r = Create => CreateFits(m))
        /\ office' = a.office /\ keys' = a.keys
        /\ IF a.row.state # "synced" THEN UNCHANGED <<stored, clobbered>>
           ELSE /\ stored' = stored \cup {m.save}
                /\ clobbered' = IF r = Create THEN clobbered
                                ELSE clobbered \cup {v \in Values(office[r].doc) :
                                        v < 0 /\ v \notin Values(m.body) /\ v \notin seen}

(* processMutation: the answer arrives, is lost on the way, or is a 4xx; without a
   connection the row stays as it is. *)
PassSend(r) ==
    /\ pass.phase = "send" /\ r \in pass.todo
    /\ \/ /\ Answered(r, pass.items[r])
          /\ pass' = [pass EXCEPT !.todo = @ \ {r}, !.items[r] = Handle(@, r).row]
          /\ UNCHANGED budget
       \/ /\ Answered(r, pass.items[r]) /\ Spend("faults")
          /\ pass' = [pass EXCEPT !.todo = @ \ {r}, !.items[r].state = "pending"]
       \/ /\ Spend("faults")
          /\ pass' = [pass EXCEPT !.todo = @ \ {r}, !.items[r].state = "failed"]
          /\ UNCHANGED <<server, stored, clobbered>>
    /\ UNCHANGED <<device, screen, load, pulls, rec, seen, newest>>

(* A row is found by its client_id: one per revision for the updates, while every create
   has its own. *)
SameRow(row, m) == row.state # "none" /\ row.key = m.key

(* saveMutationIfCurrent for every row read, then the acknowledgements are compared
   with the rows as they are now. *)
PassWriteback_AnyGeneration ==
    LET items == pass.items
    IN  /\ pass.phase = "send" /\ pass.todo = {}
        /\ rows' = [r \in RowIds |-> IF items[r].state # "none" THEN items[r] ELSE rows[r]]
        /\ pass' = [pass EXCEPT !.phase = "ack",
                                !.acks = {r \in RowIds : items[r].state = "synced"}]
        /\ UNCHANGED <<server, draft, working, detail, list, opkey, screen, load, pulls, rec,
                       budget, history>>
PassWriteback ==
    LET items == pass.items
    IN  /\ pass.phase = "send" /\ pass.todo = {}
        /\ rows' = [r \in RowIds |-> IF items[r].state # "none" /\ SameRow(rows[r], items[r])
                                        /\ rows[r].gen = items[r].gen
                                     THEN items[r] ELSE rows[r]]
        /\ LET acks == {r \in RowIds : items[r].state = "synced"}
           IN  pass' = [pass EXCEPT !.phase = "ack", !.acks = acks,
                                    !.sup = {r \in acks : SameRow(rows'[r], items[r])
                                                          /\ rows'[r].gen # items[r].gen}]
        /\ UNCHANGED <<server, draft, working, detail, list, opkey, screen, load, pulls, rec,
                       budget, history>>

(* _reconcileMeasurementAcks: the acknowledged revision goes into the caches ... *)
AckDetail(r) ==
    LET m == pass.items[r]
    IN  /\ pass.phase = "ack" /\ r \in pass.acks \ pass.half
        /\ detail' = [detail EXCEPT ![m.rev] = m.srv]
        /\ list' = list \cup {m.rev}
        /\ pass' = [pass EXCEPT !.half = @ \cup {r}]
        /\ UNCHANGED <<server, rows, draft, working, opkey, screen, load, pulls, rec, budget,
                       history>>

(* retireCreateDraft and planMeasurementWorkingAck *)
RetireDraft(r, key) == IF r = Create /\ draft.key = key THEN NoDraft ELSE draft
RetireWorking_Unread(r, m) ==
    IF working.of.rev = IF r = Create THEN 0 ELSE m.rev THEN NoWorking ELSE working
RetireWorking(r, m) ==
    IF working.has /\ ~HasContent(working.doc)
       /\ IF r = Create THEN working.of.rev = 0 /\ working.of.key = m.key
         ELSE working.of.rev = m.rev
    THEN NoWorking ELSE working

(* rebasePendingMeasurementIfMatch *)
RebaseRow(row, srv) ==
    IF row.state = "pending" THEN [row EXCEPT !.tok = srv.tok, !.base = srv.doc, !.baseTok = srv.tok]
    ELSE row

(* rebaseWorkingDraftToRevision: the new base carries an id and a token only; without
   `editable' the screen shows the draft read-only. *)
RebasedWorking(m) ==
    IF working.has /\ working.of.key \in {0, m.key}
    THEN [working EXCEPT !.of = [NoBase EXCEPT !.rev = m.rev, !.tok = m.srv.tok, !.ed = FALSE]]
    ELSE working

(* buildConvertedUpdateMutation *)
ConvertedRow(m) == [rows[Create] EXCEPT !.key = 0, !.tok = m.srv.tok, !.base = m.srv.doc,
                                        !.baseTok = m.srv.tok, !.rev = m.rev]

(* convertSupersededCreateToUpdate: the newer create becomes an update of the revision
   just made. *)
ConvertCreate(m) ==
    IF rows[Create].state = "pending" /\ SameRow(rows[Create], m)
    THEN /\ rows' = [rows EXCEPT ![m.rev] = ConvertedRow(m), ![Create] = NoRow]
         /\ working' = RebasedWorking(m)
    ELSE UNCHANGED <<rows, working>>

(* ... and the exact drafts it acknowledges are retired, or a newer row is rebased. *)
AckDrafts(r) ==
    LET m == pass.items[r]
    IN  /\ pass.phase = "ack" /\ r \in pass.acks \cap pass.half
        /\ IF r \in pass.sup
           THEN /\ draft' = draft
                /\ IF r = Create THEN ConvertCreate(m)
                   ELSE /\ rows' = [rows EXCEPT ![r] = RebaseRow(@, m.srv)]
                        /\ working' = working
           ELSE /\ draft' = RetireDraft(r, m.key) /\ working' = RetireWorking(r, m)
                /\ rows' = rows
        /\ pass' = [pass EXCEPT !.acks = @ \ {r}, !.half = @ \ {r}]
        /\ UNCHANGED <<server, detail, list, opkey, screen, load, pulls, rec, budget, history>>

PassEnd ==
    /\ pass.phase = "ack" /\ pass.acks = {}
    /\ pass' = NoPass
    /\ UNCHANGED <<server, device, screen, load, pulls, rec, budget, history>>

-----------------------------------------------------------------------------
(* Crash, restart and start-up recovery *)

(* The app is killed: what was in memory is gone; recovery reads the rows it finds.  The
   model leaves out one instant: between a create's queueing and the clearing of its
   working draft, which then comes back without the create's client id and is saved as a
   second create. *)
Crash ==
    /\ Spend("faults") /\ ~(screen.step = "clear" /\ screen.of.rev = 0)
    /\ screen' = NoScreen /\ load' = NoLoad /\ pulls' = {} /\ pass' = NoPass
    /\ rec' = [NoRec EXCEPT !.on = TRUE, !.rows = rows,
                            !.todo = {r \in RowIds : rows[r].state = "synced"}]
    /\ UNCHANGED <<server, device, history>>

(* A synced row is settled: its revision cached, its drafts retired ... *)
RecoverSettle(r) ==
    LET m == rec.rows[r]
    IN  /\ rec.on /\ r \in rec.todo \ rec.half
        /\ detail' = [detail EXCEPT ![m.rev] = m.srv] /\ list' = list \cup {m.rev}
        /\ draft' = RetireDraft(r, m.key) /\ working' = RetireWorking(r, m)
        /\ rec' = [rec EXCEPT !.half = @ \cup {r}]
        /\ UNCHANGED <<server, rows, opkey, screen, load, pulls, pass, budget, history>>

(* ... and the row removed by its client_id, whatever it holds by then. *)
RecoverRemove(r) ==
    /\ rec.on /\ r \in rec.todo \cap rec.half
    /\ rows' = [rows EXCEPT ![r] = IF SameRow(@, rec.rows[r]) THEN NoRow ELSE @]
    /\ rec' = [rec EXCEPT !.todo = @ \ {r}, !.half = @ \ {r}]
    /\ UNCHANGED <<server, draft, working, detail, list, opkey, screen, load, pulls, pass, budget,
                   history>>

(* classifyOrphanWorkingDraft: only an empty draft, or one that still equals the base it
   was opened from while that base is current, is cleared. *)
Obsolete(wd) ==
    LET cached == IF wd.of.rev = 0 THEN NoRev ELSE detail[wd.of.rev]
        row == rec.rows[wd.of.rev]
    IN  /\ ~(Active(row) /\ (wd.of.rev = 0 => row.key = wd.of.key))
        /\ \/ ~HasContent(wd.doc)
           \/ Same(wd.doc, wd.from) /\ (wd.of.tok = 0 \/ cached.tok = 0 \/ wd.of.tok = cached.tok)

RecoverEnd ==
    /\ rec.on /\ rec.todo = {}
    /\ working' = IF working.has /\ Obsolete(working) THEN NoWorking ELSE working
    /\ rec' = NoRec
    /\ UNCHANGED <<server, rows, draft, detail, list, opkey, screen, load, pulls, pass, budget,
                   history>>

-----------------------------------------------------------------------------
Next ==
    \/ \E r \in Revs, g \in Groups : OfficeEdit(r, g)
    \/ \E r \in Revs : OfficeTransition(r) \/ RefreshLead(r)
    \/ Open \/ Leave \/ Autosave \/ Revert
    \/ \E online \in BOOLEAN : LoadBegin(online)
    \/ LoadEnd
    \/ \E p \in pulls : PullEnd(p)
    \/ \E g \in Groups, empties \in BOOLEAN : Type(g, empties)
    \/ SaveBegin \/ SaveQueue \/ SaveClear
    \/ KeepMineBegin \/ KeepMineWrite
    \/ UseOfficeBegin \/ UseOfficeCommit \/ UseOfficePreserved \/ RemoveLocal
    \/ NewRevisionKey \/ NewRevisionFails
    \/ \E lost \in BOOLEAN : NewRevision(lost)
    \/ PassStart \/ PassWriteback \/ PassEnd
    \/ \E r \in RowIds : PassSend(r) \/ AckDetail(r) \/ AckDrafts(r)
                         \/ RecoverSettle(r) \/ RecoverRemove(r)
    \/ Crash \/ RecoverEnd

Spec == Init /\ [][Next]_vars

-----------------------------------------------------------------------------
(* A Field save never replaces an Office edit the rep has not had on the screen: the
   If-Match token of every row stands for content its body was made in view of, through
   coalesced saves, rebases after an acknowledgement, and Keep-mine merges. *)
OfficeEditsSeen == clobbered = {}

(* The newest save the rep has not discarded is stored in Office or still in an unsynced
   row, whatever passes, late answers, conversions, crashes and recoveries did since. *)
NewestSaveKept ==
    newest \in stored \/ \E r \in RowIds : Active(rows[r]) /\ rows[r].save = newest

(* One tap on Save, or one New revision, makes one revision: lost answers, retries and
   restarts never duplicate it. *)
NoDuplicateRevision ==
    \A k, l \in keys : k.of = l.of /\ (k.of = Create => k.key = l.key) => k = l

(* Background work (a pass's acknowledgements, recovery, a read-through) never drops a
   working draft that holds edits: only the rep's own taps do. *)
Background == pass' # pass \/ rec' # rec
DraftSurvivesBackground ==
    [][Background /\ working.has /\ HasContent(working.doc) /\ working.doc # working.from
       /\ screen' = screen
       => working'.has /\ working'.doc = working.doc]_vars
=============================================================================
