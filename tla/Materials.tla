------------------------------ MODULE Materials ------------------------------
(***************************************************************************)
(* The material catalogue on two Office desks: Inventory.jsx, with its     *)
(* selection, its dialogs and the CSV import, on one, MaterialDetail.jsx   *)
(* on the other, over routers/operations.py.                               *)
(*                                                                         *)
(*   mats  a material's life, whether stock or history keeps it from being *)
(*         deleted, its fields as one value, whether its price is its own, *)
(*         the suppliers mapped to it and the preferred one                *)
(*   inv   the list as loaded, the selection, the edit form, the import    *)
(*   det   the material shown, as loaded, its edit form, the Undo on offer *)
(***************************************************************************)
EXTENDS Integers, FiniteSets

CONSTANTS Mats,       \* materials, each with its SKU
          Files,      \* CSV files, as the sets of SKUs they list
          MaxVal,     \* bound: values of a material's fields
          MaxActs,    \* bound: what people do
          MaxEvents,  \* bound: answers that fail
          Windows     \* schedules left out unless named: "late"

VARIABLES mats, inv, det, hist

vars == <<mats, inv, det, hist>>

Suppliers == {"s", "t"}
None == "none"
Listed == 0                       \* the fields as the file gives them
Same == -1                        \* a field not ticked in the bulk edit
Vals == 1..MaxVal
NoFile == {}
NoForm == [of |-> None, val |-> 0, custom |-> FALSE]
NoPreview == [of |-> NoFile, update |-> {}]
Shut == [open |-> FALSE, text |-> NoFile, preview |-> NoPreview, ack |-> FALSE,
         asked |-> {}, ticked |-> NoPreview]
Fresh(v) == [life |-> "there", active |-> TRUE, kept |-> FALSE, val |-> v, custom |-> FALSE,
             sups |-> {}, best |-> None]

Act == hist.acts < MaxActs /\ hist' = [hist EXCEPT !.acts = @ + 1]
Event == hist.events < MaxEvents /\ hist' = [hist EXCEPT !.events = @ + 1]

There(ms) == {m \in Mats : ms[m].life = "there"}

(***************************************************************************)
(* The server.                                                             *)
(***************************************************************************)
\* list_materials
Rows(ms, show) == [m \in {n \in There(ms) : show = "all" \/ ms[n].active} |-> ms[m]]

\* _material_delete_blockers: stock, movements, lines and plans, supplier mappings
Blocked(x) == x.kept \/ x.sups # {}
delete_materials(ids) ==
    [m \in Mats |-> IF m \in ids \cap There(mats) /\ ~Blocked(mats[m])
                    THEN [mats[m] EXCEPT !.life = "gone"] ELSE mats[m]]
bulk_update(ids, val, active) ==
    [m \in Mats |-> IF m \in ids \cap There(mats)
                    THEN [mats[m] EXCEPT !.val = IF val = Same THEN @ ELSE val, !.active = @ /\ active] ELSE mats[m]]
update_material(m, x) == [mats EXCEPT ![m] = IF @.life = "there" THEN x ELSE @]

\* _csv_diff: a row whose SKU is there updates it, another creates it
_csv_diff(f) == [of |-> f, update |-> f \cap There(mats)]
csv_commit(f) == [m \in Mats |-> IF m \in f \cap There(mats) THEN [mats[m] EXCEPT !.val = Listed]
                                 ELSE IF m \in f THEN Fresh(Listed) ELSE mats[m]]

\* Materials that were there when the program was opened, one of them with history.
Init ==
    /\ \E old \in SUBSET Mats, kept \in SUBSET Mats :
         /\ kept \subseteq old
         /\ mats = [m \in Mats |-> [Fresh(1) EXCEPT !.life = IF m \in old THEN "there" ELSE "not yet",
                                                   !.kept = m \in kept]]
    /\ inv = [show |-> "all", rows |-> Rows(mats, "all"), sel |-> {}, edit |-> NoForm, csv |-> Shut]
    /\ det = [of |-> None, row |-> Fresh(0), edit |-> NoForm, undo |-> None]
    /\ hist = [acts |-> 0, events |-> 0, silent |-> {}]

(***************************************************************************)
(* Inventory.jsx. Every command that is answered loads the list again.     *)
(***************************************************************************)
Loaded(i) == [i EXCEPT !.rows = Rows(mats', i.show)]
Form(m, row) == [of |-> m, val |-> row.val, custom |-> row.custom]
Edited(m, f, v) == update_material(m, [mats[m] EXCEPT !.val = v, !.custom = f.custom])

\* "Name is required": a new material has a name no other has
createMaterial(m) ==
    /\ Act /\ mats[m].life = "not yet" /\ mats' = [mats EXCEPT ![m] = Fresh(1)]
    /\ inv' = Loaded(inv) /\ UNCHANGED det

\* a filter is chosen; what was selected stays so
setFilters ==
    /\ Act /\ UNCHANGED <<mats, det>>
    /\ \E show \in {"all", "active"} \ {inv.show} : inv' = Loaded([inv EXCEPT !.show = show])

openEdit(m) ==
    /\ Act /\ m \in DOMAIN inv.rows /\ inv' = [inv EXCEPT !.edit = Form(m, inv.rows[m])]
    /\ UNCHANGED <<mats, det>>
\* the whole form is written, as it was when it was opened but for what was typed
saveEdit == \E v \in Vals :
    /\ Act /\ inv.edit # NoForm /\ mats' = Edited(inv.edit.of, inv.edit, v)
    /\ inv' = IF mats[inv.edit.of].life = "there" THEN Loaded([inv EXCEPT !.edit = NoForm]) ELSE inv
    /\ UNCHANGED det

deleteMaterial(m) ==
    /\ Act /\ m \in DOMAIN inv.rows /\ mats' = delete_materials({m})
    /\ inv' = IF mats'[m].life # mats[m].life THEN Loaded([inv EXCEPT !.sel = @ \ {m}]) ELSE inv
    /\ UNCHANGED det

doAdjust(m) ==
    /\ Act /\ m \in DOMAIN inv.rows /\ mats' = update_material(m, [mats[m] EXCEPT !.kept = TRUE])
    /\ inv' = IF mats[m].life = "there" THEN Loaded(inv) ELSE inv
    /\ UNCHANGED det

toggleSelect(m) ==
    /\ Act /\ m \in DOMAIN inv.rows
    /\ inv' = [inv EXCEPT !.sel = IF m \in @ THEN @ \ {m} ELSE @ \cup {m}]
    /\ UNCHANGED <<mats, det>>
toggleSelectAll == \E checked \in BOOLEAN :
    /\ Act /\ inv' = [inv EXCEPT !.sel = IF checked THEN @ \cup DOMAIN inv.rows ELSE @ \ DOMAIN inv.rows]
    /\ UNCHANGED <<mats, det>>

\* the bar of the selection, hidden rows included
Bulk(ms) == Act /\ inv.sel # {} /\ mats' = ms /\ inv' = Loaded([inv EXCEPT !.sel = {}]) /\ UNCHANGED det
saveBulk == \E v \in Vals : Bulk(bulk_update(inv.sel, v, TRUE))
bulkDeactivate == Bulk(bulk_update(inv.sel, Same, FALSE))
bulkDelete == Bulk(delete_materials(inv.sel))

(***************************************************************************)
(* The CSV import: a file is read and its preview asked for.               *)
(***************************************************************************)
Csv(c) == inv' = [inv EXCEPT !.csv = c] /\ UNCHANGED det
\* the dialog does not wait for a preview: the file before it may still be on screen
Calm(c) == "late" \in Windows \/ (c.asked = {} /\ c.preview.of \in {NoFile, c.text})

openCsv == Act /\ ~inv.csv.open /\ UNCHANGED mats
           /\ Csv([inv.csv EXCEPT !.open = TRUE, !.text = NoFile, !.preview = NoPreview])
closeCsv == Act /\ inv.csv.open /\ UNCHANGED mats /\ Csv([inv.csv EXCEPT !.open = FALSE])

Chosen_KeepsTick(c, f) == [c EXCEPT !.text = f, !.asked = @ \cup {f}]
Chosen(c, f) == [c EXCEPT !.text = f, !.ack = FALSE, !.asked = @ \cup {f}]
onCsvFile(f) ==
    /\ Act /\ inv.csv.open /\ UNCHANGED mats
    /\ Calm(inv.csv)
    /\ Csv(Chosen(inv.csv, f))

PreviewAnswer(f) ==
    /\ f \in inv.csv.asked /\ ("late" \in Windows \/ inv.csv.text = f)
    /\ Csv([inv.csv EXCEPT !.asked = @ \ {f}, !.preview = _csv_diff(f)])
    /\ UNCHANGED <<mats, hist>>
\* a preview that fails is a toast: an earlier file's preview would stay on screen.
\* An answer for a dialog shut and opened since is left out with the others
PreviewLost(f) ==
    /\ f \in inv.csv.asked /\ ("late" \in Windows \/ inv.csv.preview = NoPreview \/ inv.csv.text # f)
    /\ IF inv.csv.text = f THEN Event ELSE UNCHANGED hist
    /\ Csv([inv.csv EXCEPT !.asked = @ \ {f}]) /\ UNCHANGED mats

\* "I understand ... existing materials will be updated"
OffersTick(c) == c.open /\ c.preview.update # {}
TickAck ==
    /\ Act /\ Calm(inv.csv) /\ OffersTick(inv.csv) /\ UNCHANGED mats
    /\ Csv([inv.csv EXCEPT !.ack = ~@, !.ticked = inv.csv.preview])

\* what the import is about to overwrite without having been ticked: materials that
\* were there when the file on screen was previewed, or a file not previewed at all
Unasked(c) ==
    LET now == c.text \cap There(mats)
    IN  IF c.preview.of # c.text THEN now
        ELSE IF c.ticked = c.preview THEN {} ELSE now \cap c.preview.update

OffersCommit(c) == c.open /\ c.preview # NoPreview /\ (c.preview.update = {} \/ c.ack)
\* confirm_updates is sent whatever the preview listed; a SKU that was deleted is
\* not imported again here
commitCsv ==
    LET c == inv.csv
    IN  /\ Calm(c) /\ OffersCommit(c) /\ hist.acts < MaxActs /\ \A m \in c.text : mats[m].life # "gone"
        /\ mats' = csv_commit(c.text)
        /\ hist' = [hist EXCEPT !.acts = @ + 1, !.silent = @ \cup Unasked(c)]
        /\ inv' = Loaded([inv EXCEPT !.csv = [c EXCEPT !.open = FALSE, !.text = NoFile, !.preview = NoPreview]])
        /\ UNCHANGED det

(***************************************************************************)
(* MaterialDetail.jsx.                                                     *)
(***************************************************************************)
Shows == det.of # None
\* a command on the material shown, and what the page loads after it
Command(x, d) ==
    /\ Act /\ Shows /\ mats' = update_material(det.of, x)
    /\ det' = IF mats[det.of].life = "there" THEN [d EXCEPT !.row = mats'[det.of]] ELSE det
    /\ UNCHANGED inv
Now == mats[det.of]

OpenDetail(m) ==
    /\ Act /\ m \in There(mats) /\ det.of # m
    /\ det' = [det EXCEPT !.of = m, !.row = mats[m], !.edit = NoForm]
    /\ UNCHANGED <<mats, inv>>
openEditHere ==
    /\ Act /\ Shows /\ det' = [det EXCEPT !.edit = Form(det.of, det.row)]
    /\ UNCHANGED <<mats, inv>>
saveEditHere == \E v \in Vals :
    /\ det.edit # NoForm
    /\ Command([Now EXCEPT !.val = v, !.custom = det.edit.custom], [det EXCEPT !.edit = NoForm])

\* a custom price typed into the form
typePrice ==
    /\ Act /\ det.edit # NoForm /\ det' = [det EXCEPT !.edit.custom = ~@]
    /\ UNCHANGED <<mats, inv>>
resetToAuto == det.row.custom /\ Command([Now EXCEPT !.custom = FALSE], det)

toggleActive ==
    Command([Now EXCEPT !.active = ~det.row.active],
            [det EXCEPT !.undo = IF det.row.active THEN det.of ELSE @])
\* the toast's Undo reactivates, whatever has been done since
UndoToggle ==
    /\ Act /\ det.undo # None /\ mats' = update_material(det.undo, [mats[det.undo] EXCEPT !.active = TRUE])
    /\ det' = [det EXCEPT !.undo = None, !.row = IF det.of = det.undo THEN mats'[det.of] ELSE @]
    /\ UNCHANGED inv

\* upsert_supplier_material; the first mapping is not preferred by itself
saveSupplier(s) == Command([Now EXCEPT !.sups = @ \cup {s}], det)
makePreferred(s) == s \in det.row.sups \ {det.row.best} /\ Command([Now EXCEPT !.best = s], det)
doAdjustHere == Command([Now EXCEPT !.kept = TRUE], det)

\* a deleted material's page goes back to the list
doDelete ==
    /\ Act /\ Shows /\ mats' = delete_materials({det.of})
    /\ det' = IF mats'[det.of].life # mats[det.of].life THEN [det EXCEPT !.of = None, !.edit = NoForm] ELSE det
    /\ UNCHANGED inv

Next ==
    \/ \E m \in Mats : \/ createMaterial(m) \/ openEdit(m) \/ deleteMaterial(m) \/ doAdjust(m)
                       \/ toggleSelect(m) \/ OpenDetail(m)
    \/ setFilters \/ saveEdit \/ toggleSelectAll \/ saveBulk \/ bulkDeactivate \/ bulkDelete
    \/ openCsv \/ closeCsv \/ TickAck \/ commitCsv
    \/ \E f \in Files : onCsvFile(f) \/ PreviewAnswer(f) \/ PreviewLost(f)
    \/ openEditHere \/ typePrice \/ saveEditHere \/ resetToAuto \/ toggleActive \/ UndoToggle
    \/ \E s \in Suppliers : saveSupplier(s) \/ makePreferred(s)
    \/ doAdjustHere \/ doDelete

Spec == Init /\ [][Next]_vars

(***************************************************************************)
(* Property.                                                               *)
(***************************************************************************)
\* An import overwrites no material its preview listed as an update unless that very
\* preview was ticked: choosing another file takes the tick back.
ImportIsAcknowledged == hist.silent = {}

=============================================================================
