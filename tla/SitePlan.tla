------------------------------ MODULE SitePlan -------------------------------
(***************************************************************************)
(* The combined site plan of a measurement worksheet: how the structures   *)
(* of a property are laid side by side in one drawing                      *)
(* (packages/roof-sketch-core/combineStructures.js), how they are dragged  *)
(* (components/roof-sketch/CombinedSitePlan.jsx), and how the drawing is   *)
(* kept on the revision as numbered versions, pictures in the object store *)
(* and keys in the revision's site_plan (routers/measurements.py), next to *)
(* the worksheet's own saves of that same site_plan.                       *)
(*                                                                         *)
(* Lengths are whole feet.  A stored file is the drawing it was made from: *)
(* the measurements, the structures in scope and their offsets.            *)
(***************************************************************************)
EXTENDS Integers, Sequences, FiniteSets, SequencesExt

CONSTANTS
    Desks,      \* the worksheets open on the revision
    Attached,   \* the structures of an attached type
    Measures,   \* what can be measured: structure -> [w, h], no width meaning no roof planes
    Moves,      \* the drags of a pointer, in feet
    Snaps,      \* how near a wall has to be to be snapped to, in feet; 0 is off
    Cap,        \* HISTORY_CAP
    MaxActs, MaxEvents

VARIABLES
    rev,        \* the revision on the server: doc, and its updated_at as token
    files,      \* version kept -> the picture and the packet stored under its keys
    desk,       \* each worksheet and the site plan it shows
    hist

vars == <<rev, files, desk, hist>>

None == [v |-> 0]
NoOffsets == <<>>

(***************************************************************************)
(* combineStructuresSitePlan.                                              *)
(***************************************************************************)
Area(m, s) == m[s].w * m[s].h
\* Largest footprint first; a structure without planes is left out.
Order(doc) ==
    SetToSortSeq({s \in doc.scope : doc.m[s].w > 0},
                 LAMBDA a, b : \/ Area(doc.m, a) > Area(doc.m, b)
                               \/ Area(doc.m, a) = Area(doc.m, b) /\ a < b)

OffsetOf(off, s) == IF s \in DOMAIN off THEN off[s] ELSE [x |-> 0, y |-> 0]

\* Phase 1: side by side on a common baseline, an attached one flush, then moved by its offset.
Laid(doc) ==
    LET o == Order(doc)
        cursor[i \in 1..Len(o)] ==
            IF i = 1 THEN 0
            ELSE cursor[i - 1] + doc.m[o[i - 1]].w + (IF o[i] \in Attached THEN 0 ELSE 12)
    IN  [i \in DOMAIN o |->
            LET size == doc.m[o[i]]
                off == OffsetOf(doc.plan.off, o[i])
            IN  [s |-> o[i], w |-> size.w, h |-> size.h,
                 x |-> cursor[i] + off.x, y |-> doc.m[o[1]].h - size.h + off.y]]

Least(a, b) == IF a <= b THEN a ELSE b
Most(a, b) == IF a >= b THEN a ELSE b
Overlap(a, b) == /\ Least(a.x + a.w, b.x + b.w) > Most(a.x, b.x)
                 /\ Least(a.y + a.h, b.y + b.h) > Most(a.y, b.y)
Tangled(boxes) == \E i, j \in DOMAIN boxes : i < j /\ Overlap(boxes[i], boxes[j])

\* Phase 2, one pair: b leaves a on the side nearest to it, with a foot between them.
Cleared(a, b) ==
    LET right == a.x + a.w - b.x + 1   left == b.x + b.w - a.x + 1
        down == a.y + a.h - b.y + 1    up == b.y + b.h - a.y + 1
    IN  IF ~Overlap(a, b) THEN b
        ELSE IF Least(right, left) <= Least(down, up)
             THEN [b EXCEPT !.x = @ + (IF right <= left THEN right ELSE -left)]
             ELSE [b EXCEPT !.y = @ + (IF down <= up THEN down ELSE -up)]

\* The later of a pair moves, for every pair, until nothing overlaps or 16 rounds have passed.
Pairs == <<<<1, 2>>, <<1, 3>>, <<2, 3>>>>
Round(boxes) ==
    FoldLeft(LAMBDA acc, p : IF p[2] \in DOMAIN acc
                             THEN [acc EXCEPT ![p[2]] = Cleared(acc[p[1]], acc[p[2]])] ELSE acc,
             boxes, Pairs)
Settled(boxes) == IF Tangled(boxes) THEN Round(boxes) ELSE boxes
Untangle(boxes) ==
    LET after[n \in 0..16] == IF n = 0 THEN boxes ELSE Settled(after[n - 1])
    IN  IF Tangled(boxes) THEN after[16] ELSE boxes

Placements(doc) == Untangle(Laid(doc))

(***************************************************************************)
(* What a desk shows.                                                      *)
(***************************************************************************)
\* The drawing on the screen and in a file.
Drawing(doc) == [m |-> doc.m, scope |-> doc.scope, off |-> doc.plan.off]
\* measurementFingerprint: of the planes and the offsets, not of what is in scope.
Fingerprint(drawing) == <<drawing.m, drawing.off>>

\* savedAt and savedFingerprint: of the last re-save here, else of the worksheet's copy.
SavedPlan(d) == IF desk[d].local # None THEN desk[d].local ELSE desk[d].doc.plan.top
\* planStale: "Measurements changed".
PlanStale(d) ==
    /\ SavedPlan(d) # None
    /\ SavedPlan(d).print # Fingerprint(Drawing(desk[d].doc))

\* A copy of the revision put in the form: another saved plan than the form's drops the
\* re-save made here, and a plan newly shown has its history fetched.
Adopted(d, doc, token) ==
    LET now == desk[d]
        moved == doc.plan.top # now.doc.plan.top
    IN  [now EXCEPT !.doc = doc, !.base = token, !.dirty = FALSE, !.review = None,
                    !.local = IF moved THEN None ELSE @,
                    !.shown = IF moved /\ doc.plan.top # None THEN rev.doc.plan.history ELSE @]

Act == hist.acts < MaxActs /\ hist' = [hist EXCEPT !.acts = @ + 1]
Event == hist.events < MaxEvents /\ hist' = [hist EXCEPT !.events = @ + 1]

Blank(doc, token) ==
    [doc |-> doc, base |-> token, dirty |-> FALSE, review |-> None, auto |-> FALSE, job |-> None,
     local |-> None, shown |-> doc.plan.history]

\* A revision with no site plan yet, or with one saved version of it.
Init ==
    \E m \in Measures, kept \in BOOLEAN :
        LET with(plan) == [m |-> m, scope |-> DOMAIN m, plan |-> plan]
            bare == [sent |-> FALSE, off |-> NoOffsets, history |-> <<>>, top |-> None]
            first == Drawing(with(bare))
            entry == [v |-> 1, at |-> 0, print |-> Fingerprint(first)]
            doc == with(IF kept THEN [sent |-> TRUE, off |-> NoOffsets, history |-> <<entry>>, top |-> entry] ELSE bare)
        IN  /\ rev = [doc |-> doc, token |-> 0]
            /\ files = [v \in (IF kept THEN {1} ELSE {}) |-> [image |-> first, pdf |-> first]]
            /\ desk = [d \in Desks |-> Blank(doc, 0)]
            /\ hist = [acts |-> 0, events |-> 0, resurrected |-> FALSE, redrawn |-> FALSE]

(***************************************************************************)
(* The form.                                                               *)
(***************************************************************************)
Edited(d, doc) == desk' = [desk EXCEPT ![d].doc = doc, ![d].dirty = TRUE]

\* A plane measured again, or a structure taken into the scope or out of it.
Type(d) ==
    /\ Act
    /\ \/ \E m \in Measures \ {desk[d].doc.m} : Edited(d, [desk[d].doc EXCEPT !.m = m])
       \/ \E s \in DOMAIN desk[d].doc.m :
            Edited(d, [desk[d].doc EXCEPT !.scope = IF s \in @ THEN @ \ {s} ELSE @ \cup {s}])
    /\ UNCHANGED <<rev, files>>

\* onPointerMove: the wall or centre line of a neighbour within reach pulls the drag to it.
Nearest(gaps, reach) ==
    LET near == {g \in gaps : -reach <= g /\ g <= reach}
        size(g) == IF g < 0 THEN -g ELSE g
    IN  IF reach = 0 \/ near = {} THEN {0} ELSE {g \in near : \A other \in near : size(g) <= size(other)}
WallGaps(x, w, others) ==
    UNION {{o.x - x, o.x + o.w - x, o.x - (x + w), o.x + o.w - (x + w),
            (o.x + o.w \div 2) - (x + w \div 2)} : o \in others}
Turned(b) == [x |-> b.y, w |-> b.h]

\* commitDrag: the drag, snapped, is added to the structure's offset.
Drag(d) ==
    /\ Act
    /\ LET boxes == Placements(desk[d].doc)
           off == desk[d].doc.plan.off
       IN  \E i \in DOMAIN boxes, move \in Moves, reach \in Snaps :
            LET b == boxes[i]
                others == {boxes[k] : k \in DOMAIN boxes \ {i}}
            IN  \E gx \in Nearest(WallGaps(b.x + move.x, b.w, others), reach),
                   gy \in Nearest(WallGaps(b.y + move.y, b.h, {Turned(o) : o \in others}), reach) :
                LET at == [x |-> OffsetOf(off, b.s).x + move.x + gx, y |-> OffsetOf(off, b.s).y + move.y + gy]
                IN  /\ <<move.x + gx, move.y + gy>> # <<0, 0>>
                    /\ Edited(d, [desk[d].doc EXCEPT !.plan.sent = TRUE,
                                    !.plan.off = [s \in DOMAIN off \cup {b.s} |-> IF s = b.s THEN at ELSE off[s]]])
    /\ UNCHANGED <<rev, files>>

ResetLayout(d) ==
    /\ DOMAIN desk[d].doc.plan.off # {}
    /\ Act
    /\ Edited(d, [desk[d].doc EXCEPT !.plan.off = NoOffsets])
    /\ UNCHANGED <<rev, files>>

(***************************************************************************)
(* The worksheet's saves.                                                  *)
(***************************************************************************)
\* replace_children: the site plan sent replaces the one stored; none sent leaves it.
Replaced(sent) == [sent EXCEPT !.plan = IF sent.plan.sent THEN @ ELSE rev.doc.plan]

\* The PUT succeeds: the form takes what was saved.  A Save starts the plan's own save.
Stored(d, saves) ==
    LET doc == Replaced(desk[d].doc)
    IN  /\ rev' = [doc |-> doc, token |-> rev.token + 1]
        /\ desk' = [desk EXCEPT ![d] = [Adopted(d, doc, rev.token + 1) EXCEPT !.auto = @ \/ saves]]
        /\ hist' = [hist EXCEPT !.acts = @ + 1,
                                !.resurrected = @ \/ doc.plan.history # rev.doc.plan.history]
\* 409: the form is held up with the server's copy.
Refused(d) ==
    /\ desk' = [desk EXCEPT ![d].review = rev]
    /\ Act
    /\ UNCHANGED rev

Save(d) ==
    /\ desk[d].dirty /\ desk[d].review = None
    /\ hist.acts < MaxActs
    /\ IF desk[d].base = rev.token THEN Stored(d, TRUE) ELSE Refused(d)
    /\ UNCHANGED files

\* Keep My Version: the form's site plan goes over the newer one.
KeepMine(d) ==
    /\ desk[d].review # None
    /\ hist.acts < MaxActs
    /\ IF desk[d].review.token = rev.token THEN Stored(d, FALSE) ELSE Refused(d)
    /\ UNCHANGED files
UseLatest(d) ==
    /\ desk[d].review # None
    /\ Act
    /\ desk' = [desk EXCEPT ![d] = Adopted(d, @.review.doc, @.review.token)]
    /\ UNCHANGED <<rev, files>>
\* checkRemote, every 15 seconds: a form without edits takes a newer copy.
Poll(d) ==
    /\ ~desk[d].dirty /\ desk[d].review = None /\ desk[d].base < rev.token
    /\ desk' = [desk EXCEPT ![d] = Adopted(d, rev.doc, rev.token)]
    /\ UNCHANGED <<rev, files, hist>>
\* Field saves the revision: it sends no site plan.
FieldSave ==
    /\ Event
    /\ \E m \in Measures \ {rev.doc.m} : rev' = [doc |-> [rev.doc EXCEPT !.m = m], token |-> rev.token + 1]
    /\ UNCHANGED <<files, desk>>

(***************************************************************************)
(* The versions of the plan.  An answer's timestamp stands for its time.   *)
(***************************************************************************)
Newest(history) == CHOOSE e \in ToSet(history) : \A o \in ToSet(history) : o.v <= e.v
NextVersion(history) == IF history = <<>> THEN 1 ELSE Newest(history).v + 1
Trimmed(history) == SubSeq(history, Most(Len(history) - Cap + 1, 1), Len(history))
\* The version numbers of a list are distinct.
Delisted(history, v) ==
    LET at == {i \in DOMAIN history : history[i].v = v}
    IN  IF at = {} THEN history ELSE RemoveAt(history, CHOOSE i \in at : TRUE)
PlanWith(history, top) == [rev.doc.plan EXCEPT !.sent = TRUE, !.history = history, !.top = top]
\* The picture and the packet are put under a version's keys.
Kept(v, stored) == files' = [k \in DOMAIN files \cup {v} |-> IF k = v THEN stored ELSE files[k]]
Written(plan) == rev' = [doc |-> [rev.doc EXCEPT !.plan = plan], token |-> rev.token + 1]

\* saveAssets: the picture is taken at once, with the fingerprint of what it shows.
Draw(d) == [image |-> Drawing(desk[d].doc), print |-> Fingerprint(Drawing(desk[d].doc))]
AutoSave(d) ==
    /\ desk[d].auto /\ desk[d].job = None
    /\ desk' = [desk EXCEPT ![d].auto = FALSE, ![d].job = IF Order(desk[d].doc) = <<>> THEN None ELSE Draw(d)]
    /\ UNCHANGED <<rev, files, hist>>
Resave(d) ==
    /\ PlanStale(d) /\ desk[d].job = None /\ Order(desk[d].doc) # <<>>
    /\ Act
    /\ desk' = [desk EXCEPT ![d].job = Draw(d)]
    /\ UNCHANGED <<rev, files>>

\* buildPdfDoc: the packet is drawn page by page, from the screen as it is by then.
Packet(d) == Drawing(desk[d].doc)
\* save_site_plan_assets stores both as a new version and points the keys at it.
StoreAssets(d) ==
    LET plan == rev.doc.plan
        entry == [v |-> NextVersion(plan.history), at |-> rev.token + 1, print |-> desk[d].job.print]
    IN  /\ Kept(entry.v, [image |-> desk[d].job.image, pdf |-> Packet(d)])
        /\ Written(PlanWith(Trimmed(Append(plan.history, entry)), entry))
Redrawn(d) == hist.redrawn \/ desk[d].job.image # Packet(d)

AssetsSaved(d) ==
    /\ desk[d].job # None
    /\ StoreAssets(d)
    /\ hist' = [hist EXCEPT !.redrawn = Redrawn(d)]
    /\ desk' = [desk EXCEPT ![d].job = None, ![d].local = rev'.doc.plan.top, ![d].shown = rev'.doc.plan.history]
\* The request fails, or only its answer does.
AssetsFail(d) ==
    /\ desk[d].job # None
    /\ hist.events < MaxEvents
    /\ hist' = [hist EXCEPT !.events = @ + 1, !.redrawn = Redrawn(d)]
    /\ desk' = [desk EXCEPT ![d].job = None]
    /\ StoreAssets(d) \/ UNCHANGED <<rev, files>>

\* delete_site_plan_version: of a list of several.  The files go, and the keys fall back to
\* the newest version left.
Repointed_Left(history) == rev.doc.plan.top
Repointed(history) == IF history = <<>> THEN None ELSE Newest(history)
DeleteVersion(d) ==
    /\ Act
    /\ Len(desk[d].shown) > 1
    /\ \E e \in ToSet(desk[d].shown) :
        LET left == Delisted(rev.doc.plan.history, e.v)
        IN  IF left = rev.doc.plan.history THEN UNCHANGED <<rev, files, desk>>       \* 404
            ELSE /\ files' = Restrict(files, DOMAIN files \ {e.v})
                 /\ Written(PlanWith(left, Repointed(left)))
                 /\ desk' = [desk EXCEPT ![d].shown = left]

\* restore_site_plan_version: of any but the first shown, copied as a new version.
RestoreVersion(d) ==
    /\ Len(desk[d].shown) > 1
    /\ Act
    /\ \E e \in ToSet(desk[d].shown) \ {Newest(desk[d].shown)} :
        LET plan == rev.doc.plan
            found == \E h \in ToSet(plan.history) : h.v = e.v /\ h.v \in DOMAIN files
            src == CHOOSE h \in ToSet(plan.history) : h.v = e.v
            entry == [v |-> NextVersion(plan.history), at |-> rev.token + 1, print |-> src.print]
        IN  IF ~found THEN UNCHANGED <<rev, files, desk>>
            ELSE /\ Kept(entry.v, files[src.v])
                 /\ Written(PlanWith(Trimmed(Append(plan.history, entry)), entry))
                 /\ desk' = [desk EXCEPT ![d].shown = rev'.doc.plan.history, ![d].local = entry]

\* label_site_plan_version: a note on a version is a write of the revision too.
LabelVersion(d) ==
    /\ Event
    /\ \E e \in ToSet(desk[d].shown) :
        /\ \E h \in ToSet(rev.doc.plan.history) : h.v = e.v
        /\ Written(rev.doc.plan)
        /\ desk' = [desk EXCEPT ![d].shown = rev.doc.plan.history]
    /\ UNCHANGED files

Next ==
    \/ FieldSave
    \/ \E d \in Desks :
        \/ Type(d) \/ Drag(d) \/ ResetLayout(d)
        \/ Save(d) \/ KeepMine(d) \/ UseLatest(d) \/ Poll(d)
        \/ AutoSave(d) \/ Resave(d) \/ AssetsSaved(d) \/ AssetsFail(d)
        \/ DeleteVersion(d) \/ RestoreVersion(d) \/ LabelVersion(d)

Spec == Init /\ [][Next]_vars

(***************************************************************************)
(* Properties.                                                             *)
(***************************************************************************)
\* A desk that shows the revision's saved plan without "Measurements changed" has, stored, the
\* picture of the measurements and offsets in its form, through saves, deletes and restores
\* from several desks (CombinedSitePlan.jsx:8).  The packet too, unless the form changed while
\* it was drawn.  Not once Keep My Version has put an older list of versions over a newer one.
NoNudgeMeansCurrent ==
    \A d \in Desks :
        LET top == rev.doc.plan.top
            shows(drawing) == Fingerprint(drawing) = Fingerprint(Drawing(desk[d].doc))
        IN  (/\ ~hist.resurrected
             /\ top # None /\ SavedPlan(d) # None /\ SavedPlan(d).at = top.at
             /\ ~PlanStale(d))
            => /\ top.v \in DOMAIN files
               /\ files[top.v].image.m = desk[d].doc.m
               /\ files[top.v].image.off = desk[d].doc.plan.off
               /\ hist.redrawn \/ shows(files[top.v].pdf)
=============================================================================
