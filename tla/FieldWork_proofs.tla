-------------------------- MODULE FieldWork_proofs --------------------------
(***************************************************************************)
(* The rep's field work: a mutation counts as synced only when Office ran  *)
(* it, what is retried runs once, no change of a rep is run over an Office *)
(* edit he had not seen, and the cached property ends with what Office     *)
(* says.                                                                   *)
(***************************************************************************)
EXTENDS FieldWork, FiniteSetTheorems, WellFoundedInduction, TLAPS

(* The kinds that are reconciled with the cached property. *)
OfProperty == {"visit", "patch", "resolve", "lead"}

(* The mutations are numbered as they were queued. *)
Numbered == \E n \in 0..MaxRows : Created = 1..n

(* The pass holds copies of rows; while it sends them, the screens leave what is sent alone. *)
CopyOf(i) ==
    pass.snap[i].kind # "none" => /\ pass.pc = "send" /\ pass.snap[i].kind = rows[i].kind
                                  /\ "replace" \notin Windows => pass.snap[i].file = rows[i].file
InPass(i) ==
    i \in pass.todo \cup pass.sent =>
        /\ pass.snap[i].kind # "none"
        /\ rows[i].kind \in OfProperty => rows[i].state \in {"pending", "failed"}
Acked(i) ==
    i \in pass.acks => /\ rows[i].kind \in OfProperty
                       /\ rows[i].state = "synced"
CopiesInv ==
    /\ \A i \in Ids : CopyOf(i) /\ InPass(i) /\ Acked(i)
    /\ pass.pc = "idle" => pass.acks = {}
    /\ pass.pc # "send" => pass.todo = {} /\ pass.sent = {}
    /\ pass.pc = "send" => pass.acks = {}
    /\ \A i \in Ids : rows[i].kind = "none" => rows[i].state = "none"
    /\ \A i \in Ids : rows[i].state = "none" => rows[i].kind = "none"
    /\ \A i \in Ids : pass.snap[i].kind = "none" <=> pass.snap[i].state = "none"

(* Office filed nothing under a key it does not know, and one thing under a key it knows. *)
Filed(i) ==
    /\ i \notin office.keys => office.visits[i] = 0 /\ office.insps[i] = 0 /\ office.photos[i] = {}
    /\ i \in office.keys => i \in office.ran /\ rows[i].kind # "none"
    /\ office.visits[i] <= 1 /\ office.insps[i] <= 1
    /\ rows[i].kind # "photo" => office.photos[i] = {}
    /\ i \in office.keys /\ rows[i].kind = "photo" => office.photos[i] = {rows[i].file}
RanIt(i, r) == r.state = "synced" => i \in office.ran /\ (r.kind = "photo" => i \in office.keys)
OnceInv ==
    /\ \A i \in Ids : Filed(i) /\ RanIt(i, rows[i]) /\ RanIt(i, pass.snap[i])
    /\ office.leads = {} \/ \E i \in Ids : office.leads = {i}

(* What is known of the property has Office's version, and a change carries the version seen. *)
Known(d) == d.has => d.ver # 0
Informed(r) ==
    /\ r.kind \in {"patch", "resolve"} => r.tok # 0
    /\ r.kind \in {"patch", "resolve", "edit"} => r.saw = r.tok
    /\ r.kind \in OfProperty => detail.has
    /\ r.kind \in OfProperty /\ r.state = "conflict" => r.server.has
    /\ Known(r.server)
SeenInv ==
    /\ ~hist.blind
    /\ office.ver # 0 /\ hist.officeVer <= office.ver /\ hist.officeRec <= office.rec
    /\ Known(detail) /\ Known(screen.prop) /\ Known(load.snap) /\ Known(opt.cur)
    /\ screen.prop.has => detail.has
    /\ load.st = "sent" => load.snap.has
    /\ opt.st = "put" => opt.cur.has
    /\ screen.conflict # 0 => rows[screen.conflict].kind \in OfProperty
    /\ \A i \in Ids : Informed(rows[i]) /\ Informed(pass.snap[i])
    /\ \A i \in pass.acks : rows[i].kind \in {"patch", "resolve"} => rows[i].server.has
    /\ \A i \in Ids : /\ pass.snap[i].kind \in {"patch", "resolve"} /\ pass.snap[i].state = "synced"
                      => pass.snap[i].server.has
-----------------------------------------------------------------------------
(* Values and numbers *)

(* The least of some mutations, which the pass sends and acknowledges first, is one of them. *)
LEMMA LeastIsMember == ASSUME NEW S \in SUBSET Ids, S # {} PROVE Min(S) \in S
<1>1. S \subseteq Nat
  BY DEF Ids
<1>2. PICK x \in S : \A y \in S : ~(<<y, x>> \in OpToRel(<, Nat))
  BY <1>1, NatLessThanWellFounded, WFMin
<1>3. OpToRel(<, Nat) = {ss \in Nat \X Nat : ss[1] < ss[2]}
  BY Zenon DEF OpToRel
<1>4. \A y \in S : ~(<<y, x>> \in {ss \in Nat \X Nat : ss[1] < ss[2]})
  BY Zenon, <1>2, <1>3
<1>5. ASSUME NEW y \in S  PROVE x =< y
  <2>1. x \in Nat /\ y \in Nat
    BY <1>1
  <2>2. y < x => <<y, x>> \in {ss \in Nat \X Nat : ss[1] < ss[2]}
    BY <2>1
  <2>3. ~(y < x)
    BY <1>4, <2>2
  <2> QED
    BY <2>1, <2>3
<1> QED
  BY <1>5 DEF Min

LEMMA Bounds == MaxRows \in Nat /\ MaxAttempts \in Nat /\ Plans \subseteq SUBSET Kinds
BY WorkAssumption

LEMMA EmptyValues ==
    /\ NoDetail \in Details /\ NoRow \in Mutations /\ NoOpt \in Patches /\ NoPass \in WorkPasses
    /\ NoScreen \in [prop : Details, conflict : Ids \cup {0}]
    /\ NoLoad \in [st : {"idle", "sent"}, snap : Details]
    /\ Trigger \in [want : BOOLEAN, timer : BOOLEAN]
<1>1. NoDetail \in Details
  BY DEF NoDetail, Details
<1>2. NoRow \in Mutations
  BY <1>1 DEF NoRow, Mutations, MutationKinds, MutationStates
<1>3. NoOpt \in Patches
  BY <1>1 DEF NoOpt, Patches
<1>4. NoPass \in WorkPasses
  BY <1>2 DEF NoPass, WorkPasses
<1>5. NoScreen \in [prop : Details, conflict : Ids \cup {0}] /\ NoLoad \in [st : {"idle", "sent"}, snap : Details]
  BY <1>1 DEF NoScreen, NoLoad
<1> QED
  BY <1>1, <1>2, <1>3, <1>4, <1>5 DEF Trigger

LEMMA SnapshotTyped ==
    ASSUME NEW o \in Offices
    PROVE  Snapshot(o) \in Details /\ Snapshot(o).has /\ Snapshot(o).ver = o.ver
BY DEF Snapshot, Offices, Details

LEMMA MadeTyped ==
    ASSUME NEW kind \in MutationKinds, NEW tok \in Nat, NEW val \in BOOLEAN
    PROVE  LET r == makeMutation(kind, tok, val)
           IN  /\ r \in Mutations /\ r.kind = kind /\ r.state = "pending" /\ r.tok = tok /\ r.saw = tok
               /\ r.server = NoDetail
BY EmptyValues DEF makeMutation, NoRow, Mutations, MutationStates

LEMMA SpentTyped ==
    ASSUME hist \in Histories
    PROVE  /\ Spend(hist) \in Histories /\ Spend(hist).officeVer = hist.officeVer
           /\ Spend(hist).officeRec = hist.officeRec /\ (Spend(hist).blind <=> hist.blind)
           /\ Spend(hist).overtaken <=> hist.overtaken
           /\ Spend(hist).files = hist.files
<1>1. hist.events + 1 \in Nat
  BY DEF Histories
<1> QED
  BY <1>1 DEF Spend, Histories

LEMMA PatchedTyped ==
    ASSUME NEW p \in Patches, NEW d \in Details, p.id \in Ids
    PROVE  /\ Patched(p, d) \in Details /\ Patched(p, d).has /\ Patched(p, d).ver = d.ver
           /\ p.kind = "visit" => (Patched(p, d).dnk <=> (d.dnk \/ p.val))
           /\ p.kind # "visit" => (Patched(p, d).dnk <=> p.val)
<1>1. (d.dnk \/ p.val) \in BOOLEAN /\ p.val \in BOOLEAN /\ p.visits \subseteq Ids /\ p.waiting \cup {p.id} \subseteq Ids
  BY DEF Patches, Details
<1> QED
  BY <1>1 DEF Patched, Details

(* A mutation is queued under a number that is free. *)
LEMMA FreeNumber ==
    ASSUME TypeOK, Numbered
    PROVE  /\ NextId \in Nat /\ (NextId \in Ids => rows[NextId].kind = "none")
           /\ Created \cup {NextId} = 1..NextId
<1>1. PICK n \in 0..MaxRows : Created = 1..n
  BY DEF Numbered
<1>2. Cardinality(1..n) = n
  BY <1>1, Bounds, FS_Interval
<1>3. NextId = n + 1 /\ n \in Nat
  BY <1>1, <1>2, Bounds DEF NextId
<1>4. n + 1 \notin 1..n /\ (1..n) \cup {n + 1} = 1..(n + 1)
  BY <1>3
<1> QED
  BY <1>1, <1>3, <1>4 DEF Created

-----------------------------------------------------------------------------
(* Queueing *)

Queueing ==
    \/ toggleDNK \/ createLead \/ (\E dnk \in BOOLEAN : recordVisit(dnk) \/ leadVisit(dnk))
    \/ saveEdit \/ setStatus \/ saveInspection \/ archive \/ persistAndQueue

(* What a queued mutation is like when it is made. *)
Queued(row) ==
    /\ NextId \in Ids /\ rows' = [rows EXCEPT ![NextId] = row] /\ sync' = Trigger
    /\ row \in Mutations /\ row.kind \notin {"none", "resolve"} /\ row.state = "pending"
    /\ row.saw = row.tok /\ row.server = NoDetail
    /\ row.kind = "patch" => row.tok = screen.prop.ver /\ screen.prop.has
    /\ row.kind \in OfProperty => screen.prop.has \/ detail.has \/ "blind" \in Windows
    /\ UNCHANGED <<office, detail, load, record, pass>>

(* The optimistic patch of a save belongs to the mutation it queues. *)
OwnPatch == /\ opt'.kind \in {"visit", "patch"} /\ rows'[NextId].kind = opt'.kind
            /\ rows'[NextId].val = opt'.val

LEMMA SaveCases ==
    ASSUME TypeOK, NEW kind \in {"visit", "patch"}, NEW val \in BOOLEAN, Save(kind, val)
    PROVE  /\ \E row : Queued(row)
           /\ screen' \in [prop : Details, conflict : Ids \cup {0}] /\ opt' \in Patches
           /\ screen.prop.has /\ screen'.prop.has /\ screen'.prop.ver = screen.prop.ver
           /\ screen'.conflict = screen.conflict
           /\ opt'.st = "put" /\ opt'.id = NextId /\ opt'.cur = detail /\ hist' = hist
           /\ OwnPatch
<1>t. screen \in [prop : Details, conflict : Ids \cup {0}] /\ screen.prop \in Details /\ detail \in Details
  BY DEF TypeOK
<1> DEFINE row == makeMutation(kind, screen.prop.ver, val)
           p == [st |-> "put", id |-> NextId, kind |-> kind, val |-> val, cur |-> detail,
                 visits |-> IF kind = "visit" THEN screen.prop.visits ELSE {},
                 waiting |-> IF kind = "visit" THEN screen.prop.waiting ELSE {}]
<1>1. rows \in [Ids -> Mutations] /\ screen.prop.ver \in Nat /\ kind \in MutationKinds /\ screen.prop.visits \subseteq Ids
      /\ screen.prop.waiting \subseteq Ids
  BY <1>t DEF TypeOK, Details, MutationKinds
<1>2. /\ row \in Mutations /\ row.kind = kind /\ row.state = "pending" /\ row.saw = row.tok
      /\ row.tok = screen.prop.ver /\ row.server = NoDetail
  BY <1>1, MadeTyped
<1>0. row.val = val
  BY DEF makeMutation, NoRow
<1>3. /\ screen.prop.has /\ NextId \in Ids /\ rows' = [rows EXCEPT ![NextId] = row] /\ sync' = Trigger
      /\ screen' = [screen EXCEPT !.prop = Patched(p, screen.prop)] /\ opt' = p
      /\ UNCHANGED <<office, detail, load, record, pass, hist>>
  BY DEF Save, CanAct, Queue
<1>4. p \in Patches /\ p.id = NextId /\ p.st = "put" /\ p.cur = detail /\ p.kind = kind /\ p.val = row.val
  BY <1>0, <1>1, <1>3, <1>t, Bounds DEF Patches, Ids
<1> HIDE DEF row, p
<1>5. Patched(p, screen.prop) \in Details /\ Patched(p, screen.prop).has
      /\ Patched(p, screen.prop).ver = screen.prop.ver
  BY <1>3, <1>4, <1>t, PatchedTyped
<1>6. Queued(row)
  BY <1>2, <1>3 DEF Queued, OfProperty
<1>7. rows'[NextId] = row
  BY <1>1, <1>3
<1>8. OwnPatch
  BY <1>2, <1>3, <1>4, <1>7 DEF OwnPatch
<1> QED
  BY <1>3, <1>4, <1>5, <1>6, <1>8, <1>t

LEMMA QueueCases ==
    ASSUME TypeOK, Queueing
    PROVE  /\ \E row : Queued(row)
           /\ screen' \in [prop : Details, conflict : Ids \cup {0}] /\ opt' \in Patches
           /\ screen'.conflict = screen.conflict /\ screen'.prop.ver = screen.prop.ver
           /\ screen'.prop.has <=> screen.prop.has
           /\ opt' = opt \/ (opt'.cur = detail /\ screen.prop.has /\ opt'.id = NextId)
           /\ opt' = opt \/ OwnPatch
           /\ hist' \in Histories /\ hist'.officeVer = hist.officeVer /\ hist'.officeRec = hist.officeRec
           /\ hist'.blind <=> hist.blind
<1>t. /\ screen \in [prop : Details, conflict : Ids \cup {0}] /\ opt \in Patches /\ hist \in Histories
      /\ screen.prop \in Details /\ record \in Nat /\ detail \in Details
  BY DEF TypeOK
<1>1. ASSUME NEW kind \in {"visit", "patch"}, NEW val \in BOOLEAN, Save(kind, val)
      PROVE  /\ \E row : Queued(row)
             /\ screen' \in [prop : Details, conflict : Ids \cup {0}] /\ opt' \in Patches
             /\ screen'.conflict = screen.conflict /\ screen'.prop.ver = screen.prop.ver
             /\ screen'.prop.has <=> screen.prop.has
             /\ opt' = opt \/ (opt'.cur = detail /\ screen.prop.has /\ opt'.id = NextId)
             /\ OwnPatch /\ hist' = hist
  BY <1>1, SaveCases DEF OwnPatch
<1>2. CASE toggleDNK
  <2>1. (~screen.prop.dnk) \in BOOLEAN
    BY <1>t DEF Details
  <2> QED
    BY <1>1, <1>2, <1>t, <2>1 DEF toggleDNK
<1>3. CASE \E dnk \in BOOLEAN : recordVisit(dnk)
  BY <1>1, <1>3, <1>t DEF recordVisit
<1>4. ASSUME NEW work, NEW kind \in MutationKinds \ {"none", "resolve", "patch"}, NEW tok \in Nat, NEW val \in BOOLEAN,
             Queue(work, makeMutation(kind, tok, val)), UNCHANGED <<office, device, pass, hist>>,
             kind \in OfProperty => screen.prop.has \/ detail.has \/ "blind" \in Windows
      PROVE  Queued(makeMutation(kind, tok, val)) /\ screen' = screen /\ opt' = opt /\ hist' = hist
  <2>1. LET r == makeMutation(kind, tok, val)
        IN  /\ r \in Mutations /\ r.kind = kind /\ r.state = "pending" /\ r.tok = tok /\ r.saw = tok
            /\ r.server = NoDetail
    BY MadeTyped
  <2> QED
    BY <1>4, <2>1 DEF Queue, Queued, device
<1>5. CASE createLead
  BY <1>4, <1>5, <1>t DEF createLead, CanAct, MutationKinds
<1>6. CASE \E dnk \in BOOLEAN : leadVisit(dnk)
  BY <1>4, <1>6, <1>t DEF leadVisit, MutationKinds
<1>7. ASSUME NEW kind \in {"edit", "inspection", "archive"}, EditRecord(kind)
      PROVE  (\E row : Queued(row)) /\ screen' = screen /\ opt' = opt /\ hist' = hist
  <2>1. (IF kind = "edit" THEN record ELSE 0) \in Nat
    BY <1>t
  <2> QED
    BY <1>4, <1>7, <2>1 DEF EditRecord, MutationKinds, OfProperty
<1>8. CASE saveEdit \/ setStatus \/ saveInspection \/ archive
  BY <1>7, <1>8, <1>t DEF saveEdit, setStatus, saveInspection, archive
<1>9. CASE persistAndQueue
  <2> DEFINE r == makeMutation("photo", 0, FALSE)
             n == [r EXCEPT !.file = NextId]
  <2>1. r \in Mutations /\ r.kind = "photo" /\ r.state = "pending" /\ r.tok = 0 /\ r.saw = 0 /\ r.server = NoDetail
    BY MadeTyped DEF MutationKinds
  <2>2. NextId \in Ids /\ rows' = [rows EXCEPT ![NextId] = n] /\ sync' = Trigger
        /\ hist' = [hist EXCEPT !.files = @ \cup {NextId}] /\ UNCHANGED <<office, device, pass>>
    BY <1>9 DEF persistAndQueue, Queue
  <2>3. NextId \in Nat
    BY <2>2, Bounds DEF Ids
  <2>4. n \in Mutations /\ n.kind = "photo" /\ n.state = "pending" /\ n.tok = 0 /\ n.saw = 0 /\ n.server = NoDetail
    BY <2>1, <2>3 DEF Mutations
  <2> HIDE DEF r, n
  <2>5. Queued(n)
    BY <2>2, <2>4 DEF Queued, OfProperty, device
  <2>6. hist' \in Histories /\ hist'.officeVer = hist.officeVer /\ hist'.officeRec = hist.officeRec
        /\ (hist'.blind <=> hist.blind)
    BY <2>2, <2>3, <1>t DEF Histories
  <2> QED
    BY <2>2, <2>5, <2>6, <1>t DEF device
<1> QED
  BY <1>2, <1>3, <1>5, <1>6, <1>8, <1>9, <1>t DEF Queueing

-----------------------------------------------------------------------------
(* Office's handlers *)

(* What a handler files under the key of the mutation it runs. *)
FiledBy(i, r, o) ==
    /\ \A k \in Ids \ {i} : /\ o.visits[k] = office.visits[k] /\ o.insps[k] = office.insps[k]
                            /\ o.photos[k] = office.photos[k] /\ (k \in o.keys <=> k \in office.keys)
    /\ i \in office.keys \/ i \notin o.keys =>
         o.visits[i] = office.visits[i] /\ o.insps[i] = office.insps[i] /\ o.photos[i] = office.photos[i]
    /\ o.visits[i] \in {office.visits[i], office.visits[i] + 1}
    /\ o.insps[i] \in {office.insps[i], office.insps[i] + 1}
    /\ r.kind # "photo" => o.photos[i] = office.photos[i]
    /\ i \in o.keys => i \in office.keys \/ r.kind # "photo" \/ o.photos[i] = office.photos[i] \cup {r.file}
    /\ o.leads = office.leads \/ (office.leads = {} /\ o.leads = {i})
    /\ office.ran \subseteq o.ran /\ office.keys \subseteq o.keys /\ o.keys \subseteq office.keys \cup {i}
    /\ i \in o.keys => i \in office.keys \/ i \in o.ran

(* What a handler answers, and which version a change it runs was made for. *)
AnsweredBy(i, r, a) ==
    /\ a.office \in Offices /\ a.status \in {200, 201, 409} /\ a.data \in Details
    /\ office.ver <= a.office.ver /\ office.rec <= a.office.rec
    /\ a.data = NoDetail \/ a.data = Snapshot(office) \/ a.data = Snapshot(a.office)
    /\ a.status = 409 /\ r.kind \in OfProperty => a.data.has
    /\ a.status # 409 /\ r.kind \in {"patch", "resolve"} => a.data.has
    /\ a.status # 409 => i \in a.office.ran \/ i \in office.keys
    /\ a.status # 409 /\ r.kind = "photo" => i \in a.office.keys
    /\ a.status = 409 => a.office = office
    /\ i \in a.office.ran \ office.ran =>
         /\ r.kind \in {"patch", "resolve"} /\ r.tok # 0 => r.tok = office.ver
         /\ r.kind = "edit" => r.tok = office.rec

Ran(i, r, a) == FiledBy(i, r, a.office) /\ AnsweredBy(i, r, a)

(* A handler that leaves Office alone. *)
LEMMA NothingRan ==
    ASSUME TypeOK, NEW i \in Ids, NEW r \in Mutations, NEW status, NEW data \in {NoDetail, Snapshot(office)},
           \/ status = 201 /\ i \in office.keys /\ r.kind \notin {"patch", "resolve"}
           \/ status = 409 /\ (r.kind \in OfProperty => data.has)
    PROVE  Ran(i, r, Answer(office, status, data))
<1> DEFINE a == Answer(office, status, data)
<1>1. a.office = office /\ a.status = status /\ a.data = data
  BY DEF Answer
<1> HIDE DEF a
<1>2. office \in Offices /\ office.ver \in Nat /\ office.rec \in Nat /\ office.ver <= office.ver
      /\ office.rec <= office.rec
  BY DEF TypeOK, Offices
<1>3. data \in Details
  BY <1>2, EmptyValues, SnapshotTyped
<1>4. AnsweredBy(i, r, a)
  BY <1>1, <1>2, <1>3 DEF AnsweredBy
<1>5. FiledBy(i, r, a.office)
  BY <1>1 DEF FiledBy
<1> QED
  BY <1>4, <1>5 DEF Ran, a

(* A handler that runs a mutation, and what it changes at Office. *)
LEMMA SomethingRan ==
    ASSUME TypeOK, NEW i \in Ids, NEW r \in Mutations, NEW status \in {200, 201}, NEW o \in Offices,
           NEW data \in {NoDetail, Snapshot(o)},
           r.kind \in {"patch", "resolve"} => data.has /\ (r.tok # 0 => r.tok = office.ver),
           r.kind = "edit" => r.tok = office.rec,
           r.kind = "photo" => i \in o.keys,
           office.ver <= o.ver, office.rec <= o.rec, o.ran = office.ran \cup {i}, FiledBy(i, r, o)
    PROVE  Ran(i, r, Answer(o, status, data))
<1> DEFINE a == Answer(o, status, data)
<1>1. a.office = o /\ a.status = status /\ a.data = data
  BY DEF Answer
<1> HIDE DEF a
<1>2. data \in Details
  BY EmptyValues, SnapshotTyped
<1>3. status # 409
  OBVIOUS
<1>4. AnsweredBy(i, r, a)
  BY <1>1, <1>2, <1>3 DEF AnsweredBy
<1> QED
  BY <1>1, <1>4 DEF Ran, a

LEMMA OfficeTyped ==
    ASSUME TypeOK, NEW i \in Ids
    PROVE  /\ office \in Offices /\ office.ver \in Nat /\ office.rec \in Nat /\ office.dnk \in BOOLEAN
           /\ office.visits \in [Ids -> Nat] /\ office.insps \in [Ids -> Nat] /\ office.photos \in [Ids -> SUBSET Nat]
           /\ office.keys \subseteq Ids /\ office.ran \subseteq Ids /\ office.leads \subseteq Ids
           /\ office.keys \cup {i} \subseteq Ids /\ office.ran \cup {i} \subseteq Ids
           /\ office.visits[i] + 1 \in Nat /\ office.insps[i] + 1 \in Nat
           /\ office.ver + 1 \in Nat /\ office.rec + 1 \in Nat /\ office.ver + 0 = office.ver
           /\ office.rec + 0 = office.rec
BY DEF TypeOK, Offices

LEMMA VisitRan ==
    ASSUME TypeOK, NEW i \in Ids, NEW r \in Mutations, r.kind = "visit"
    PROVE  Ran(i, r, create_visit(i, r))
<1> DEFINE n == IF r.val /\ ~office.dnk THEN 1 ELSE 0
           v == [office.visits EXCEPT ![i] = office.visits[i] + 1]
           o == [office EXCEPT !.visits[i] = @ + 1, !.keys = @ \cup {i}, !.ran = @ \cup {i},
                               !.dnk = @ \/ r.val, !.ver = @ + (IF r.val /\ ~office.dnk THEN 1 ELSE 0)]
<1>t. office \in Offices
  BY OfficeTyped
<1>1. Replayed(i) => Ran(i, r, Answer(office, 201, NoDetail))
  BY NothingRan DEF Replayed
<1>2. Snapshot(office).has
  BY <1>t, SnapshotTyped
<1>3. Ran(i, r, Refusal)
  BY <1>2, NothingRan DEF Refusal
<1>4. n \in {0, 1} /\ office.ver + n \in Nat /\ office.ver <= office.ver + n
  BY OfficeTyped
<1>5. (office.dnk \/ r.val) \in BOOLEAN /\ v \in [Ids -> Nat]
  BY OfficeTyped DEF Mutations
<1>6. /\ o.visits = v /\ o.keys = office.keys \cup {i} /\ o.ran = office.ran \cup {i} /\ o.ver = office.ver + n
      /\ o.insps = office.insps /\ o.photos = office.photos /\ o.leads = office.leads /\ o.rec = office.rec
      /\ (o.dnk <=> (office.dnk \/ r.val)) /\ (o.arch <=> office.arch)
  BY <1>t DEF Offices
<1>7. o = [office EXCEPT !.visits = v, !.keys = office.keys \cup {i}, !.ran = office.ran \cup {i},
                         !.dnk = office.dnk \/ r.val, !.ver = office.ver + n]
  OBVIOUS
<1> HIDE DEF n, v
<1>8. o \in Offices
  BY <1>4, <1>5, <1>7, OfficeTyped DEF Offices
<1> HIDE DEF o
<1>9. ~Replayed(i) => FiledBy(i, r, o)
  BY <1>6, OfficeTyped DEF FiledBy, Replayed, v
<1>10. office.ver <= o.ver /\ office.rec <= o.rec
  BY <1>4, <1>6, OfficeTyped
<1>11. ~Replayed(i) => Ran(i, r, Answer(o, 201, NoDetail))
  BY <1>6, <1>8, <1>9, <1>10, SomethingRan
<1> QED
  BY <1>1, <1>3, <1>11 DEF create_visit, o

LEMMA PatchRan ==
    ASSUME TypeOK, NEW i \in Ids, NEW r \in Mutations, r.kind \in {"patch", "resolve"}
    PROVE  Ran(i, r, patch_property(i, r))
<1> DEFINE n == IF r.kind = "resolve" \/ r.val # office.dnk THEN 1 ELSE 0
           o == [office EXCEPT !.dnk = r.val, !.ran = @ \cup {i},
                               !.ver = @ + (IF r.kind = "resolve" \/ r.val # office.dnk THEN 1 ELSE 0)]
<1>t. office \in Offices
  BY OfficeTyped
<1>2. Snapshot(office).has
  BY <1>t, SnapshotTyped
<1>3. Ran(i, r, Refusal)
  BY <1>2, NothingRan DEF Refusal
<1>4. n \in {0, 1} /\ office.ver + n \in Nat /\ office.ver <= office.ver + n
  BY OfficeTyped
<1>5. o = [office EXCEPT !.dnk = r.val, !.ran = office.ran \cup {i}, !.ver = office.ver + n]
  OBVIOUS
<1> HIDE DEF n
<1>6. o \in Offices
  BY <1>4, <1>5, OfficeTyped DEF Offices, Mutations
<1>7. /\ o.ran = office.ran \cup {i} /\ o.ver = office.ver + n /\ o.visits = office.visits /\ o.keys = office.keys
      /\ o.insps = office.insps /\ o.photos = office.photos /\ o.leads = office.leads /\ o.rec = office.rec
  BY <1>5, <1>t DEF Offices
<1> HIDE DEF o
<1>8. FiledBy(i, r, o)
  BY <1>7, OfficeTyped DEF FiledBy
<1>9. office.ver <= o.ver /\ office.rec <= o.rec /\ Snapshot(o).has
  BY <1>4, <1>6, <1>7, OfficeTyped, SnapshotTyped
<1>10. ~conflict_if_stale(r) => Ran(i, r, Answer(o, 200, Snapshot(o)))
  BY <1>6, <1>7, <1>8, <1>9, SomethingRan DEF conflict_if_stale
<1> QED
  BY <1>3, <1>10 DEF patch_property, o

LEMMA LeadRan ==
    ASSUME TypeOK, NEW i \in Ids, NEW r \in Mutations, r.kind = "lead"
    PROVE  Ran(i, r, create_lead(i, r))
<1> DEFINE l == IF office.leads = {} THEN {i} ELSE office.leads
           o == [office EXCEPT !.leads = IF @ = {} THEN {i} ELSE @, !.keys = @ \cup {i}, !.ran = @ \cup {i}]
<1>t. office \in Offices
  BY OfficeTyped
<1>1. Replayed(i) => Ran(i, r, Answer(office, 201, NoDetail))
  BY NothingRan DEF Replayed
<1>2. l \subseteq Ids /\ (l = office.leads \/ (office.leads = {} /\ l = {i}))
  BY OfficeTyped
<1>3. o = [office EXCEPT !.leads = l, !.keys = office.keys \cup {i}, !.ran = office.ran \cup {i}]
  OBVIOUS
<1> HIDE DEF l
<1>4. o \in Offices
  BY <1>2, <1>3, OfficeTyped DEF Offices
<1>5. /\ o.ran = office.ran \cup {i} /\ o.keys = office.keys \cup {i} /\ o.leads = l /\ o.ver = office.ver
      /\ o.visits = office.visits /\ o.insps = office.insps /\ o.photos = office.photos /\ o.rec = office.rec
  BY <1>3, <1>t DEF Offices
<1> HIDE DEF o
<1>6. FiledBy(i, r, o)
  BY <1>2, <1>5, OfficeTyped DEF FiledBy
<1>7. office.ver <= o.ver /\ office.rec <= o.rec
  BY <1>5, OfficeTyped
<1>8. Ran(i, r, Answer(o, 201, NoDetail))
  BY <1>4, <1>5, <1>6, <1>7, SomethingRan
<1> QED
  BY <1>1, <1>8 DEF create_lead, o

LEMMA EditRan ==
    ASSUME TypeOK, NEW i \in Ids, NEW r \in Mutations, r.kind = "edit"
    PROVE  Ran(i, r, update_record(i, r))
<1> DEFINE o == [office EXCEPT !.rec = @ + 1, !.ran = @ \cup {i}]
<1>t. office \in Offices
  BY OfficeTyped
<1>1. Ran(i, r, Answer(office, 409, NoDetail))
  BY NothingRan DEF OfProperty
<1>2. o = [office EXCEPT !.rec = office.rec + 1, !.ran = office.ran \cup {i}]
  OBVIOUS
<1>3. o \in Offices
  BY <1>2, OfficeTyped DEF Offices
<1>4. /\ o.ran = office.ran \cup {i} /\ o.keys = office.keys /\ o.leads = office.leads /\ o.ver = office.ver
      /\ o.visits = office.visits /\ o.insps = office.insps /\ o.photos = office.photos /\ o.rec = office.rec + 1
  BY <1>2, <1>t DEF Offices
<1> HIDE DEF o
<1>5. FiledBy(i, r, o)
  BY <1>4, OfficeTyped DEF FiledBy
<1>6. office.ver <= o.ver /\ office.rec <= o.rec
  BY <1>4, OfficeTyped
<1>7. r.tok = office.rec => Ran(i, r, Answer(o, 200, NoDetail))
  BY <1>3, <1>4, <1>5, <1>6, SomethingRan
<1> QED
  BY <1>1, <1>7 DEF update_record, o

LEMMA InspectionRan ==
    ASSUME TypeOK, NEW i \in Ids, NEW r \in Mutations, r.kind = "inspection"
    PROVE  Ran(i, r, create_inspection(i, r))
<1> DEFINE v == [office.insps EXCEPT ![i] = office.insps[i] + 1]
           o == [office EXCEPT !.insps[i] = @ + 1, !.keys = @ \cup {i}, !.ran = @ \cup {i}]
<1>t. office \in Offices
  BY OfficeTyped
<1>1. Replayed(i) => Ran(i, r, Answer(office, 201, NoDetail))
  BY NothingRan DEF Replayed
<1>2. v \in [Ids -> Nat]
  BY OfficeTyped
<1>3. o = [office EXCEPT !.insps = v, !.keys = office.keys \cup {i}, !.ran = office.ran \cup {i}]
  OBVIOUS
<1> HIDE DEF v
<1>4. o \in Offices
  BY <1>2, <1>3, OfficeTyped DEF Offices
<1>5. /\ o.ran = office.ran \cup {i} /\ o.keys = office.keys \cup {i} /\ o.leads = office.leads /\ o.ver = office.ver
      /\ o.visits = office.visits /\ o.insps = v /\ o.photos = office.photos /\ o.rec = office.rec
  BY <1>3, <1>t DEF Offices
<1> HIDE DEF o
<1>6. ~Replayed(i) => FiledBy(i, r, o)
  BY <1>5, OfficeTyped DEF FiledBy, Replayed, v
<1>7. office.ver <= o.ver /\ office.rec <= o.rec
  BY <1>5, OfficeTyped
<1>8. ~Replayed(i) => Ran(i, r, Answer(o, 201, NoDetail))
  BY <1>4, <1>5, <1>6, <1>7, SomethingRan
<1> QED
  BY <1>1, <1>8 DEF create_inspection, o

LEMMA ArchiveRan ==
    ASSUME TypeOK, NEW i \in Ids, NEW r \in Mutations, r.kind = "archive"
    PROVE  Ran(i, r, archive_lead(i, r))
<1> DEFINE n == IF office.arch THEN 0 ELSE 1
           o == [office EXCEPT !.arch = TRUE, !.ran = @ \cup {i}, !.rec = @ + (IF office.arch THEN 0 ELSE 1)]
<1>t. office \in Offices
  BY OfficeTyped
<1>1. n \in {0, 1} /\ office.rec + n \in Nat /\ office.rec <= office.rec + n
  BY OfficeTyped
<1>2. o = [office EXCEPT !.arch = TRUE, !.ran = office.ran \cup {i}, !.rec = office.rec + n]
  OBVIOUS
<1> HIDE DEF n
<1>3. o \in Offices
  BY <1>1, <1>2, OfficeTyped DEF Offices
<1>4. /\ o.ran = office.ran \cup {i} /\ o.keys = office.keys /\ o.leads = office.leads /\ o.ver = office.ver
      /\ o.visits = office.visits /\ o.insps = office.insps /\ o.photos = office.photos /\ o.rec = office.rec + n
  BY <1>2, <1>t DEF Offices
<1> HIDE DEF o
<1>5. FiledBy(i, r, o)
  BY <1>4, OfficeTyped DEF FiledBy
<1>6. office.ver <= o.ver /\ office.rec <= o.rec
  BY <1>1, <1>4, OfficeTyped
<1>7. Ran(i, r, Answer(o, 200, NoDetail))
  BY <1>3, <1>4, <1>5, <1>6, SomethingRan
<1> QED
  BY <1>7 DEF archive_lead, o

LEMMA PhotoRan ==
    ASSUME TypeOK, NEW i \in Ids, NEW r \in Mutations, r.kind = "photo"
    PROVE  Ran(i, r, upload_photo(i, r))
<1> DEFINE v == [office.photos EXCEPT ![i] = office.photos[i] \cup {r.file}]
           o == [office EXCEPT !.photos[i] = @ \cup {r.file}, !.keys = @ \cup {i}, !.ran = @ \cup {i}]
<1>t. office \in Offices
  BY OfficeTyped
<1>1. Replayed(i) => Ran(i, r, Answer(office, 201, NoDetail))
  BY NothingRan DEF Replayed
<1>2. v \in [Ids -> SUBSET Nat]
  BY OfficeTyped DEF Mutations
<1>3. o = [office EXCEPT !.photos = v, !.keys = office.keys \cup {i}, !.ran = office.ran \cup {i}]
  OBVIOUS
<1> HIDE DEF v
<1>4. o \in Offices
  BY <1>2, <1>3, OfficeTyped DEF Offices
<1>5. /\ o.ran = office.ran \cup {i} /\ o.keys = office.keys \cup {i} /\ o.leads = office.leads /\ o.ver = office.ver
      /\ o.visits = office.visits /\ o.insps = office.insps /\ o.photos = v /\ o.rec = office.rec
  BY <1>3, <1>t DEF Offices
<1> HIDE DEF o
<1>6. ~Replayed(i) => FiledBy(i, r, o)
  BY <1>5, OfficeTyped DEF FiledBy, Replayed, v
<1>7. office.ver <= o.ver /\ office.rec <= o.rec
  BY <1>5, OfficeTyped
<1>8. ~Replayed(i) => Ran(i, r, Answer(o, 201, NoDetail))
  BY <1>4, <1>5, <1>6, <1>7, SomethingRan
<1> QED
  BY <1>1, <1>8 DEF upload_photo, o

LEMMA HandlerRan ==
    ASSUME TypeOK, NEW i \in Ids, NEW r \in Mutations, r.kind # "none"
    PROVE  Ran(i, r, Handle(i, r))
<1>1. r.kind \in {"visit", "patch", "resolve", "lead", "edit", "inspection", "archive", "photo"}
  BY DEF Mutations, MutationKinds
<1>2. CASE r.kind \in {"visit", "patch", "resolve", "lead"}
  BY <1>2, VisitRan, PatchRan, LeadRan DEF Handle
<1>3. CASE r.kind \in {"edit", "inspection", "archive"}
  BY <1>3, EditRan, InspectionRan, ArchiveRan DEF Handle
<1>4. CASE r.kind = "photo"
  BY <1>4, PhotoRan DEF Handle
<1> QED
  BY <1>1, <1>2, <1>3, <1>4

-----------------------------------------------------------------------------
(* Sending *)

Sent == SendRow \/ RequestLost \/ AnswerLost \/ Refused

(* The pass sends mutation i, and its copy becomes n. *)
Sends(i, n) ==
    /\ pass.pc = "send" /\ i \in pass.todo /\ n \in Mutations
    /\ pass' = [pass EXCEPT !.todo = @ \ {i}, !.sent = @ \cup {i}, !.snap[i] = n]
    /\ n.kind = pass.snap[i].kind /\ n.val = pass.snap[i].val /\ n.tok = pass.snap[i].tok
    /\ n.saw = pass.snap[i].saw /\ n.file = pass.snap[i].file
    /\ "late" \in Windows \/ opt.id # i
    /\ UNCHANGED <<rows, detail, screen, load, opt, record, sync>>

(* Office never saw it, or refused it before its handler ran. *)
Unheard(i, n) ==
    /\ office' = office /\ (hist'.blind => hist.blind) /\ (hist.overtaken => hist'.overtaken)
    /\ n.state \in {"pending", "failed"} /\ n.server = pass.snap[i].server

(* Office answered it, and the answer came or was lost. *)
Heard(i, n) ==
    LET r == pass.snap[i]
        a == Handle(i, r)
    IN  /\ office' = a.office
        /\ hist.overtaken \/ Overtakes(office') => hist'.overtaken
        /\ hist'.blind => \/ hist.blind
                          \/ /\ i \in office'.ran \ office.ran
                             /\ \/ r.kind \in {"patch", "resolve"} /\ r.saw < hist.officeVer
                                \/ r.kind = "edit" /\ r.saw < hist.officeRec
        /\ \/ n.state = "pending" /\ n.server = r.server
           \/ a.status = 409 /\ n.state = "conflict" /\ n.server = a.data
           \/ a.status # 409 /\ n.state = "synced" /\ n.server = a.data

LEMMA AnswerFields ==
    ASSUME NEW o, NEW status, NEW data
    PROVE  Answer(o, status, data).office = o /\ Answer(o, status, data).status = status
           /\ Answer(o, status, data).data = data
BY DEF Answer

LEMMA Processed ==
    ASSUME NEW r \in Mutations, NEW a,
           \/ a.status \in {200, 201, 409} /\ a.data \in Details
           \/ a.status = 422 /\ a.data \in {"permanent", "http"}
           \/ a.status = 0
    PROVE  LET n == processMutation(r, a)
           IN  /\ n \in Mutations /\ n.kind = r.kind /\ n.val = r.val /\ n.tok = r.tok /\ n.saw = r.saw /\ n.file = r.file
               /\ a.status \in {200, 201} => n.state = "synced" /\ n.server = a.data
               /\ a.status = 409 => n.state = "conflict" /\ n.server = a.data
               /\ a.status = 422 => n.state = "failed" /\ n.server = r.server
               /\ a.status = 0 => n.state = "pending" /\ n.server = r.server
<1> DEFINE t == IF r.kind = "photo" /\ r.tries < MaxAttempts THEN r.tries + 1 ELSE r.tries
           m == [r EXCEPT !.tries = t]
<1>1. t \in Nat
  BY DEF Mutations
<1>2. m \in Mutations /\ m.kind = r.kind /\ m.val = r.val /\ m.tok = r.tok /\ m.saw = r.saw /\ m.file = r.file /\ m.server = r.server
  BY <1>1 DEF Mutations
<1>3. processMutation(r, a) =
        CASE a.status \in {200, 201} -> [m EXCEPT !.state = "synced", !.server = a.data, !.code = "none"]
          [] a.status = 409 -> [m EXCEPT !.state = "conflict", !.server = a.data]
          [] a.status = 422 -> [m EXCEPT !.state = "failed", !.code = a.data]
          [] OTHER -> [m EXCEPT !.state = "pending", !.code = "none"]
  BY DEF processMutation
<1> HIDE DEF t, m
<1>4. ASSUME NEW d \in Details, a.status \in {200, 201}, a.data = d
      PROVE  LET x == processMutation(r, a)
             IN  /\ x \in Mutations /\ x.kind = m.kind /\ x.val = m.val /\ x.tok = m.tok /\ x.saw = m.saw /\ x.file = m.file
                 /\ x.state = "synced" /\ x.server = d
  <2>1. processMutation(r, a) = [m EXCEPT !.state = "synced", !.server = d, !.code = "none"]
    BY <1>3, <1>4
  <2>2. "synced" \in MutationStates
    BY DEF MutationStates
  <2> DEFINE x == processMutation(r, a)
  <2> HIDE DEF x
  <2>3. x \in Mutations /\ x.kind = m.kind /\ x.val = m.val /\ x.tok = m.tok /\ x.saw = m.saw /\ x.file = m.file
    BY <1>2, <2>1, <2>2 DEF Mutations, x
  <2> QED
    BY <1>2, <2>1, <2>2, <2>3 DEF Mutations, x
<1>5. ASSUME NEW d \in Details, a.status = 409, a.data = d
      PROVE  LET x == processMutation(r, a)
             IN  /\ x \in Mutations /\ x.kind = m.kind /\ x.val = m.val /\ x.tok = m.tok /\ x.saw = m.saw /\ x.file = m.file
                 /\ x.state = "conflict" /\ x.server = d
  <2>1. processMutation(r, a) = [m EXCEPT !.state = "conflict", !.server = d]
    BY <1>3, <1>5
  <2>2. "conflict" \in MutationStates
    BY DEF MutationStates
  <2> DEFINE x == processMutation(r, a)
  <2> HIDE DEF x
  <2>3. x \in Mutations /\ x.kind = m.kind /\ x.val = m.val /\ x.tok = m.tok /\ x.saw = m.saw /\ x.file = m.file
    BY <1>2, <2>1, <2>2 DEF Mutations, x
  <2> QED
    BY <1>2, <2>1, <2>2, <2>3 DEF Mutations, x
<1>6. ASSUME NEW d \in {"permanent", "http"}, a.status = 422, a.data = d
      PROVE  LET x == processMutation(r, a)
             IN  /\ x \in Mutations /\ x.kind = m.kind /\ x.val = m.val /\ x.tok = m.tok /\ x.saw = m.saw /\ x.file = m.file
                 /\ x.state = "failed" /\ x.server = m.server
  <2>1. processMutation(r, a) = [m EXCEPT !.state = "failed", !.code = d]
    BY <1>3, <1>6
  <2>2. "failed" \in MutationStates
    BY DEF MutationStates
  <2> DEFINE x == processMutation(r, a)
  <2> HIDE DEF x
  <2>3. x \in Mutations /\ x.kind = m.kind /\ x.val = m.val /\ x.tok = m.tok /\ x.saw = m.saw /\ x.file = m.file
    BY <1>2, <2>1, <2>2 DEF Mutations, x
  <2> QED
    BY <1>2, <2>1, <2>2, <2>3 DEF Mutations, x
<1>7. CASE a.status = 0
  <2>1. processMutation(r, a) = [m EXCEPT !.state = "pending", !.code = "none"]
    BY <1>3, <1>7
  <2>2. /\ processMutation(r, a) \in Mutations /\ processMutation(r, a).kind = m.kind
        /\ processMutation(r, a).val = m.val /\ processMutation(r, a).tok = m.tok /\ processMutation(r, a).saw = m.saw
        /\ processMutation(r, a).file = m.file /\ processMutation(r, a).state = "pending"
        /\ processMutation(r, a).server = m.server
    BY <1>2, <1>7, <2>1 DEF Mutations, MutationStates
  <2> QED
    BY <1>2, <1>7, <2>2
<1>8. CASE a.status \in {200, 201} /\ a.data \in Details
  BY <1>2, <1>4, <1>8
<1>9. CASE a.status = 409 /\ a.data \in Details
  BY <1>2, <1>5, <1>9
<1>10. CASE a.status = 422 /\ a.data \in {"permanent", "http"}
  BY <1>2, <1>6, <1>10
<1> QED
  BY <1>7, <1>8, <1>9, <1>10

LEMMA Judged ==
    ASSUME hist \in Histories, NEW i, NEW r, NEW o
    PROVE  /\ Judge(hist, i, r, o) \in Histories
           /\ Judge(hist, i, r, o).officeVer = hist.officeVer /\ Judge(hist, i, r, o).officeRec = hist.officeRec
           /\ hist.overtaken \/ Overtakes(o) => Judge(hist, i, r, o).overtaken
           /\ Judge(hist, i, r, o).blind =>
                \/ hist.blind
                \/ /\ i \in o.ran \ office.ran
                   /\ \/ r.kind \in {"patch", "resolve"} /\ r.saw < hist.officeVer
                      \/ r.kind = "edit" /\ r.saw < hist.officeRec
<1> DEFINE b == /\ i \in o.ran \ office.ran
                /\ \/ r.kind \in {"patch", "resolve"} /\ r.saw < hist.officeVer
                   \/ r.kind = "edit" /\ r.saw < hist.officeRec
           u == Overtakes(o)
<1>1. Judge(hist, i, r, o) = [hist EXCEPT !.overtaken = @ \/ u, !.blind = @ \/ b]
  BY DEF Judge
<1>2. (hist.overtaken \/ u) \in BOOLEAN /\ (hist.blind \/ b) \in BOOLEAN
  OBVIOUS
<1> HIDE DEF b, u
<1>3. Judge(hist, i, r, o) \in Histories /\ Judge(hist, i, r, o).officeVer = hist.officeVer
      /\ Judge(hist, i, r, o).officeRec = hist.officeRec
  BY <1>1, <1>2 DEF Histories
<1>4. Judge(hist, i, r, o).blind <=> (hist.blind \/ b)
  BY <1>1 DEF Histories
<1>5. Judge(hist, i, r, o).overtaken <=> (hist.overtaken \/ u)
  BY <1>1 DEF Histories
<1> QED
  BY <1>3, <1>4, <1>5 DEF b, u

LEMMA SentCases ==
    ASSUME TypeOK, CopiesInv, Sent
    PROVE  /\ \E i \in pass.todo : \E n : Sends(i, n) /\ (Unheard(i, n) \/ Heard(i, n))
           /\ hist' \in Histories /\ hist'.officeVer = hist.officeVer /\ hist'.officeRec = hist.officeRec
<1> DEFINE i == InTurn
           r == pass.snap[i]
<1>1. /\ pass.pc = "send" /\ pass.todo # {} /\ pass \in WorkPasses /\ hist \in Histories
      /\ "late" \in Windows \/ opt.id # i
  BY DEF Sent, SendRow, RequestLost, AnswerLost, Refused, Sending, TypeOK
<1>2. i \in pass.todo /\ i \in Ids
  BY <1>1, LeastIsMember DEF InTurn, WorkPasses
<1>3. r \in Mutations /\ r.kind # "none"
  BY <1>1, <1>2 DEF WorkPasses, CopiesInv, InPass
<1>4. Ran(i, r, Handle(i, r))
  BY <1>2, <1>3, HandlerRan
<1>5. ASSUME NEW a, Done(a), UNCHANGED <<rows, device, sync>>,
             \/ a.status \in {200, 201, 409} /\ a.data \in Details
             \/ a.status = 422 /\ a.data \in {"permanent", "http"}
             \/ a.status = 0
      PROVE  Sends(i, processMutation(r, a))
  <2>1. LET n == processMutation(r, a)
        IN  /\ n \in Mutations /\ n.kind = r.kind /\ n.val = r.val /\ n.tok = r.tok /\ n.saw = r.saw
            /\ n.file = r.file
    BY <1>3, <1>5, Processed
  <2>2. pass' = [pass EXCEPT !.todo = @ \ {i}, !.sent = @ \cup {i}, !.snap[i] = processMutation(r, a)]
    BY <1>5 DEF Done
  <2> QED
    BY <1>1, <1>2, <1>5, <2>1, <2>2 DEF Sends, device
<1>6. ASSUME NEW o, NEW data \in {"permanent", "http"},
             Done(Answer(o, 422, data)), UNCHANGED <<rows, device, sync>>, office' = office, hist'.blind => hist.blind,
             hist.overtaken => hist'.overtaken
      PROVE  \E k \in pass.todo : \E n : Sends(k, n) /\ Unheard(k, n)
  <2> DEFINE a == Answer(o, 422, data)
  <2>1. a.status = 422 /\ a.data = data
    BY AnswerFields
  <2> HIDE DEF a
  <2>2. processMutation(r, a).state = "failed" /\ processMutation(r, a).server = r.server
    BY <1>3, <2>1, Processed
  <2>3. Done(a)
    BY <1>6 DEF a
  <2>4. Sends(i, processMutation(r, a))
    BY <1>5, <1>6, <2>1, <2>3
  <2> QED
    BY <1>2, <1>6, <2>2, <2>4 DEF Unheard
<1>7. ASSUME Done(NoAnswer), UNCHANGED <<rows, device, sync>>
      PROVE  LET n == processMutation(r, NoAnswer)
             IN  Sends(i, n) /\ n.state = "pending" /\ n.server = r.server
  <2>1. NoAnswer.status = 0
    BY AnswerFields DEF NoAnswer
  <2>2. LET n == processMutation(r, NoAnswer) IN n.state = "pending" /\ n.server = r.server
    BY <1>3, <2>1, Processed
  <2>3. Sends(i, processMutation(r, NoAnswer))
    BY <1>5, <1>7, <2>1
  <2> QED
    BY <2>2, <2>3
<1>8. CASE SendRow /\ FileGone(r)
  <2> DEFINE a == Answer(office, 422, "permanent")
  <2>1. office' = a.office /\ hist' = Judge(hist, i, r, a.office) /\ Done(a) /\ UNCHANGED <<rows, device, sync>>
    BY <1>8 DEF SendRow
  <2>2. a.office = office
    BY AnswerFields
  <2>3. office' = office /\ hist' = Judge(hist, i, r, office) /\ Done(Answer(office, 422, "permanent"))
    BY <2>1, <2>2
  <2>4. /\ hist' \in Histories /\ hist'.officeVer = hist.officeVer /\ hist'.officeRec = hist.officeRec
        /\ (hist'.blind => hist.blind) /\ (hist.overtaken => hist'.overtaken)
    BY <1>1, <2>3, Judged
  <2> QED
    BY <1>6, <2>1, <2>3, <2>4
<1>9. CASE SendRow /\ ~FileGone(r)
  <2> DEFINE a == Handle(i, r)
             n == processMutation(r, a)
  <2>1. office' = a.office /\ hist' = Judge(hist, i, r, a.office) /\ Done(a) /\ UNCHANGED <<rows, device, sync>>
    BY <1>9 DEF SendRow
  <2>2. a.status \in {200, 201, 409} /\ a.data \in Details
    BY <1>4 DEF Ran, AnsweredBy
  <2> HIDE DEF a
  <2>3. Sends(i, n)
    BY <1>5, <2>1, <2>2
  <2>4. \/ a.status = 409 /\ n.state = "conflict" /\ n.server = a.data
        \/ a.status # 409 /\ n.state = "synced" /\ n.server = a.data
    BY <1>3, <2>2, Processed
  <2> HIDE DEF n
  <2>5. /\ hist.overtaken \/ Overtakes(a.office) => Judge(hist, i, r, a.office).overtaken
        /\ Judge(hist, i, r, a.office).blind =>
             \/ hist.blind
             \/ /\ i \in (a.office).ran \ office.ran
                /\ \/ r.kind \in {"patch", "resolve"} /\ r.saw < hist.officeVer
                   \/ r.kind = "edit" /\ r.saw < hist.officeRec
    BY <1>1, Judged
  <2>6. /\ hist' \in Histories /\ hist'.officeVer = hist.officeVer /\ hist'.officeRec = hist.officeRec
    BY <1>1, <2>1, Judged
  <2>7. Heard(i, n)
    BY <2>1, <2>4, <2>5 DEF Heard, a
  <2> QED
    BY <1>2, <2>3, <2>6, <2>7
<1>10. CASE RequestLost
  <2>1. Done(NoAnswer) /\ hist' = Spend(hist) /\ UNCHANGED <<office, rows, device, sync>>
    BY <1>10 DEF RequestLost
  <2>2. /\ hist' \in Histories /\ hist'.officeVer = hist.officeVer /\ hist'.officeRec = hist.officeRec
        /\ (hist'.blind => hist.blind) /\ (hist.overtaken => hist'.overtaken)
    BY <1>1, <2>1, SpentTyped
  <2> QED
    BY <1>2, <1>7, <2>1, <2>2 DEF Unheard
<1>11. CASE AnswerLost
  <2> DEFINE a == Handle(i, r)
             n == processMutation(r, NoAnswer)
             h == Judge(hist, i, r, a.office)
  <2>1. office' = a.office /\ hist' = Spend(h) /\ Done(NoAnswer) /\ UNCHANGED <<rows, device, sync>>
    BY <1>11 DEF AnswerLost
  <2>2. Sends(i, n) /\ n.state = "pending" /\ n.server = r.server
    BY <1>7, <2>1
  <2> HIDE DEF n, a
  <2>3. /\ hist.overtaken \/ Overtakes(a.office) => h.overtaken
        /\ h.blind =>
             \/ hist.blind
             \/ /\ i \in (a.office).ran \ office.ran
                /\ \/ r.kind \in {"patch", "resolve"} /\ r.saw < hist.officeVer
                   \/ r.kind = "edit" /\ r.saw < hist.officeRec
    BY <1>1, Judged
  <2>4. h \in Histories /\ h.officeVer = hist.officeVer /\ h.officeRec = hist.officeRec
    BY <1>1, Judged
  <2> HIDE DEF h
  <2>5. h.events + 1 \in Nat
    BY <2>4 DEF Histories
  <2>6. Spend(h) \in Histories /\ Spend(h).officeVer = h.officeVer /\ Spend(h).officeRec = h.officeRec
        /\ (Spend(h).blind <=> h.blind) /\ (Spend(h).overtaken <=> h.overtaken)
    BY <2>4, <2>5 DEF Spend, Histories
  <2>7. Heard(i, n)
    BY <2>1, <2>2, <2>3, <2>6 DEF Heard, a
  <2> QED
    BY <1>2, <2>1, <2>2, <2>4, <2>6, <2>7
<1>12. CASE Refused
  <2>1. Done(Answer(office, 422, "http")) /\ hist' = Spend(hist) /\ UNCHANGED <<office, rows, device, sync>>
    BY <1>12 DEF Refused
  <2>2. /\ hist' \in Histories /\ hist'.officeVer = hist.officeVer /\ hist'.officeRec = hist.officeRec
        /\ (hist'.blind => hist.blind) /\ (hist.overtaken => hist'.overtaken)
    BY <1>1, <2>1, SpentTyped
  <2> QED
    BY <1>6, <2>1, <2>2
<1> QED
  BY <1>8, <1>9, <1>10, <1>11, <1>12 DEF Sent

-----------------------------------------------------------------------------
(* What the other steps change *)

Quiet == TimerFires \/ OpenRecord \/ retryItem \/ PassOffline \/ FileLost

Loading == OpenProperty \/ LoadAnswered \/ LoadFailed

LEMMA NextCases ==
    ASSUME [Next]_vars
    PROVE  \/ Queueing \/ Sent \/ PassBegin \/ PassWrite \/ PassAck \/ PassEnd \/ Crash
           \/ (\E i \in Ids : replacePhoto(i)) \/ (\E i \in Ids : removeItem(i)) \/ (\E i \in Ids : useServer(i))
           \/ (\E i \in Ids : keepLocal(i)) \/ (\E i \in Ids : applyMergeMine(i)) \/ patchCachedDetail \/ Loading
           \/ OfficeEditsProperty \/ OfficeEditsRecord \/ Quiet \/ UNCHANGED vars
BY DEF Next, PassStep, Queueing, Sent, Loading, Quiet

(* r is mutation m in another state, asked again or answered. *)
Same(r, m) == /\ r \in Mutations /\ r.kind = m.kind /\ r.val = m.val
              /\ r.tok = m.tok /\ r.saw = m.saw /\ r.file = m.file

LEMMA QuietCases ==
    ASSUME TypeOK, Quiet
    PROVE  /\ UNCHANGED <<office, rows, detail, screen, load, opt, pass>> /\ record' \in Nat
           /\ sync' \in [want : BOOLEAN, timer : BOOLEAN]
           /\ hist' \in Histories /\ hist'.officeVer = hist.officeVer /\ hist'.officeRec = hist.officeRec
           /\ hist'.blind <=> hist.blind
<1>t. /\ sync \in [want : BOOLEAN, timer : BOOLEAN] /\ hist \in Histories /\ record \in Nat /\ office \in Offices
  BY DEF TypeOK
<1>1. CASE TimerFires \/ retryItem
  <2>1. UNCHANGED <<office, rows, detail, screen, load, opt, record, pass, hist>>
    BY <1>1 DEF TimerFires, retryItem, device
  <2>2. sync' = Trigger
    BY <1>1 DEF TimerFires, retryItem, Trigger
  <2> QED
    BY <1>t, <2>1, <2>2, EmptyValues
<1>2. CASE OpenRecord
  BY <1>2, <1>t DEF OpenRecord, Offices
<1>3. CASE PassOffline
  <2>1. (\E i \in Ids : rows[i].state \in {"pending", "failed", "conflict"}) \in BOOLEAN
    OBVIOUS
  <2>2. hist' = Spend(hist)
    BY <1>3 DEF PassOffline
  <2> QED
    BY <1>3, <1>t, <2>1, <2>2, SpentTyped DEF PassOffline, device
<1>4. CASE FileLost
  <2>1. PICK f \in hist.files : hist' = [Spend(hist) EXCEPT !.files = @ \ {f}]
    BY <1>4 DEF FileLost
  <2>2. hist' \in Histories /\ hist'.officeVer = hist.officeVer /\ hist'.officeRec = hist.officeRec
        /\ (hist'.blind <=> hist.blind)
    BY <1>t, <2>1, SpentTyped DEF Histories
  <2> QED
    BY <1>4, <1>t, <2>2 DEF FileLost, device
<1> QED
  BY <1>1, <1>2, <1>3, <1>4 DEF Quiet

LEMMA LoadCases ==
    ASSUME TypeOK, Loading
    PROVE  /\ UNCHANGED <<office, rows, opt, record, pass, sync>>
           /\ hist' \in Histories /\ hist'.officeVer = hist.officeVer /\ hist'.officeRec = hist.officeRec
           /\ hist'.blind <=> hist.blind
           /\ \/ screen' = screen /\ detail' = detail /\ load' = [st |-> "sent", snap |-> Snapshot(office)]
              \/ /\ screen' = [prop |-> detail', conflict |-> conflictMutationForProperty]
                 /\ load' = NoLoad /\ load.st = "sent" /\ (detail' = detail \/ detail' = load.snap)
<1>1. hist \in Histories
  BY DEF TypeOK
<1>2. CASE OpenProperty
  BY <1>1, <1>2 DEF OpenProperty
<1>3. CASE LoadAnswered
  BY <1>1, <1>3 DEF LoadAnswered, readThrough, Shown
<1>4. CASE LoadFailed
  <2>1. hist' = Spend(hist)
    BY <1>4 DEF LoadFailed
  <2> QED
    BY <1>1, <1>4, <2>1, SpentTyped DEF LoadFailed, readThrough, Shown
<1> QED
  BY <1>2, <1>3, <1>4 DEF Loading

LEMMA ConflictShown ==
    ASSUME TypeOK
    PROVE  \/ conflictMutationForProperty = 0
           \/ /\ conflictMutationForProperty \in Ids
              /\ rows[conflictMutationForProperty].kind \in OfProperty
<1> DEFINE c == {i \in Created : rows[i].state = "conflict" /\ rows[i].kind \in {"visit", "patch", "resolve", "lead"}}
<1>1. conflictMutationForProperty = IF c = {} THEN 0 ELSE Min(c)
  BY DEF conflictMutationForProperty
<1>2. c \in SUBSET Ids
  BY DEF Created
<1>3. c # {} => Min(c) \in c
  BY <1>2, LeastIsMember
<1> QED
  BY <1>1, <1>2, <1>3 DEF OfProperty

LEMMA BeginCases ==
    ASSUME TypeOK, PassBegin
    PROVE  /\ pass.pc = "idle" /\ UNCHANGED <<office, detail, screen, load, opt, record, hist>>
           /\ rows' \in [Ids -> Mutations]
           /\ \A i \in Ids : \/ rows'[i] = rows[i]
                             \/ /\ Same(rows'[i], rows[i]) /\ rows[i].kind = "photo" /\ rows[i].state = "failed"
                                /\ rows'[i].state = "pending" /\ rows'[i].server = rows[i].server
           /\ pass' \in WorkPasses /\ pass'.pc = "send" /\ pass'.sent = {} /\ pass'.acks = {}
           /\ pass'.todo = {i \in Ids : rows'[i].state \in {"pending", "failed"}}
           /\ \A i \in Ids : pass'.snap[i] = IF rows'[i].state \in {"pending", "failed", "conflict"}
                                             THEN rows'[i] ELSE NoRow
           /\ sync' \in [want : BOOLEAN, timer : BOOLEAN]
<1>t. rows \in [Ids -> Mutations] /\ sync \in [want : BOOLEAN, timer : BOOLEAN]
  BY DEF TypeOK
<1>1. rows' = _reviveRetryablePhotos
  BY DEF PassBegin
<1>2. ASSUME NEW i \in Ids
      PROVE  /\ rows'[i] \in Mutations
             /\ \/ rows'[i] = rows[i]
                \/ /\ Same(rows'[i], rows[i]) /\ rows[i].kind = "photo" /\ rows[i].state = "failed"
                   /\ rows'[i].state = "pending" /\ rows'[i].server = rows[i].server
  <2>1. rows[i] \in Mutations
    BY <1>t
  <2>2. CASE ~Retryable(rows[i])
    BY <1>1, <2>1, <2>2 DEF _reviveRetryablePhotos
  <2>3. CASE Retryable(rows[i])
    <3>1. rows'[i] = [rows[i] EXCEPT !.state = "pending", !.code = "none"]
      BY <1>1, <2>3 DEF _reviveRetryablePhotos
    <3>2. rows[i].kind = "photo" /\ rows[i].state = "failed"
      BY <2>3 DEF Retryable, isPermanentFailure
    <3> QED
      BY <2>1, <3>1, <3>2 DEF Same, Mutations, MutationStates
  <2> QED
    BY <2>2, <2>3
<1>3. rows' \in [Ids -> Mutations]
  BY <1>1, <1>2 DEF _reviveRetryablePhotos
<1> DEFINE open == {i \in Ids : rows'[i].state \in {"pending", "failed", "conflict"}}
           snap == [i \in Ids |-> IF i \in open THEN rows'[i] ELSE NoRow]
           todo == {i \in open : rows'[i].state # "conflict"}
<1>4. pass' = [NoPass EXCEPT !.pc = "send", !.snap = snap, !.todo = todo]
  BY DEF PassBegin
<1>5. snap \in [Ids -> Mutations] /\ todo \subseteq Ids
  BY <1>3, EmptyValues
<1>6. todo = {i \in Ids : rows'[i].state \in {"pending", "failed"}}
  OBVIOUS
<1>7. \A i \in Ids : snap[i] = IF rows'[i].state \in {"pending", "failed", "conflict"} THEN rows'[i] ELSE NoRow
  OBVIOUS
<1> HIDE DEF snap, todo
<1>8. /\ pass' \in WorkPasses /\ pass'.pc = "send" /\ pass'.sent = {} /\ pass'.acks = {}
      /\ pass'.todo = todo /\ pass'.snap = snap
  BY <1>4, <1>5, EmptyValues DEF NoPass, WorkPasses
<1>9. pass.pc = "idle" /\ sync' = [sync EXCEPT !.want = FALSE] /\ UNCHANGED <<office, device, hist>>
  BY DEF PassBegin
<1>10. sync' \in [want : BOOLEAN, timer : BOOLEAN]
  BY <1>9, <1>t
<1> QED
  BY <1>2, <1>3, <1>6, <1>7, <1>8, <1>9, <1>10 DEF device

LEMMA WriteCases ==
    ASSUME TypeOK, PassWrite
    PROVE  /\ pass.pc = "send" /\ UNCHANGED <<office, detail, screen, load, opt, record, sync, hist>>
           /\ rows' \in [Ids -> Mutations]
           /\ \A i \in Ids : rows'[i] = IF pass.snap[i].kind # "none" /\ Live(i) THEN pass.snap[i] ELSE rows[i]
           /\ pass' \in WorkPasses /\ pass'.pc = "ack" /\ pass'.todo = {} /\ pass'.sent = {}
           /\ \A i \in Ids : pass'.snap[i] = NoRow
           /\ pass'.acks = {i \in pass.sent : pass.snap[i].state = "synced" /\ pass.snap[i].kind \in OfProperty}
<1>t. rows \in [Ids -> Mutations] /\ pass \in WorkPasses /\ pass.snap \in [Ids -> Mutations] /\ pass.sent \subseteq Ids
  BY DEF TypeOK, WorkPasses
<1>1. rows' = [i \in Ids |-> IF pass.snap[i].kind # "none" /\ Live(i) THEN pass.snap[i] ELSE rows[i]]
  BY DEF PassWrite
<1>2. rows' \in [Ids -> Mutations]
  BY <1>1, <1>t
<1> DEFINE none == [i \in Ids |-> NoRow]
           acks == {i \in pass.sent : pass.snap[i].state = "synced" /\ pass.snap[i].kind \in OfProperty}
<1>3. pass' = [pass EXCEPT !.pc = "ack", !.snap = none, !.sent = {}, !.acks = acks] /\ pass.todo = {}
      /\ pass.pc = "send" /\ UNCHANGED <<office, device, sync, hist>>
  BY DEF PassWrite, OfProperty
<1>4. none \in [Ids -> Mutations] /\ acks \subseteq Ids /\ \A i \in Ids : none[i] = NoRow
  BY <1>t, EmptyValues
<1> HIDE DEF none
<1>5. /\ pass' \in WorkPasses /\ pass'.pc = "ack" /\ pass'.sent = {} /\ pass'.acks = acks
      /\ pass'.todo = {} /\ pass'.snap = none
  BY <1>3, <1>4, <1>t DEF WorkPasses
<1> QED
  BY <1>1, <1>2, <1>3, <1>4, <1>5 DEF device

LEMMA AckCases ==
    ASSUME TypeOK, PassAck
    PROVE  /\ pass.pc = "ack" /\ UNCHANGED <<office, screen, load, opt, record, sync, hist>>
           /\ \E i \in pass.acks :
                /\ pass' = [pass EXCEPT !.acks = @ \ {i}]
                /\ detail' = reconcilePropertyDetail(i, rows[i], detail)
                /\ rows' = [rows EXCEPT ![i] = [rows[i] EXCEPT !.server = NoDetail]]
<1>1. pass.acks \in SUBSET Ids /\ pass.acks # {} /\ rows \in [Ids -> Mutations]
  BY DEF TypeOK, WorkPasses, PassAck
<1>2. Min(pass.acks) \in pass.acks
  BY <1>1, LeastIsMember
<1> QED
  BY <1>1, <1>2 DEF PassAck

LEMMA Reconciled ==
    ASSUME NEW i \in Ids, NEW r \in Mutations, NEW d \in Details
    PROVE  /\ reconcilePropertyDetail(i, r, d) \in Details
           /\ r.kind \in {"patch", "resolve"} => reconcilePropertyDetail(i, r, d) = r.server
           /\ r.kind \notin {"patch", "resolve"} =>
                reconcilePropertyDetail(i, r, d).has /\ reconcilePropertyDetail(i, r, d).ver = d.ver
           /\ r.kind = "visit" => /\ reconcilePropertyDetail(i, r, d).waiting = {}
                                  /\ reconcilePropertyDetail(i, r, d).dnk <=> d.dnk \/ r.val
           /\ r.kind \notin {"visit", "patch", "resolve"} =>
                /\ reconcilePropertyDetail(i, r, d).waiting = d.waiting
                /\ reconcilePropertyDetail(i, r, d).dnk <=> d.dnk
<1> DEFINE visited == [d EXCEPT !.has = TRUE, !.waiting = {}, !.visits = @ \cup {i}, !.dnk = @ \/ r.val]
           led == [d EXCEPT !.has = TRUE, !.lead = TRUE]
<1>1. (d.dnk \/ r.val) \in BOOLEAN /\ r.server \in Details /\ d.visits \cup {i} \subseteq Ids
  BY DEF Mutations, Details
<1>2. visited \in Details /\ visited.has /\ visited.ver = d.ver /\ visited.waiting = {}
      /\ (visited.dnk <=> (d.dnk \/ r.val))
  BY <1>1 DEF Details
<1>3. led \in Details /\ led.has /\ led.ver = d.ver /\ led.waiting = d.waiting /\ (led.dnk <=> d.dnk)
  BY DEF Details
<1>4. reconcilePropertyDetail(i, r, d) =
        CASE r.kind \in {"patch", "resolve"} -> r.server [] r.kind = "visit" -> visited [] OTHER -> led
  BY DEF reconcilePropertyDetail
<1> HIDE DEF visited, led
<1>5. \/ r.kind \in {"patch", "resolve"} /\ reconcilePropertyDetail(i, r, d) = r.server
      \/ r.kind = "visit" /\ reconcilePropertyDetail(i, r, d) = visited
      \/ r.kind \notin {"visit", "patch", "resolve"} /\ reconcilePropertyDetail(i, r, d) = led
  BY <1>4
<1> QED
  BY <1>1, <1>2, <1>3, <1>5

(* One mutation changes its state on the device. *)
LEMMA ReplaceCases ==
    ASSUME TypeOK, NEW i \in Ids, replacePhoto(i)
    PROVE  /\ UNCHANGED <<office, detail, screen, load, opt, record, pass>>
           /\ rows[i].kind = "photo" /\ ("replace" \in Windows \/ (pass.pc = "idle" /\ i \notin office.keys))
           /\ \E r \in Mutations : /\ rows' = [rows EXCEPT ![i] = r] /\ r.kind = "photo" /\ r.state = "pending"
                                   /\ r.val = rows[i].val /\ r.tok = rows[i].tok /\ r.saw = rows[i].saw
                                   /\ r.server = rows[i].server
           /\ hist' \in Histories /\ hist'.officeVer = hist.officeVer /\ hist'.officeRec = hist.officeRec
           /\ hist'.blind <=> hist.blind
           /\ sync' \in [want : BOOLEAN, timer : BOOLEAN]
<1> DEFINE f == ReplacementFile(i)
           r == [rows[i] EXCEPT !.file = f, !.state = "pending", !.code = "none", !.tries = 0]
<1>t. rows[i] \in Mutations /\ hist \in Histories /\ sync \in [want : BOOLEAN, timer : BOOLEAN]
  BY DEF TypeOK
<1>1. f \in Nat
  BY Bounds DEF ReplacementFile, Ids
<1>2. /\ rows[i].kind = "photo" /\ ("replace" \in Windows \/ (pass.pc = "idle" /\ i \notin office.keys))
      /\ rows' = [rows EXCEPT ![i] = [@ EXCEPT !.file = f, !.state = "pending", !.code = "none", !.tries = 0]]
      /\ hist' = [hist EXCEPT !.files = @ \cup {f}] /\ sync' = [sync EXCEPT !.want = TRUE]
      /\ UNCHANGED <<office, device, pass>>
  BY DEF replacePhoto
<1>3. rows' = [rows EXCEPT ![i] = r]
  BY <1>2
<1> HIDE DEF f
<1>4. r \in Mutations /\ r.kind = rows[i].kind /\ r.val = rows[i].val /\ r.state = "pending"
      /\ r.tok = rows[i].tok /\ r.saw = rows[i].saw /\ r.server = rows[i].server
  BY <1>1, <1>t DEF Mutations, MutationStates
<1> HIDE DEF r
<1>5. hist' \in Histories /\ hist'.officeVer = hist.officeVer /\ hist'.officeRec = hist.officeRec
      /\ (hist'.blind <=> hist.blind)
  BY <1>1, <1>2, <1>t DEF Histories
<1> QED
  BY <1>2, <1>3, <1>4, <1>5, <1>t DEF device

(* Mutation i leaves the queue. *)
Dropped(i) == \E r \in Mutations : rows' = [rows EXCEPT ![i] = r] /\ Same(r, rows[i]) /\ r.state = "removed"
                                   /\ r.server = rows[i].server

LEMMA DropCases ==
    ASSUME TypeOK, NEW i \in Ids, rows' = [rows EXCEPT ![i].state = "removed"]
    PROVE  Dropped(i)
<1> DEFINE r == [rows[i] EXCEPT !.state = "removed"]
<1>t. rows[i] \in Mutations
  BY DEF TypeOK
<1>1. rows' = [rows EXCEPT ![i] = r]
  OBVIOUS
<1>2. r \in Mutations /\ Same(r, rows[i]) /\ r.state = "removed" /\ r.server = rows[i].server
  BY <1>t DEF Same, Mutations, MutationStates
<1> QED
  BY <1>1, <1>2 DEF Dropped

LEMMA ReloadTyped ==
    ASSUME TypeOK, Reload
    PROVE  /\ screen' \in [prop : Details, conflict : Ids \cup {0}] /\ screen'.prop = screen.prop
           /\ screen'.conflict = 0
           /\ load' = [st |-> "sent", snap |-> Snapshot(office)]
           /\ load' \in [st : {"idle", "sent"}, snap : Details]
BY SnapshotTyped DEF TypeOK, Reload

LEMMA ServerCases ==
    ASSUME TypeOK, NEW i \in Ids, useServer(i)
    PROVE  /\ Dropped(i) /\ rows[i].state = "conflict" /\ screen.conflict = i /\ screen.prop.has /\ Reload
           /\ detail' = detail \/ (rows[i].server.has /\ detail' = rows[i].server)
           /\ UNCHANGED <<office, opt, record, pass, sync, hist>>
BY DropCases DEF useServer, Reviewing, CanAct

LEMMA KeepCases ==
    ASSUME TypeOK, NEW i \in Ids, keepLocal(i)
    PROVE  /\ rows[i].state = "conflict" /\ screen.conflict = i /\ Reload
           /\ \E r \in Mutations : rows' = [rows EXCEPT ![i] = r] /\ Same(r, rows[i]) /\ r.state = "pending"
                                   /\ r.server = NoDetail
           /\ sync' \in [want : BOOLEAN, timer : BOOLEAN]
           /\ UNCHANGED <<office, detail, opt, record, pass, hist>>
<1> DEFINE r == [rows[i] EXCEPT !.state = "pending", !.code = "none", !.tries = 0, !.server = NoDetail]
<1>t. rows[i] \in Mutations /\ sync \in [want : BOOLEAN, timer : BOOLEAN]
  BY DEF TypeOK
<1>1. rows' = [rows EXCEPT ![i] = r] /\ sync' = [sync EXCEPT !.want = TRUE] /\ Reload /\ Reviewing(i)
      /\ UNCHANGED <<office, detail, opt, record, pass, hist>>
  BY DEF keepLocal
<1>2. r \in Mutations /\ Same(r, rows[i]) /\ r.state = "pending" /\ r.server = NoDetail
  BY <1>t, EmptyValues DEF Same, Mutations, MutationStates
<1> HIDE DEF r
<1> QED
  BY <1>1, <1>2, <1>t DEF Reviewing

LEMMA MergeCases ==
    ASSUME TypeOK, NEW i \in Ids, applyMergeMine(i)
    PROVE  /\ rows[i].state = "conflict" /\ screen.conflict = i /\ screen.prop.has /\ Reload /\ NextId \in Ids
           /\ \E r \in Mutations, m \in Mutations :
                /\ rows' = [rows EXCEPT ![i] = r, ![NextId] = m]
                /\ Same(r, rows[i]) /\ r.state = "removed" /\ r.server = rows[i].server
                /\ m.kind = "resolve" /\ m.state = "pending" /\ m.saw = m.tok /\ m.tok = rows[i].server.ver
                /\ m.server = NoDetail /\ (m.val <=> detail'.dnk)
           /\ detail' \in Details /\ detail'.ver = rows[i].server.ver /\ (detail'.has <=> rows[i].server.has)
           /\ detail'.waiting = rows[i].server.waiting
           /\ sync' = Trigger
           /\ UNCHANGED <<office, opt, record, pass, hist>>
<1> DEFINE r == [rows[i] EXCEPT !.state = "removed"]
           v == IF rows[i].kind = "visit" THEN rows[i].server.dnk ELSE rows[i].val
           m == makeMutation("resolve", rows[i].server.ver, v)
<1>t. rows[i] \in Mutations /\ rows[i].server \in Details /\ rows \in [Ids -> Mutations]
  BY DEF TypeOK, Mutations
<1>1. rows[i].server.ver \in Nat /\ v \in BOOLEAN
  BY <1>t DEF Mutations, Details
<1>2. /\ m \in Mutations /\ m.kind = "resolve" /\ m.state = "pending" /\ m.tok = rows[i].server.ver
      /\ m.saw = m.tok /\ m.server = NoDetail
  BY <1>1, MadeTyped DEF MutationKinds
<1>3. m.val = v
  BY DEF makeMutation, NoRow
<1>4. mergeConflictResolution(rows[i]) = m
  BY DEF mergeConflictResolution
<1>5. /\ rows' = [rows EXCEPT ![i].state = "removed", ![NextId] = m] /\ detail' = [rows[i].server EXCEPT !.dnk = m.val]
      /\ sync' = Trigger /\ Reload /\ NextId \in Ids /\ Reviewing(i) /\ UNCHANGED <<office, opt, record, pass, hist>>
  BY <1>4 DEF applyMergeMine
<1> HIDE DEF m, v
<1>6. rows' = [rows EXCEPT ![i] = r, ![NextId] = m]
  BY <1>5
<1>7. r \in Mutations /\ Same(r, rows[i]) /\ r.state = "removed" /\ r.server = rows[i].server
  BY <1>t DEF Same, Mutations, MutationStates
<1>8. /\ detail' \in Details /\ detail'.ver = rows[i].server.ver /\ (detail'.has <=> rows[i].server.has)
      /\ detail'.waiting = rows[i].server.waiting /\ (m.val <=> detail'.dnk)
  BY <1>1, <1>3, <1>5, <1>t DEF Details
<1> HIDE DEF r
<1> QED
  BY <1>2, <1>5, <1>6, <1>7, <1>8 DEF Reviewing, CanAct

-----------------------------------------------------------------------------
(* The types, the numbers and the copies of the pass *)

LEMMA WorkInit == Init => TypeOK /\ Numbered /\ CopiesInv
<1> SUFFICES ASSUME Init PROVE TypeOK /\ Numbered /\ CopiesInv
  OBVIOUS
<1>1. rows = [i \in Ids |-> NoRow] /\ NoRow.kind = "none" /\ NoRow.state = "none" /\ pass = NoPass
  BY DEF Init, NoRow
<1>2. office \in Offices
  BY DEF Init, Offices
<1>3. hist \in Histories
  BY Bounds DEF Init, Histories
<1>4. TypeOK
  BY <1>1, <1>2, <1>3, EmptyValues DEF Init, TypeOK, NoOpt
<1>5. Numbered
  <2>1. Created = {} /\ 1..0 = {} /\ 0 \in 0..MaxRows
    BY <1>1, Bounds DEF Created
  <2> QED
    BY <2>1 DEF Numbered
<1>6. CopiesInv
  BY <1>1 DEF CopiesInv, CopyOf, InPass, Acked, NoPass
<1> QED
  BY <1>4, <1>5, <1>6

LEMMA TypeStep == ASSUME TypeOK, Numbered, CopiesInv, [Next]_vars PROVE TypeOK'
<1>t. /\ office \in Offices /\ rows \in [Ids -> Mutations] /\ detail \in Details
      /\ screen \in [prop : Details, conflict : Ids \cup {0}]
      /\ load \in [st : {"idle", "sent"}, snap : Details] /\ opt \in Patches /\ (opt.st = "put" => opt.id \in Ids)
      /\ record \in Nat /\ pass \in WorkPasses
      /\ sync \in [want : BOOLEAN, timer : BOOLEAN] /\ hist \in Histories
  BY DEF TypeOK
<1>1. CASE Queueing
  <2>1. PICK row : Queued(row)
    BY <1>1, QueueCases
  <2>2. rows' \in [Ids -> Mutations] /\ sync' \in [want : BOOLEAN, timer : BOOLEAN]
        /\ UNCHANGED <<office, detail, load, record, pass>>
    BY <1>t, <2>1, EmptyValues DEF Queued
  <2>3. opt'.st = "put" => opt'.id \in Ids
    BY <1>1, <1>t, <2>1, QueueCases DEF Queued
  <2> QED
    BY <1>1, <1>t, <2>2, <2>3, QueueCases DEF TypeOK
<1>2. CASE Sent
  <2> PICK i \in pass.todo : \E n : Sends(i, n) /\ (Unheard(i, n) \/ Heard(i, n))
    BY <1>2, SentCases
  <2>1. PICK n : Sends(i, n) /\ (Unheard(i, n) \/ Heard(i, n))
    OBVIOUS
  <2>2. i \in Ids /\ pass.snap[i] \in Mutations /\ pass.snap[i].kind # "none"
    BY <1>t, <2>1 DEF WorkPasses, CopiesInv, InPass
  <2>3. Ran(i, pass.snap[i], Handle(i, pass.snap[i]))
    BY <2>2, HandlerRan
  <2>4. office' \in Offices
    BY <1>t, <2>1, <2>3 DEF Unheard, Heard, Ran, AnsweredBy
  <2>5. pass' \in WorkPasses
    BY <1>t, <2>1, <2>2 DEF Sends, WorkPasses
  <2>6. hist' \in Histories
    BY <1>2, SentCases
  <2> QED
    BY <1>t, <2>1, <2>4, <2>5, <2>6 DEF Sends, TypeOK
<1>3. CASE PassBegin
  BY <1>3, <1>t, BeginCases DEF TypeOK
<1>4. CASE PassWrite
  BY <1>4, <1>t, WriteCases DEF TypeOK
<1>5. CASE PassAck
  <2>1. PICK i \in pass.acks : /\ pass' = [pass EXCEPT !.acks = @ \ {i}]
                               /\ detail' = reconcilePropertyDetail(i, rows[i], detail)
                               /\ rows' = [rows EXCEPT ![i] = [rows[i] EXCEPT !.server = NoDetail]]
    BY <1>5, AckCases
  <2>2. i \in Ids /\ rows[i] \in Mutations
    BY <1>t DEF WorkPasses
  <2>3. detail' \in Details
    BY <1>t, <2>1, <2>2, Reconciled
  <2>4. [rows[i] EXCEPT !.server = NoDetail] \in Mutations
    BY <2>2, EmptyValues DEF Mutations
  <2>5. pass' \in WorkPasses
    BY <1>t, <2>1 DEF WorkPasses
  <2>6. rows' \in [Ids -> Mutations]
    BY <1>t, <2>1, <2>4
  <2> QED
    BY <1>5, <1>t, <2>3, <2>5, <2>6, AckCases DEF TypeOK
<1>6. CASE PassEnd
  <2>1. TimerNeeded \in BOOLEAN
    BY DEF TimerNeeded
  <2>2. pass' = NoPass /\ sync' = [sync EXCEPT !.timer = TimerNeeded] /\ UNCHANGED <<office, rows, device, hist>>
    BY <1>6 DEF PassEnd
  <2>3. sync' \in [want : BOOLEAN, timer : BOOLEAN]
    BY <1>t, <2>1, <2>2
  <2> QED
    BY <1>t, <2>2, <2>3, EmptyValues DEF TypeOK, device
<1>7. CASE Crash
  <2>1. NoOpt.st = "idle"
    BY DEF NoOpt
  <2> QED
    BY <1>7, <1>t, <2>1, EmptyValues, SpentTyped DEF Crash, TypeOK
<1>8. ASSUME NEW i \in Ids, replacePhoto(i) PROVE TypeOK'
  BY <1>8, <1>t, ReplaceCases DEF TypeOK
<1>9. ASSUME NEW i \in Ids, removeItem(i) PROVE TypeOK'
  <2>1. Dropped(i) /\ UNCHANGED <<office, device, pass, sync, hist>>
    BY <1>9, DropCases DEF removeItem
  <2> QED
    BY <1>t, <2>1 DEF Dropped, Same, TypeOK, device
<1>10. ASSUME NEW i \in Ids, useServer(i) PROVE TypeOK'
  <2>1. rows[i].server \in Details
    BY <1>t DEF Mutations
  <2>2. Dropped(i) /\ detail' \in Details
    BY <1>10, <1>t, <2>1, ServerCases
  <2> QED
    BY <1>10, <1>t, <2>2, ServerCases, ReloadTyped DEF Dropped, Same, TypeOK
<1>11. ASSUME NEW i \in Ids, keepLocal(i) PROVE TypeOK'
  BY <1>11, <1>t, KeepCases, ReloadTyped DEF TypeOK
<1>12. ASSUME NEW i \in Ids, applyMergeMine(i) PROVE TypeOK'
  BY <1>12, <1>t, MergeCases, ReloadTyped, EmptyValues DEF TypeOK
<1>13. CASE patchCachedDetail
  <2>1. detail' = Patched(opt, opt.cur) /\ opt' = NoOpt
        /\ UNCHANGED <<office, rows, screen, load, record, pass, sync, hist>>
    BY <1>13 DEF patchCachedDetail
  <2>2. opt.cur \in Details
    BY <1>t DEF Patches
  <2>3. opt.id \in Ids /\ NoOpt.st = "idle"
    BY <1>13 DEF patchCachedDetail, TypeOK, NoOpt
  <2> QED
    BY <1>t, <2>1, <2>2, <2>3, PatchedTyped, EmptyValues DEF TypeOK
<1>14. CASE Loading
  BY <1>14, <1>t, LoadCases, SnapshotTyped, EmptyValues, ConflictShown DEF TypeOK
<1>15. CASE OfficeEditsProperty
  <2>1. office.ver + 1 \in Nat /\ (~office.dnk) \in BOOLEAN /\ (hist.overtaken \/ Overtakes(office')) \in BOOLEAN
        /\ hist.events + 1 \in Nat
    BY <1>t DEF Offices, Histories
  <2>2. office' = [office EXCEPT !.dnk = ~@, !.ver = @ + 1] /\ UNCHANGED <<rows, device, pass, sync>>
        /\ hist' = [Spend(hist) EXCEPT !.officeVer = office.ver + 1, !.overtaken = @ \/ Overtakes(office')]
    BY <1>15 DEF OfficeEditsProperty
  <2>3. office' \in Offices
    BY <1>t, <2>1, <2>2 DEF Offices
  <2>4. Spend(hist).overtaken <=> hist.overtaken
    BY <1>t DEF Spend, Histories
  <2>5. hist' \in Histories
    BY <1>t, <2>1, <2>2, <2>4, SpentTyped DEF Histories
  <2> QED
    BY <1>t, <2>2, <2>3, <2>5 DEF TypeOK, device
<1>16. CASE OfficeEditsRecord
  <2>1. office.rec + 1 \in Nat
    BY <1>t DEF Offices
  <2>2. office' = [office EXCEPT !.rec = @ + 1] /\ UNCHANGED <<rows, device, pass, sync>>
        /\ hist' = [Spend(hist) EXCEPT !.officeRec = office.rec + 1]
    BY <1>16 DEF OfficeEditsRecord
  <2>3. office' \in Offices
    BY <1>t, <2>1, <2>2 DEF Offices
  <2>4. hist' \in Histories
    BY <1>t, <2>1, <2>2, SpentTyped DEF Histories
  <2> QED
    BY <1>t, <2>2, <2>3, <2>4 DEF TypeOK, device
<1>17. CASE Quiet
  BY <1>17, <1>t, QuietCases DEF TypeOK
<1>18. CASE UNCHANGED vars
  BY <1>18, <1>t DEF vars, TypeOK
<1> QED
  BY <1>1, <1>2, <1>3, <1>4, <1>5, <1>6, <1>7, <1>8, <1>9, <1>10, <1>11, <1>12, <1>13, <1>14, <1>15, <1>16,
     <1>17, <1>18, NextCases

(* A queued mutation takes a free number. *)
LEMMA QueuedFields ==
    ASSUME TypeOK, Numbered, NEW row, Queued(row)
    PROVE  /\ rows[NextId].kind = "none" /\ rows'[NextId] = row /\ NextId \in Ids
           /\ \A i \in Ids \ {NextId} : rows'[i] = rows[i]
           /\ Created' = Created \cup {NextId}
<1>1. rows[NextId].kind = "none" /\ NextId \in Ids /\ rows \in [Ids -> Mutations]
      /\ rows' = [rows EXCEPT ![NextId] = row] /\ row.kind # "none"
  BY FreeNumber DEF Queued, TypeOK
<1> HIDE DEF NextId
<1>2. rows'[NextId] = row /\ \A i \in Ids \ {NextId} : rows'[i] = rows[i]
  BY <1>1
<1> QED
  BY <1>1, <1>2 DEF Created

LEMMA MergedFields ==
    ASSUME TypeOK, Numbered, CopiesInv, NEW i \in Ids, rows[i].state = "conflict", NextId \in Ids, NEW r, NEW m,
           rows' = [rows EXCEPT ![i] = r, ![NextId] = m], r.kind = rows[i].kind, m.kind = "resolve"
    PROVE  /\ NextId # i /\ rows[NextId].kind = "none" /\ rows'[i] = r /\ rows'[NextId] = m
           /\ \A k \in Ids \ {i, NextId} : rows'[k] = rows[k]
           /\ Created' = Created \cup {NextId}
<1>1. rows[NextId].kind = "none" /\ rows \in [Ids -> Mutations]
  BY FreeNumber DEF TypeOK
<1>2. rows[i].kind # "none"
  BY DEF CopiesInv
<1> HIDE DEF NextId
<1>3. NextId # i /\ rows'[i] = r /\ rows'[NextId] = m /\ \A k \in Ids \ {i, NextId} : rows'[k] = rows[k]
  BY <1>1, <1>2
<1> QED
  BY <1>1, <1>2, <1>3 DEF Created

LEMMA NumberedKept ==
    ASSUME Numbered, \A i \in Ids : rows'[i].kind = rows[i].kind
    PROVE  Numbered'
BY DEF Numbered, Created

LEMMA NumberedGrows ==
    ASSUME TypeOK, Numbered, NextId \in Ids, Created' = Created \cup {NextId}
    PROVE  Numbered'
<1>1. NextId \in 0..MaxRows /\ Created' = 1..NextId
  BY FreeNumber, Bounds DEF Ids
<1> QED
  BY <1>1 DEF Numbered

LEMMA NumberedStep == ASSUME TypeOK, Numbered, CopiesInv, [Next]_vars PROVE Numbered'
<1>t. rows \in [Ids -> Mutations]
  BY DEF TypeOK
<1>0. rows' = rows => Numbered'
  BY NumberedKept
<1>1. CASE Queueing
  BY <1>1, QueueCases, QueuedFields, NumberedGrows
<1>2. CASE Sent
  BY <1>0, <1>2, SentCases DEF Sends
<1>3. CASE PassBegin
  BY <1>3, BeginCases, NumberedKept DEF Same
<1>4. CASE PassWrite
  <2>1. ASSUME NEW i \in Ids PROVE rows'[i].kind = rows[i].kind
    BY <1>4, WriteCases DEF CopiesInv, CopyOf
  <2> QED
    BY <2>1, NumberedKept
<1>5. CASE PassAck
  <2>1. PICK i \in pass.acks : rows' = [rows EXCEPT ![i] = [rows[i] EXCEPT !.server = NoDetail]]
    BY <1>5, AckCases
  <2>2. i \in Ids /\ rows[i] \in Mutations
    BY <1>t DEF TypeOK, WorkPasses
  <2>3. [rows[i] EXCEPT !.server = NoDetail].kind = rows[i].kind
    BY <2>2 DEF Mutations
  <2>4. \A k \in Ids : rows'[k].kind = rows[k].kind
    BY <1>t, <2>1, <2>2, <2>3
  <2> QED
    BY <2>4, NumberedKept
<1>6. CASE PassEnd \/ Crash
  BY <1>0, <1>6 DEF PassEnd, Crash
<1>7. ASSUME NEW i \in Ids, NEW r, rows' = [rows EXCEPT ![i] = r], r.kind = rows[i].kind PROVE Numbered'
  <2>1. \A k \in Ids : rows'[k].kind = rows[k].kind
    BY <1>t, <1>7
  <2> QED
    BY <2>1, NumberedKept
<1>8. ASSUME NEW i \in Ids, replacePhoto(i) \/ removeItem(i) \/ useServer(i) \/ keepLocal(i) PROVE Numbered'
  <2>1. CASE replacePhoto(i)
    BY <1>7, <2>1, ReplaceCases
  <2>2. CASE removeItem(i)
    BY <1>7, <2>2, DropCases DEF removeItem, Dropped, Same
  <2>3. CASE useServer(i)
    BY <1>7, <2>3, ServerCases DEF Dropped, Same
  <2>4. CASE keepLocal(i)
    BY <1>7, <2>4, KeepCases DEF Same
  <2> QED
    BY <1>8, <2>1, <2>2, <2>3, <2>4
<1>9. ASSUME NEW i \in Ids, applyMergeMine(i) PROVE Numbered'
  <2>1. rows[i].state = "conflict" /\ NextId \in Ids
    BY <1>9, MergeCases
  <2>2. PICK r \in Mutations, m \in Mutations :
          rows' = [rows EXCEPT ![i] = r, ![NextId] = m] /\ r.kind = rows[i].kind /\ m.kind = "resolve"
    BY <1>9, MergeCases DEF Same
  <2> QED
    BY <2>1, <2>2, MergedFields, NumberedGrows
<1>10. CASE patchCachedDetail \/ OfficeEditsProperty \/ OfficeEditsRecord \/ UNCHANGED vars
  BY <1>0, <1>10 DEF patchCachedDetail, OfficeEditsProperty, OfficeEditsRecord, vars
<1>11. CASE Loading \/ Quiet
  BY <1>0, <1>11, LoadCases, QuietCases
<1> QED
  BY <1>1, <1>2, <1>3, <1>4, <1>5, <1>6, <1>8, <1>9, <1>10, <1>11, NextCases

(* What CopiesInv says of mutation i. *)
CopiesOf(i) ==
    /\ CopyOf(i) /\ InPass(i) /\ Acked(i)
    /\ rows[i].kind = "none" <=> rows[i].state = "none"
    /\ pass.snap[i].kind = "none" <=> pass.snap[i].state = "none"
Phased ==
    /\ pass.pc = "idle" => pass.acks = {}
    /\ pass.pc # "send" => pass.todo = {} /\ pass.sent = {}
    /\ pass.pc = "send" => pass.acks = {}

LEMMA CopiesParts == CopiesInv <=> Phased /\ \A i \in Ids : CopiesOf(i)
BY DEF CopiesInv, Phased, CopiesOf

LEMMA CopiesSame ==
    ASSUME NEW i \in Ids, CopiesOf(i), pass' = pass, rows'[i] = rows[i]
    PROVE  CopiesOf(i)'
BY DEF CopiesOf, CopyOf, InPass, Acked

(* A failed photo or a mutation in conflict, neither of which a pass is writing, may change its state. *)
LEMMA CopiesChanged ==
    ASSUME NEW i \in Ids, CopiesOf(i), pass' = pass, Same(rows'[i], rows[i]), rows'[i].state # "none",
           rows[i].state = "conflict" \/ rows[i].kind = "photo"
    PROVE  CopiesOf(i)'
<1>1. rows[i].kind # "none"
  BY DEF CopiesOf
<1> QED
  BY <1>1 DEF CopiesOf, CopyOf, InPass, Acked, Same, OfProperty

LEMMA CopiesStep == ASSUME TypeOK, Numbered, CopiesInv, [Next]_vars PROVE CopiesInv'
<1>t. rows \in [Ids -> Mutations] /\ pass \in WorkPasses
  BY DEF TypeOK
<1>p. Phased /\ \A i \in Ids : CopiesOf(i)
  BY CopiesParts
<1>0. ASSUME pass' = pass, \A i \in Ids : rows'[i] = rows[i] \/ CopiesOf(i)' PROVE CopiesInv'
  <2>1. \A i \in Ids : CopiesOf(i)'
    BY <1>p, <1>0, CopiesSame
  <2>2. Phased'
    BY <1>p, <1>0 DEF Phased
  <2> QED
    BY <2>1, <2>2, CopiesParts DEF CopiesInv, CopiesOf, Phased
<1>1. CASE Queueing
  <2>1. PICK row : Queued(row)
    BY <1>1, QueueCases
  <2>2. \A k \in Ids : k = NextId => CopiesOf(k)'
    <3>1. /\ rows[NextId].kind = "none" /\ rows'[NextId] = row /\ NextId \in Ids /\ pass' = pass
          /\ row.kind # "none" /\ row.state = "pending"
      BY <2>1, QueuedFields DEF Queued
    <3> HIDE DEF NextId
    <3> SUFFICES ASSUME NEW k \in Ids, k = NextId PROVE CopiesOf(k)'
      OBVIOUS
    <3>2. CopiesOf(k) /\ rows[k].kind = "none" /\ rows'[k] = row
      BY <1>p, <3>1
    <3> QED
      BY <3>1, <3>2 DEF CopiesOf, CopyOf, InPass, Acked, OfProperty
  <2>3. pass' = pass /\ \A i \in Ids \ {NextId} : rows'[i] = rows[i]
    BY <2>1, QueuedFields DEF Queued
  <2> QED
    BY <1>0, <2>2, <2>3
<1>2. CASE Sent
  <2> PICK i \in pass.todo : \E n : Sends(i, n) /\ (Unheard(i, n) \/ Heard(i, n))
    BY <1>2, SentCases
  <2>1. PICK n : Sends(i, n) /\ (Unheard(i, n) \/ Heard(i, n))
    OBVIOUS
  <2>5. Unheard(i, n) \/ Heard(i, n)
    BY <2>1
  <2>2. /\ pass'.pc = "send" /\ pass'.todo = pass.todo \ {i} /\ pass'.sent = pass.sent \cup {i}
        /\ pass'.acks = pass.acks /\ pass'.snap = [pass.snap EXCEPT ![i] = n] /\ rows' = rows
        /\ pass.snap \in [Ids -> Mutations] /\ i \in Ids /\ pass.pc = "send"
    BY <1>t, <2>1 DEF Sends, WorkPasses
  <2>3. ASSUME NEW k \in Ids PROVE CopiesOf(k)'
    <3>1. pass'.snap[k].kind = pass.snap[k].kind /\ pass'.snap[k].file = pass.snap[k].file
      BY <2>1, <2>2 DEF Sends
    <3>2. k \in pass'.todo \cup pass'.sent => k \in pass.todo \cup pass.sent
      BY <2>2
    <3>3. n.state # "none" /\ pass.snap[i].kind # "none"
      BY <1>p, <2>2, <2>5 DEF CopiesOf, InPass, Unheard, Heard
    <3>4. pass'.snap[k].kind = "none" <=> pass'.snap[k].state = "none"
      BY <1>p, <2>1, <2>2, <3>3 DEF CopiesOf, Sends
    <3> QED
      BY <1>p, <2>2, <3>1, <3>2, <3>4 DEF CopiesOf, CopyOf, InPass, Acked
  <2>4. Phased'
    BY <1>p, <2>2 DEF Phased
  <2> QED
    BY <2>3, <2>4 DEF CopiesInv, CopiesOf, Phased
<1>3. CASE PassBegin
  <2>1. ASSUME NEW i \in Ids PROVE CopiesOf(i)'
    <3>1. NoRow.kind = "none" /\ NoRow.state = "none"
      BY DEF NoRow
    <3>2. rows'[i].kind = rows[i].kind /\ (rows'[i].state = "none" <=> rows[i].state = "none")
      BY <1>3, BeginCases DEF Same
    <3>3. pass'.snap[i] = IF rows'[i].state \in {"pending", "failed", "conflict"} THEN rows'[i] ELSE NoRow
      BY <1>3, BeginCases
    <3>4. /\ pass'.pc = "send" /\ pass'.acks = {} /\ pass'.sent = {}
          /\ i \in pass'.todo => rows'[i].state \in {"pending", "failed"}
      BY <1>3, BeginCases
    <3>5. i \in pass'.todo => pass'.snap[i] = rows'[i] /\ rows'[i].kind # "none"
      BY <1>p, <3>2, <3>3, <3>4 DEF CopiesOf
    <3> QED
      BY <1>p, <3>1, <3>2, <3>3, <3>4, <3>5 DEF CopiesOf, CopyOf, InPass, Acked
  <2>2. Phased'
    BY <1>3, BeginCases DEF Phased
  <2> QED
    BY <2>1, <2>2 DEF CopiesInv, CopiesOf, Phased
<1>4. CASE PassWrite
  <2>1. ASSUME NEW i \in Ids PROVE CopiesOf(i)'
    <3>1. /\ pass'.snap[i].kind = "none" /\ pass'.snap[i].state = "none" /\ pass'.todo = {} /\ pass'.sent = {}
          /\ i \in pass'.acks => i \in pass.sent /\ pass.snap[i].state = "synced" /\ pass.snap[i].kind \in OfProperty
      BY <1>4, WriteCases DEF NoRow
    <3>2. rows'[i] = IF pass.snap[i].kind # "none" /\ Live(i) THEN pass.snap[i] ELSE rows[i]
      BY <1>4, WriteCases
    <3>3. i \in pass'.acks => rows'[i] = pass.snap[i]
      BY <1>p, <3>1, <3>2 DEF CopiesOf, CopyOf, InPass, Live, OfProperty
    <3>4. pass.snap[i].state = "none" => pass.snap[i].kind = "none"
      BY <1>p DEF CopiesOf
    <3> QED
      BY <1>p, <3>1, <3>2, <3>3, <3>4 DEF CopiesOf, CopyOf, InPass, Acked, Live
  <2>2. Phased'
    BY <1>4, WriteCases DEF Phased
  <2> QED
    BY <2>1, <2>2 DEF CopiesInv, CopiesOf, Phased
<1>5. CASE PassAck
  <2>1. PICK i \in pass.acks : /\ rows' = [rows EXCEPT ![i] = [rows[i] EXCEPT !.server = NoDetail]]
                               /\ pass' = [pass EXCEPT !.acks = @ \ {i}]
    BY <1>5, AckCases
  <2>2. pass.pc = "ack" /\ pass.acks \subseteq Ids /\ i \in Ids /\ rows[i] \in Mutations
    BY <1>5, <1>t, AckCases DEF WorkPasses
  <2>3. LET r == [rows[i] EXCEPT !.server = NoDetail]
        IN  r.kind = rows[i].kind /\ r.state = rows[i].state /\ r.file = rows[i].file
    BY <2>2 DEF Mutations
  <2>4. pass'.pc = "ack" /\ pass'.todo = pass.todo /\ pass'.sent = pass.sent /\ pass'.snap = pass.snap
        /\ pass'.acks = pass.acks \ {i}
    BY <1>t, <2>1, <2>2 DEF WorkPasses
  <2>5. ASSUME NEW k \in Ids PROVE CopiesOf(k)'
    <3>1. rows'[k].kind = rows[k].kind /\ rows'[k].state = rows[k].state /\ rows'[k].file = rows[k].file
      BY <1>t, <2>1, <2>2, <2>3
    <3> QED
      BY <1>p, <2>2, <2>4, <3>1 DEF CopiesOf, CopyOf, InPass, Acked
  <2>6. Phased'
    BY <1>p, <2>2, <2>4 DEF Phased
  <2> QED
    BY <2>5, <2>6 DEF CopiesInv, CopiesOf, Phased
<1>6. CASE PassEnd \/ Crash
  <2>1. rows' = rows /\ pass' = NoPass
    BY <1>6 DEF PassEnd, Crash
  <2>2. /\ pass'.pc = "idle" /\ pass'.todo = {} /\ pass'.sent = {} /\ pass'.acks = {}
        /\ \A k \in Ids : pass'.snap[k].kind = "none" /\ pass'.snap[k].state = "none"
    BY <2>1 DEF NoPass, NoRow
  <2>3. ASSUME NEW k \in Ids PROVE CopiesOf(k)'
    BY <1>p, <2>1, <2>2 DEF CopiesOf, CopyOf, InPass, Acked
  <2>4. Phased'
    BY <2>2 DEF Phased
  <2> QED
    BY <2>3, <2>4 DEF CopiesInv, CopiesOf, Phased
<1>7. ASSUME NEW i \in Ids, replacePhoto(i) PROVE CopiesInv'
  <2>1. pass' = pass /\ rows[i].kind = "photo" /\ ("replace" \in Windows \/ pass.pc = "idle")
    BY <1>7, ReplaceCases
  <2>2. PICK r \in Mutations : rows' = [rows EXCEPT ![i] = r] /\ r.kind = "photo" /\ r.state = "pending"
    BY <1>7, ReplaceCases
  <2>3. CopiesOf(i)'
    BY <1>p, <1>t, <2>1, <2>2 DEF CopiesOf, CopyOf, InPass, Acked, OfProperty
  <2> QED
    BY <1>0, <1>t, <2>1, <2>2, <2>3
<1>8. ASSUME NEW i \in Ids, NEW r, rows' = [rows EXCEPT ![i] = r], pass' = pass, Same(r, rows[i]), r.state # "none",
             rows[i].state = "conflict" \/ rows[i].kind = "photo"
      PROVE  CopiesInv'
  <2>1. CopiesOf(i)'
    BY <1>p, <1>t, <1>8, CopiesChanged
  <2> QED
    BY <1>0, <1>t, <1>8, <2>1
<1>9. ASSUME NEW i \in Ids, removeItem(i) \/ useServer(i) \/ keepLocal(i) PROVE CopiesInv'
  <2>1. CASE removeItem(i)
    BY <1>8, <2>1, DropCases DEF removeItem, Dropped
  <2>2. CASE useServer(i)
    BY <1>8, <2>2, ServerCases DEF Dropped
  <2>3. CASE keepLocal(i)
    BY <1>8, <2>3, KeepCases
  <2> QED
    BY <1>9, <2>1, <2>2, <2>3
<1>10. ASSUME NEW i \in Ids, applyMergeMine(i) PROVE CopiesInv'
  <2>1. rows[i].state = "conflict" /\ NextId \in Ids /\ pass' = pass
    BY <1>10, MergeCases
  <2>2. PICK r \in Mutations, m \in Mutations :
          /\ rows' = [rows EXCEPT ![i] = r, ![NextId] = m] /\ Same(r, rows[i]) /\ r.state = "removed"
          /\ m.kind = "resolve" /\ m.state = "pending"
    BY <1>10, MergeCases
  <2>3. /\ NextId # i /\ rows[NextId].kind = "none" /\ rows'[i] = r /\ rows'[NextId] = m
        /\ \A k \in Ids \ {i, NextId} : rows'[k] = rows[k]
    <3>1. rows[NextId].kind = "none" /\ rows[i].kind # "none"
      BY <1>p, <2>1, FreeNumber DEF CopiesOf
    <3> HIDE DEF NextId
    <3> QED
      BY <1>t, <2>1, <2>2, <3>1
  <2>4. CopiesOf(i)'
    BY <1>p, <2>1, <2>2, <2>3, CopiesChanged
  <2>5. \A k \in Ids : k = NextId => CopiesOf(k)'
    <3> SUFFICES ASSUME NEW k \in Ids, k = NextId PROVE CopiesOf(k)'
      OBVIOUS
    <3>1. CopiesOf(k) /\ rows[k].kind = "none" /\ rows'[k] = m
      BY <1>p, <2>3
    <3> QED
      BY <2>1, <2>2, <3>1 DEF CopiesOf, CopyOf, InPass, Acked, OfProperty
  <2> QED
    BY <1>0, <2>1, <2>3, <2>4, <2>5
<1>11. CASE patchCachedDetail \/ OfficeEditsProperty \/ OfficeEditsRecord \/ UNCHANGED vars
  BY <1>0, <1>11 DEF patchCachedDetail, OfficeEditsProperty, OfficeEditsRecord, vars
<1>12. CASE Loading \/ Quiet
  BY <1>0, <1>12, LoadCases, QuietCases
<1> QED
  BY <1>1, <1>2, <1>3, <1>4, <1>5, <1>6, <1>7, <1>9, <1>10, <1>11, <1>12, NextCases

-----------------------------------------------------------------------------
(* What is retried runs once *)

Once(i) == Filed(i) /\ RanIt(i, rows[i]) /\ RanIt(i, pass.snap[i])

LEMMA OnceParts == OnceInv <=> (\A i \in Ids : Once(i)) /\ (office.leads = {} \/ \E i \in Ids : office.leads = {i})
BY DEF OnceInv, Once

FilesKept ==
    /\ office'.visits = office.visits /\ office'.insps = office.insps /\ office'.photos = office.photos
    /\ office'.keys = office.keys /\ office'.ran = office.ran

(* Office files nothing for mutation i, and the mutation stays what it is. *)
LEMMA OnceKept ==
    ASSUME NEW i \in Ids, Once(i), FilesKept,
           rows'[i].kind = rows[i].kind \/ rows[i].kind = "none",
           rows'[i].file = rows[i].file \/ i \notin office.keys,
           RanIt(i, rows'[i]), RanIt(i, pass'.snap[i])
    PROVE  Once(i)'
<1>1. Filed(i)'
  BY DEF Once, Filed, FilesKept
<1> QED
  BY <1>1 DEF Once, RanIt, FilesKept

LEMMA OnceSent ==
    ASSUME TypeOK, CopiesInv, OnceInv, "replace" \notin Windows, Sent
    PROVE  OnceInv'
<1>p. /\ \A k \in Ids : Once(k)
      /\ office.leads = {} \/ \E k \in Ids : office.leads = {k}
  BY OnceParts
<1> PICK i \in pass.todo : \E n : Sends(i, n) /\ (Unheard(i, n) \/ Heard(i, n))
  BY SentCases
<1>1. PICK n : Sends(i, n) /\ (Unheard(i, n) \/ Heard(i, n))
  OBVIOUS
<1>2. pass \in WorkPasses /\ i \in Ids /\ office \in Offices
  BY DEF TypeOK, WorkPasses
<1>3. pass'.snap = [pass.snap EXCEPT ![i] = n] /\ rows' = rows /\ pass.snap \in [Ids -> Mutations]
  BY <1>1, <1>2 DEF Sends, WorkPasses
<1> DEFINE r == pass.snap[i]
<1>4. /\ r \in Mutations /\ r.kind # "none" /\ r.kind = rows[i].kind /\ r.file = rows[i].file /\ n.kind = r.kind
  BY <1>1, <1>2, <1>3 DEF CopiesInv, CopyOf, InPass, Sends
<1>5. CASE Unheard(i, n)
  <2>1. office' = office /\ n.state \in {"pending", "failed"}
    BY <1>5 DEF Unheard
  <2>2. ASSUME NEW k \in Ids PROVE Once(k)'
    BY <1>p, <1>2, <1>3, <2>1 DEF Once, Filed, RanIt
  <2> QED
    BY <1>p, <2>1, <2>2 DEF OnceInv, Once
<1>6. CASE Heard(i, n)
  <2> DEFINE a == Handle(i, r)
  <2>1. Ran(i, r, a)
    BY <1>2, <1>4, HandlerRan
  <2>2. office' = a.office /\ (n.state = "synced" => a.status # 409)
    BY <1>6 DEF Heard
  <2>3. FiledBy(i, r, office') /\ AnsweredBy(i, r, a)
    BY <2>1, <2>2 DEF Ran
  <2>4. office'.keys \subseteq office.keys \cup {i} /\ office.keys \subseteq office'.keys
        /\ office.ran \subseteq office'.ran
    BY <2>3 DEF FiledBy
  <2>5. n.state = "synced" => i \in office'.ran \/ i \in office.keys
    BY <2>2, <2>3 DEF AnsweredBy
  <2>6. n.state = "synced" /\ n.kind = "photo" => i \in office'.keys
    BY <1>4, <2>2, <2>3 DEF AnsweredBy
  <2> HIDE DEF a
  <2>7. ASSUME NEW k \in Ids \ {i} PROVE Once(k)'
    <3>1. /\ office'.visits[k] = office.visits[k] /\ office'.insps[k] = office.insps[k]
          /\ office'.photos[k] = office.photos[k] /\ (k \in office'.keys <=> k \in office.keys)
      BY <2>3 DEF FiledBy
    <3>2. pass'.snap[k] = pass.snap[k]
      BY <1>3
    <3>3. Once(k)
      BY <1>p
    <3> QED
      BY <1>3, <2>4, <3>1, <3>2, <3>3 DEF Once, Filed, RanIt
  <2>8. Once(i)'
    <3>1. Once(i)
      BY <1>2, <1>p
    <3>2. /\ i \in office.keys \/ i \notin office'.keys =>
               /\ office'.visits[i] = office.visits[i] /\ office'.insps[i] = office.insps[i]
               /\ office'.photos[i] = office.photos[i]
          /\ office'.visits[i] \in {office.visits[i], office.visits[i] + 1}
          /\ office'.insps[i] \in {office.insps[i], office.insps[i] + 1}
          /\ r.kind # "photo" => office'.photos[i] = office.photos[i]
          /\ i \in office'.keys => i \in office.keys \/ r.kind # "photo"
                                   \/ office'.photos[i] = office.photos[i] \cup {r.file}
          /\ i \in office'.keys => i \in office.keys \/ i \in office'.ran
      BY <2>3 DEF FiledBy
    <3>3. Filed(i)'
      BY <1>3, <1>4, <2>4, <3>1, <3>2 DEF Once, Filed
    <3>4. pass'.snap[i] = n
      BY <1>2, <1>3
    <3>5. RanIt(i, rows[i])'
      BY <1>3, <2>4, <3>1 DEF Once, RanIt
    <3>6. RanIt(i, pass.snap[i])'
      BY <2>4, <2>5, <2>6, <3>1, <3>4 DEF Once, Filed, RanIt
    <3> QED
      BY <3>3, <3>5, <3>6 DEF Once
  <2>9. office'.leads = office.leads \/ office'.leads = {i}
    BY <2>3 DEF FiledBy
  <2> QED
    BY <1>p, <1>2, <2>7, <2>8, <2>9 DEF OnceInv, Once
<1> QED
  BY <1>1, <1>5, <1>6

LEMMA OnceStep ==
    ASSUME TypeOK, Numbered, CopiesInv, OnceInv, "replace" \notin Windows, [Next]_vars
    PROVE  OnceInv'
<1>t. rows \in [Ids -> Mutations] /\ pass \in WorkPasses
  BY DEF TypeOK
<1>p. /\ \A i \in Ids : Once(i)
      /\ office.leads = {} \/ \E i \in Ids : office.leads = {i}
  BY OnceParts
<1>0. ASSUME office'.leads = office.leads, \A i \in Ids : Once(i)' PROVE OnceInv'
  BY <1>p, <1>0 DEF OnceInv, Once
<1>1. ASSUME office' = office, pass' = pass,
             \A i \in Ids : \/ rows'[i] = rows[i]
                            \/ rows'[i].state # "synced" /\ rows[i].kind = "none"
                            \/ rows'[i].state # "synced" /\ Same(rows'[i], rows[i])
      PROVE  OnceInv'
  <2>1. ASSUME NEW i \in Ids PROVE Once(i)'
    <3>1. Once(i)
      BY <1>p
    <3>2. rows[i].kind = "none" => i \notin office.keys
      BY <3>1 DEF Once, Filed
    <3>3. RanIt(i, rows'[i])
      BY <1>1, <3>1 DEF Once, RanIt
    <3> QED
      BY <1>1, <3>1, <3>2, <3>3, OnceKept DEF Once, FilesKept, Same
  <2> QED
    BY <1>0, <1>1, <2>1
<1>2. CASE Queueing
  <2>1. PICK row : Queued(row)
    BY <1>2, QueueCases
  <2>2. /\ rows[NextId].kind = "none" /\ rows'[NextId] = row
        /\ \A i \in Ids \ {NextId} : rows'[i] = rows[i]
    BY <2>1, QueuedFields
  <2>3. row.state = "pending" /\ office' = office /\ pass' = pass
    BY <2>1 DEF Queued
  <2> QED
    BY <1>1, <2>2, <2>3
<1>3. CASE Sent
  BY <1>3, OnceSent
<1>4. CASE PassBegin
  <2>1. ASSUME NEW i \in Ids PROVE Once(i)'
    <3>1. Once(i) /\ NoRow.state = "none"
      BY <1>p DEF NoRow
    <3>2. rows'[i] = rows[i] \/ (Same(rows'[i], rows[i]) /\ rows'[i].state = "pending")
      BY <1>4, BeginCases
    <3>3. RanIt(i, rows'[i]) /\ rows'[i].kind = rows[i].kind /\ rows'[i].file = rows[i].file
      BY <3>1, <3>2 DEF Once, RanIt, Same
    <3>4. pass'.snap[i] = rows'[i] \/ pass'.snap[i] = NoRow
      BY <1>4, BeginCases
    <3>5. RanIt(i, pass'.snap[i])
      BY <3>1, <3>3, <3>4 DEF RanIt
    <3>6. FilesKept
      BY <1>4, BeginCases DEF FilesKept
    <3> QED
      BY <3>1, <3>3, <3>5, <3>6, OnceKept
  <2> QED
    BY <1>0, <1>4, <2>1, BeginCases
<1>5. CASE PassWrite
  <2>1. ASSUME NEW i \in Ids PROVE Once(i)'
    <3>1. Once(i) /\ NoRow.state = "none"
      BY <1>p DEF NoRow
    <3>2. rows'[i] = IF pass.snap[i].kind # "none" /\ Live(i) THEN pass.snap[i] ELSE rows[i]
      BY <1>5, WriteCases
    <3>3. pass'.snap[i] = NoRow
      BY <1>5, WriteCases
    <3>4. rows'[i].kind = rows[i].kind /\ rows'[i].file = rows[i].file
      BY <3>2 DEF CopiesInv, CopyOf
    <3>5. RanIt(i, rows'[i]) /\ RanIt(i, pass'.snap[i])
      BY <3>1, <3>2, <3>3 DEF Once, RanIt
    <3>6. FilesKept
      BY <1>5, WriteCases DEF FilesKept
    <3> QED
      BY <3>1, <3>4, <3>5, <3>6, OnceKept
  <2> QED
    BY <1>0, <1>5, <2>1, WriteCases
<1>6. CASE PassAck
  <2>1. PICK i \in pass.acks : /\ rows' = [rows EXCEPT ![i] = [rows[i] EXCEPT !.server = NoDetail]]
                               /\ pass' = [pass EXCEPT !.acks = @ \ {i}]
    BY <1>6, AckCases
  <2>2. i \in Ids /\ rows[i] \in Mutations /\ office' = office /\ pass'.snap = pass.snap
    BY <1>6, <1>t, <2>1, AckCases DEF WorkPasses
  <2>3. LET r == [rows[i] EXCEPT !.server = NoDetail]
        IN  r.kind = rows[i].kind /\ r.state = rows[i].state /\ r.file = rows[i].file
    BY <2>2 DEF Mutations
  <2>4. ASSUME NEW k \in Ids PROVE Once(k)'
    <3>1. rows'[k].kind = rows[k].kind /\ rows'[k].state = rows[k].state /\ rows'[k].file = rows[k].file
      BY <1>t, <2>1, <2>2, <2>3
    <3> QED
      BY <1>p, <2>2, <3>1, OnceKept DEF Once, RanIt, FilesKept
  <2> QED
    BY <1>0, <2>2, <2>4
<1>7. CASE PassEnd \/ Crash
  <2>1. rows' = rows /\ pass' = NoPass /\ office' = office
    BY <1>7 DEF PassEnd, Crash
  <2>2. \A k \in Ids : pass'.snap[k].state = "none"
    BY <2>1 DEF NoPass, NoRow
  <2>3. ASSUME NEW k \in Ids PROVE Once(k)'
    BY <1>p, <2>1, <2>2, OnceKept DEF Once, RanIt, FilesKept
  <2> QED
    BY <1>0, <2>1, <2>3
<1>8. ASSUME NEW i \in Ids, replacePhoto(i) PROVE OnceInv'
  <2>1. office' = office /\ pass' = pass /\ i \notin office.keys /\ rows[i].kind = "photo"
    BY <1>8, ReplaceCases
  <2>2. PICK r \in Mutations : rows' = [rows EXCEPT ![i] = r] /\ r.kind = "photo" /\ r.state = "pending"
    BY <1>8, ReplaceCases
  <2>3. ASSUME NEW k \in Ids PROVE Once(k)'
    <3>1. rows'[k] = rows[k] \/ (k = i /\ rows'[k] = r)
      BY <1>t, <2>2
    <3> QED
      BY <1>p, <2>1, <2>2, <3>1, OnceKept DEF Once, RanIt, FilesKept
  <2> QED
    BY <1>0, <2>1, <2>3
<1>9. ASSUME NEW i \in Ids, removeItem(i) \/ useServer(i) \/ keepLocal(i) PROVE OnceInv'
  <2>1. office' = office /\ pass' = pass
    BY <1>9, ServerCases, KeepCases DEF removeItem
  <2>2. PICK r : rows' = [rows EXCEPT ![i] = r] /\ Same(r, rows[i]) /\ r.state # "synced"
    BY <1>9, ServerCases, KeepCases, DropCases DEF removeItem, Dropped
  <2> QED
    BY <1>1, <1>t, <2>1, <2>2
<1>10. ASSUME NEW i \in Ids, applyMergeMine(i) PROVE OnceInv'
  <2>1. rows[i].state = "conflict" /\ NextId \in Ids /\ pass' = pass /\ office' = office
    BY <1>10, MergeCases
  <2>2. PICK r \in Mutations, m \in Mutations :
          /\ rows' = [rows EXCEPT ![i] = r, ![NextId] = m] /\ Same(r, rows[i]) /\ r.state = "removed"
          /\ m.kind = "resolve" /\ m.state = "pending"
    BY <1>10, MergeCases
  <2>3. rows[NextId].kind = "none"
    BY <2>1, FreeNumber
  <2> HIDE DEF NextId
  <2> QED
    BY <1>1, <1>t, <2>1, <2>2, <2>3
<1>11. CASE OfficeEditsProperty \/ OfficeEditsRecord
  <2>1. FilesKept /\ office'.leads = office.leads
    BY <1>11 DEF OfficeEditsProperty, OfficeEditsRecord, TypeOK, Offices, FilesKept
  <2>2. rows' = rows /\ pass' = pass
    BY <1>11 DEF OfficeEditsProperty, OfficeEditsRecord
  <2>3. ASSUME NEW k \in Ids PROVE Once(k)'
    BY <1>p, <2>1, <2>2, OnceKept DEF Once
  <2> QED
    BY <1>0, <2>1, <2>3
<1>12. CASE patchCachedDetail \/ UNCHANGED vars
  BY <1>1, <1>12 DEF patchCachedDetail, vars
<1>13. CASE Loading \/ Quiet
  BY <1>1, <1>13, LoadCases, QuietCases
<1> QED
  BY <1>2, <1>3, <1>4, <1>5, <1>6, <1>7, <1>8, <1>9, <1>10, <1>11, <1>12, <1>13, NextCases

-----------------------------------------------------------------------------
(* No change is run over an Office edit the rep had not seen *)

Ahead == ~hist.blind /\ office.ver # 0 /\ hist.officeVer <= office.ver /\ hist.officeRec <= office.rec

ScreensKnown ==
    /\ Known(detail) /\ Known(screen.prop) /\ Known(load.snap) /\ Known(opt.cur)
    /\ screen.prop.has => detail.has
    /\ load.st = "sent" => load.snap.has
    /\ opt.st = "put" => opt.cur.has
    /\ screen.conflict # 0 => rows[screen.conflict].kind \in OfProperty

SeenOf(i) ==
    /\ Informed(rows[i]) /\ Informed(pass.snap[i])
    /\ i \in pass.acks /\ rows[i].kind \in {"patch", "resolve"} => rows[i].server.has
    /\ pass.snap[i].kind \in {"patch", "resolve"} /\ pass.snap[i].state = "synced" => pass.snap[i].server.has

LEMMA SeenParts == ASSUME TypeOK, SeenInv PROVE Ahead /\ ScreensKnown /\ \A i \in Ids : SeenOf(i)
BY DEF SeenInv, Ahead, ScreensKnown, SeenOf

LEMMA AheadKept ==
    ASSUME Ahead, office' = office, hist'.officeVer = hist.officeVer, hist'.officeRec = hist.officeRec,
           hist'.blind <=> hist.blind
    PROVE  Ahead'
BY DEF Ahead

LEMMA ScreensKept ==
    ASSUME TypeOK, ScreensKnown, UNCHANGED <<detail, screen, load, opt>>,
           \A i \in Ids : rows'[i].kind = rows[i].kind \/ rows[i].kind = "none"
    PROVE  ScreensKnown'
<1>1. screen.conflict \in Ids \cup {0}
  BY DEF TypeOK
<1> QED
  BY <1>1 DEF ScreensKnown, Known, OfProperty

LEMMA SeenKept ==
    ASSUME NEW i \in Ids, SeenOf(i), detail.has => detail'.has, rows'[i] = rows[i], pass' = pass
    PROVE  SeenOf(i)'
BY DEF SeenOf, Informed, Known

(* A mutation's state changes, and what it knows of Office's version does not. *)
LEMMA SeenChanged ==
    ASSUME NEW i \in Ids, SeenOf(i), detail.has => detail'.has, pass' = pass, i \notin pass.acks,
           Same(rows'[i], rows[i]), rows'[i].state # "conflict",
           rows'[i].server = rows[i].server \/ rows'[i].server = NoDetail
    PROVE  SeenOf(i)'
<1>1. ~NoDetail.has
  BY DEF NoDetail
<1> QED
  BY <1>1 DEF SeenOf, Informed, Known, Same

LEMMA SeenInit == Init => SeenInv
<1> SUFFICES ASSUME Init PROVE SeenInv
  OBVIOUS
<1>1. rows = [i \in Ids |-> NoRow] /\ pass = NoPass /\ detail = NoDetail /\ screen = NoScreen /\ load = NoLoad
      /\ opt = NoOpt
  BY DEF Init
<1>2. /\ NoRow.kind = "none" /\ NoRow.state = "none" /\ NoRow.server = NoDetail /\ ~NoDetail.has
      /\ NoPass.acks = {} /\ (\A i \in Ids : NoPass.snap[i] = NoRow)
      /\ NoScreen.prop = NoDetail /\ NoScreen.conflict = 0
      /\ NoLoad.snap = NoDetail /\ NoLoad.st = "idle" /\ NoOpt.cur = NoDetail /\ NoOpt.st = "idle"
  BY DEF NoRow, NoPass, NoScreen, NoLoad, NoOpt, NoDetail
<1>3. ~hist.blind /\ office.ver = 1 /\ office.rec = 1 /\ hist.officeVer = 1 /\ hist.officeRec = 1
  BY DEF Init
<1>4. \A i \in Ids : Informed(rows[i]) /\ Informed(pass.snap[i]) /\ pass.snap[i] = NoRow
  BY <1>1, <1>2 DEF Informed, Known, OfProperty
<1> QED
  BY <1>1, <1>2, <1>3, <1>4 DEF SeenInv, Known

LEMMA SeenSent ==
    ASSUME TypeOK, CopiesInv, SeenInv, Sent
    PROVE  SeenInv'
<1>p. Ahead /\ ScreensKnown /\ \A k \in Ids : SeenOf(k)
  BY SeenParts
<1> PICK i \in pass.todo : \E n : Sends(i, n) /\ (Unheard(i, n) \/ Heard(i, n))
  BY SentCases
<1>1. PICK n : Sends(i, n) /\ (Unheard(i, n) \/ Heard(i, n))
  OBVIOUS
<1>2. pass \in WorkPasses /\ i \in Ids /\ office \in Offices /\ hist \in Histories
  BY DEF TypeOK, WorkPasses
<1>3. /\ pass'.snap = [pass.snap EXCEPT ![i] = n] /\ pass'.acks = pass.acks
      /\ UNCHANGED <<rows, detail, screen, load, opt>> /\ pass.snap \in [Ids -> Mutations]
  BY <1>1, <1>2 DEF Sends, WorkPasses
<1> DEFINE r == pass.snap[i]
           a == Handle(i, r)
<1>4. /\ r \in Mutations /\ r.kind # "none" /\ n \in Mutations
      /\ n.kind = r.kind /\ n.tok = r.tok /\ n.saw = r.saw
  BY <1>1, <1>2, <1>3 DEF CopiesInv, InPass, Sends
<1>5. AnsweredBy(i, r, a)
  BY <1>2, <1>4, HandlerRan DEF Ran
<1> HIDE DEF a
<1>6. ScreensKnown'
  BY <1>3, <1>p, ScreensKept
<1>7. /\ office.ver \in Nat /\ office.rec \in Nat /\ hist.officeVer \in Nat /\ hist.officeRec \in Nat
      /\ r.saw \in Nat /\ r.tok \in Nat
      /\ hist'.officeVer = hist.officeVer /\ hist'.officeRec = hist.officeRec
  BY <1>2, <1>4, SentCases DEF Offices, Histories, Mutations
<1>8. SeenOf(i)
  BY <1>2, <1>p
<1>9. ASSUME office' \in Offices, office.ver <= office'.ver, office.rec <= office'.rec,
             hist'.blind => \/ hist.blind
                            \/ /\ i \in office'.ran \ office.ran
                               /\ \/ r.kind \in {"patch", "resolve"} /\ r.saw < hist.officeVer
                                  \/ r.kind = "edit" /\ r.saw < hist.officeRec,
             i \in office'.ran \ office.ran =>
               /\ r.kind \in {"patch", "resolve"} /\ r.tok # 0 => r.tok = office.ver
               /\ r.kind = "edit" => r.tok = office.rec
      PROVE  Ahead'
  <2>1. /\ r.kind \in {"patch", "resolve"} => r.tok # 0 /\ r.saw = r.tok
        /\ r.kind = "edit" => r.saw = r.tok
    BY <1>8 DEF SeenOf, Informed
  <2>2. office.ver # 0 /\ hist.officeVer <= office.ver /\ hist.officeRec <= office.rec /\ ~hist.blind
    BY <1>p DEF Ahead
  <2>3. ~hist'.blind
    BY <1>7, <1>9, <2>1, <2>2
  <2>4. office'.ver \in Nat /\ office'.rec \in Nat
    BY <1>9 DEF Offices
  <2>5. office'.ver # 0 /\ hist'.officeVer <= office'.ver /\ hist'.officeRec <= office'.rec
    BY <1>7, <1>9, <2>2, <2>4
  <2> QED
    BY <2>3, <2>5 DEF Ahead
<1>10. ASSUME Known(n.server), r.kind \in OfProperty /\ n.state = "conflict" => n.server.has,
              r.kind \in {"patch", "resolve"} /\ n.state = "synced" => n.server.has, Ahead'
       PROVE  SeenInv'
  <2>1. Informed(n)'
    BY <1>3, <1>4, <1>8, <1>10 DEF SeenOf, Informed, Known
  <2>2. ASSUME NEW k \in Ids PROVE SeenOf(k)'
    <3>1. k # i => pass'.snap[k] = pass.snap[k]
      BY <1>3
    <3>2. pass'.snap[i] = n
      BY <1>2, <1>3
    <3>3. SeenOf(k)
      BY <1>p
    <3>4. CASE k = i
      BY <1>3, <1>4, <1>10, <2>1, <3>2, <3>3, <3>4 DEF SeenOf, Informed, Known
    <3>5. CASE k # i
      BY <1>3, <3>1, <3>3, <3>5 DEF SeenOf, Informed, Known
    <3> QED
      BY <3>4, <3>5
  <2>3. pass'.acks \subseteq Ids
    BY <1>2, <1>3 DEF WorkPasses
  <2> QED
    BY <1>6, <1>10, <2>2, <2>3 DEF SeenInv, Ahead, ScreensKnown, SeenOf
<1>11. CASE Unheard(i, n)
  <2>1. office' = office /\ (hist'.blind => hist.blind) /\ n.state \in {"pending", "failed"} /\ n.server = r.server
    BY <1>11 DEF Unheard
  <2>2. Ahead'
    BY <1>2, <1>7, <1>9, <2>1
  <2>3. Known(n.server)
    BY <1>8, <2>1 DEF SeenOf, Informed
  <2> QED
    BY <1>10, <2>1, <2>2, <2>3
<1>12. CASE Heard(i, n)
  <2>1. /\ office' = a.office
        /\ hist'.blind => \/ hist.blind
                          \/ /\ i \in office'.ran \ office.ran
                             /\ \/ r.kind \in {"patch", "resolve"} /\ r.saw < hist.officeVer
                                \/ r.kind = "edit" /\ r.saw < hist.officeRec
        /\ \/ n.state = "pending" /\ n.server = r.server
           \/ a.status = 409 /\ n.state = "conflict" /\ n.server = a.data
           \/ a.status # 409 /\ n.state = "synced" /\ n.server = a.data
    BY <1>12 DEF Heard, a
  <2>2. /\ office' \in Offices /\ office.ver <= office'.ver /\ office.rec <= office'.rec
        /\ i \in office'.ran \ office.ran =>
             /\ r.kind \in {"patch", "resolve"} /\ r.tok # 0 => r.tok = office.ver
             /\ r.kind = "edit" => r.tok = office.rec
        /\ a.data = NoDetail \/ a.data = Snapshot(office) \/ a.data = Snapshot(office')
        /\ a.status = 409 /\ r.kind \in OfProperty => a.data.has
        /\ a.status # 409 /\ r.kind \in {"patch", "resolve"} => a.data.has
    BY <1>5, <2>1 DEF AnsweredBy
  <2>3. Ahead'
    BY <1>9, <2>1, <2>2
  <2>4. Known(NoDetail) /\ Known(Snapshot(office)) /\ Known(Snapshot(office'))
    BY <1>2, <1>p, <2>2, <2>3, SnapshotTyped DEF Known, NoDetail, Ahead
  <2>5. Known(n.server)
    BY <1>8, <2>1, <2>2, <2>4 DEF SeenOf, Informed
  <2> QED
    BY <1>10, <2>1, <2>2, <2>3, <2>5
<1> QED
  BY <1>1, <1>11, <1>12

LEMMA SeenStep ==
    ASSUME TypeOK, Numbered, CopiesInv, SeenInv, "blind" \notin Windows, [Next]_vars
    PROVE  SeenInv'
<1>t. /\ rows \in [Ids -> Mutations] /\ pass \in WorkPasses /\ office \in Offices /\ detail \in Details
      /\ screen \in [prop : Details, conflict : Ids \cup {0}] /\ hist \in Histories /\ pass.acks \subseteq Ids
  BY DEF TypeOK, WorkPasses
<1>p. Ahead /\ ScreensKnown /\ \A i \in Ids : SeenOf(i)
  BY SeenParts
<1>n. ~NoDetail.has /\ NoRow.kind = "none" /\ NoRow.state = "none" /\ NoRow.server = NoDetail
  BY DEF NoDetail, NoRow
<1>s. Known(Snapshot(office)) /\ Snapshot(office).has
  BY <1>t, <1>p, SnapshotTyped DEF Known, Ahead
<1>0. ASSUME Ahead', ScreensKnown', \A i \in Ids : SeenOf(i)', pass'.acks \subseteq Ids PROVE SeenInv'
  BY <1>0 DEF SeenInv, Ahead, ScreensKnown, SeenOf
<1>1. CASE Queueing
  <2>1. PICK row : Queued(row)
    BY <1>1, QueueCases
  <2>2. /\ rows[NextId].kind = "none" /\ rows'[NextId] = row /\ NextId \in Ids
        /\ \A i \in Ids \ {NextId} : rows'[i] = rows[i]
    BY <2>1, QueuedFields
  <2>3. /\ row.kind \notin {"none", "resolve"} /\ row.state = "pending" /\ row.saw = row.tok /\ row.server = NoDetail
        /\ row.kind = "patch" => row.tok = screen.prop.ver /\ screen.prop.has
        /\ row.kind \in OfProperty => screen.prop.has \/ detail.has
        /\ UNCHANGED <<office, detail, load, pass>>
    BY <2>1 DEF Queued
  <2>4. /\ screen'.conflict = screen.conflict /\ screen'.prop.ver = screen.prop.ver
        /\ screen'.prop.has <=> screen.prop.has
        /\ opt' = opt \/ (opt'.cur = detail /\ screen.prop.has)
    BY <1>1, QueueCases
  <2> HIDE DEF NextId
  <2>5. Ahead'
    BY <1>1, <1>p, <2>3, QueueCases, AheadKept
  <2>6. ScreensKnown'
    <3>1. screen.conflict # 0 => rows'[screen.conflict] = rows[screen.conflict]
      BY <1>t, <1>p, <2>2 DEF ScreensKnown, OfProperty
    <3> QED
      BY <1>p, <2>3, <2>4, <3>1 DEF ScreensKnown, Known
  <2>7. Informed(row)'
    BY <1>p, <1>n, <2>3 DEF ScreensKnown, Informed, Known
  <2>8. ASSUME NEW i \in Ids PROVE SeenOf(i)'
    <3>1. CASE i = NextId
      <4>1. i \notin pass.acks
        BY <2>2, <3>1 DEF CopiesInv, Acked, OfProperty
      <4>2. rows'[i] = row /\ SeenOf(i)
        BY <1>p, <2>2, <3>1
      <4> QED
        BY <2>3, <2>7, <4>1, <4>2 DEF SeenOf, Informed
    <3>2. CASE i # NextId
      BY <1>p, <2>2, <2>3, <3>2, SeenKept
    <3> QED
      BY <3>1, <3>2
  <2> QED
    BY <1>0, <1>t, <2>3, <2>5, <2>6, <2>8
<1>2. CASE Sent
  BY <1>2, SeenSent
<1>3. CASE PassBegin
  <2>1. UNCHANGED <<office, detail, screen, load, opt, hist>> /\ pass'.acks = {}
    BY <1>3, BeginCases
  <2>2. ASSUME NEW i \in Ids
        PROVE  rows'[i] = rows[i] \/ /\ Same(rows'[i], rows[i]) /\ rows'[i].state = "pending"
                                     /\ rows'[i].server = rows[i].server
    BY <1>3, BeginCases
  <2>3. ASSUME NEW i \in Ids PROVE SeenOf(i)'
    <3>1. SeenOf(i)
      BY <1>p
    <3>2. Informed(rows[i])'
      BY <2>1, <2>2, <3>1 DEF SeenOf, Informed, Same
    <3>3. pass'.snap[i] = NoRow \/ (pass'.snap[i] = rows'[i] /\ rows'[i].state # "synced")
      BY <1>3, BeginCases
    <3> QED
      BY <1>n, <2>1, <3>2, <3>3 DEF SeenOf, Informed, Known, OfProperty
  <2>4. Ahead'
    BY <1>p, <2>1, AheadKept
  <2>5. ScreensKnown'
    BY <1>p, <2>1, <2>2, ScreensKept DEF Same
  <2> QED
    BY <1>0, <2>1, <2>3, <2>4, <2>5
<1>4. CASE PassWrite
  <2>1. UNCHANGED <<office, detail, screen, load, opt, hist>>
    BY <1>4, WriteCases
  <2>2. ASSUME NEW i \in Ids
        PROVE  /\ pass'.snap[i] = NoRow
               /\ rows'[i] = rows[i] \/ (rows'[i] = pass.snap[i] /\ pass.snap[i].kind = rows[i].kind)
    BY <1>4, WriteCases DEF CopiesInv, CopyOf
  <2>3. ASSUME NEW i \in Ids PROVE SeenOf(i)'
    <3>1. SeenOf(i)
      BY <1>p
    <3>2. i \in pass'.acks => i \in pass.sent /\ pass.snap[i].state = "synced" /\ pass.snap[i].kind \in OfProperty
      BY <1>4, WriteCases
    <3>3. i \in pass'.acks => pass.snap[i].kind # "none" /\ Live(i)
      BY <3>2 DEF CopiesInv, CopyOf, InPass, Live, OfProperty
    <3>4. i \in pass'.acks => rows'[i] = pass.snap[i]
      BY <1>4, <3>3, WriteCases
    <3> QED
      BY <1>n, <2>1, <2>2, <3>1, <3>2, <3>4 DEF SeenOf, Informed, Known, OfProperty
  <2>4. Ahead'
    BY <1>p, <2>1, AheadKept
  <2>5. ScreensKnown'
    BY <1>p, <2>1, <2>2, ScreensKept
  <2>6. pass'.acks \subseteq Ids
    BY <1>4, WriteCases DEF WorkPasses
  <2> QED
    BY <1>0, <2>3, <2>4, <2>5, <2>6
<1>5. CASE PassAck
  <2>1. PICK i \in pass.acks : /\ pass' = [pass EXCEPT !.acks = @ \ {i}]
                               /\ detail' = reconcilePropertyDetail(i, rows[i], detail)
                               /\ rows' = [rows EXCEPT ![i] = [rows[i] EXCEPT !.server = NoDetail]]
    BY <1>5, AckCases
  <2>2. i \in Ids /\ rows[i] \in Mutations /\ rows[i].kind \in OfProperty /\ rows[i].state = "synced" /\ SeenOf(i)
    BY <1>t, <1>p, <2>1 DEF CopiesInv, Acked
  <2>3. UNCHANGED <<office, screen, load, opt, hist>>
    BY <1>5, AckCases
  <2>4. detail'.has /\ Known(detail')
    <3>1. rows[i].kind \in {"patch", "resolve"} => detail' = rows[i].server
      BY <1>t, <2>1, <2>2, Reconciled
    <3>2. rows[i].kind \notin {"patch", "resolve"} => detail'.has /\ detail'.ver = detail.ver
      BY <1>t, <2>1, <2>2, Reconciled
    <3>3. detail.has /\ Known(detail)
      BY <1>p, <2>2 DEF SeenOf, Informed, ScreensKnown
    <3>4. rows[i].kind \in {"patch", "resolve"} => rows[i].server.has /\ Known(rows[i].server)
      BY <2>1, <2>2 DEF SeenOf, Informed
    <3> QED
      BY <3>1, <3>2, <3>3, <3>4 DEF Known
  <2>5. LET r == [rows[i] EXCEPT !.server = NoDetail]
        IN  /\ r.kind = rows[i].kind /\ r.state = rows[i].state /\ r.tok = rows[i].tok /\ r.saw = rows[i].saw
            /\ r.server = NoDetail
    BY <2>2 DEF Mutations
  <2>6. pass'.snap = pass.snap /\ pass'.acks = pass.acks \ {i}
    BY <1>t, <2>1 DEF WorkPasses
  <2>7. /\ rows'[i].kind = rows[i].kind /\ rows'[i].state = rows[i].state /\ rows'[i].tok = rows[i].tok
        /\ rows'[i].saw = rows[i].saw /\ rows'[i].server = NoDetail
        /\ \A k \in Ids \ {i} : rows'[k] = rows[k]
    BY <1>t, <2>1, <2>2, <2>5
  <2>8. ASSUME NEW k \in Ids PROVE SeenOf(k)'
    <3>1. SeenOf(k)
      BY <1>p
    <3>2. CASE k = i
      BY <1>n, <2>2, <2>4, <2>6, <2>7, <3>2 DEF SeenOf, Informed, Known
    <3>3. CASE k # i
      BY <2>4, <2>6, <2>7, <3>1, <3>3 DEF SeenOf, Informed, Known
    <3> QED
      BY <3>2, <3>3
  <2>9. Ahead'
    BY <1>p, <2>3, AheadKept
  <2>10. ScreensKnown'
    <3>1. screen.conflict # 0 => rows'[screen.conflict].kind = rows[screen.conflict].kind
      BY <1>t, <2>7
    <3> QED
      BY <1>p, <2>3, <2>4, <3>1 DEF ScreensKnown, Known
  <2> QED
    BY <1>0, <1>t, <2>6, <2>8, <2>9, <2>10
<1>6. CASE PassEnd \/ Crash
  <2>1. rows' = rows /\ pass' = NoPass /\ office' = office /\ detail' = detail
    BY <1>6 DEF PassEnd, Crash, device
  <2>2. pass'.acks = {} /\ \A k \in Ids : pass'.snap[k] = NoRow
    BY <2>1 DEF NoPass
  <2>3. ASSUME NEW k \in Ids PROVE SeenOf(k)'
    <3>1. SeenOf(k)
      BY <1>p
    <3> QED
      BY <1>n, <2>1, <2>2, <3>1 DEF SeenOf, Informed, Known, OfProperty
  <2>4. hist' = hist \/ hist' = Spend(hist)
    BY <1>6 DEF PassEnd, Crash
  <2>5. Ahead'
    BY <1>t, <1>p, <2>1, <2>4, SpentTyped, AheadKept
  <2>6. ScreensKnown'
    <3>1. CASE PassEnd
      <4>1. UNCHANGED <<detail, screen, load, opt>>
        BY <3>1 DEF PassEnd, device
      <4> QED
        BY <1>p, <2>1, <4>1, ScreensKept
    <3>2. CASE Crash
      <4>1. screen' = NoScreen /\ load' = NoLoad /\ opt' = NoOpt
        BY <3>2 DEF Crash
      <4>2. /\ screen'.prop = NoDetail /\ screen'.conflict = 0 /\ load'.st = "idle" /\ load'.snap = NoDetail
            /\ opt'.st = "idle" /\ opt'.cur = NoDetail
        BY <4>1 DEF NoScreen, NoLoad, NoOpt
      <4> QED
        BY <1>p, <1>n, <2>1, <4>2 DEF ScreensKnown, Known
    <3> QED
      BY <1>6, <3>1, <3>2
  <2> QED
    BY <1>0, <2>2, <2>3, <2>5, <2>6
<1>7. ASSUME NEW i \in Ids, replacePhoto(i) PROVE SeenInv'
  <2>1. UNCHANGED <<office, detail, screen, load, opt, pass>> /\ rows[i].kind = "photo"
    BY <1>7, ReplaceCases
  <2>2. PICK r \in Mutations : /\ rows' = [rows EXCEPT ![i] = r] /\ r.kind = "photo" /\ r.state = "pending"
                               /\ r.tok = rows[i].tok /\ r.saw = rows[i].saw /\ r.server = rows[i].server
    BY <1>7, ReplaceCases
  <2>3. rows'[i] = r /\ \A k \in Ids \ {i} : rows'[k] = rows[k]
    BY <1>t, <2>2
  <2>4. ASSUME NEW k \in Ids PROVE SeenOf(k)'
    <3>1. SeenOf(k)
      BY <1>p
    <3>2. CASE k = i
      BY <2>1, <2>2, <2>3, <3>1, <3>2 DEF SeenOf, Informed, OfProperty
    <3>3. CASE k # i
      BY <2>1, <2>3, <3>1, <3>3, SeenKept
    <3> QED
      BY <3>2, <3>3
  <2>5. Ahead'
    BY <1>7, <1>p, <2>1, ReplaceCases, AheadKept
  <2>6. ScreensKnown'
    <3>1. \A k \in Ids : rows'[k].kind = rows[k].kind
      BY <2>1, <2>2, <2>3
    <3> QED
      BY <1>p, <2>1, <3>1, ScreensKept
  <2> QED
    BY <1>0, <1>t, <2>1, <2>4, <2>5, <2>6
<1>8. ASSUME NEW i \in Ids, removeItem(i) PROVE SeenInv'
  <2>1. UNCHANGED <<office, detail, screen, load, opt, pass, hist>> /\ rows[i].kind = "photo" /\ Dropped(i)
    BY <1>8, DropCases DEF removeItem, device
  <2>2. PICK r \in Mutations : /\ rows' = [rows EXCEPT ![i] = r] /\ Same(r, rows[i]) /\ r.state = "removed"
                               /\ r.server = rows[i].server
    BY <2>1 DEF Dropped
  <2>3. rows'[i] = r /\ \A k \in Ids \ {i} : rows'[k] = rows[k]
    BY <1>t, <2>2
  <2>4. i \notin pass.acks
    BY <2>1 DEF CopiesInv, Acked, OfProperty
  <2>5. ASSUME NEW k \in Ids PROVE SeenOf(k)'
    <3>1. CASE k = i
      BY <1>p, <2>1, <2>2, <2>3, <2>4, <3>1, SeenChanged
    <3>2. CASE k # i
      BY <1>p, <2>1, <2>3, <3>2, SeenKept
    <3> QED
      BY <3>1, <3>2
  <2>6. Ahead'
    BY <1>p, <2>1, AheadKept
  <2>7. ScreensKnown'
    <3>1. \A k \in Ids : rows'[k].kind = rows[k].kind
      BY <2>2, <2>3 DEF Same
    <3> QED
      BY <1>p, <2>1, <3>1, ScreensKept
  <2> QED
    BY <1>0, <1>t, <2>1, <2>5, <2>6, <2>7
<1>9. ASSUME NEW i \in Ids, rows[i].state = "conflict", screen.conflict = i, Reload, pass' = pass, office' = office,
             opt' = opt, hist' = hist, Known(detail'), detail.has => detail'.has
      PROVE  /\ i \notin pass.acks /\ Ahead' /\ ScreensKnown'
             /\ rows[i].kind \in OfProperty /\ rows[i].server.has /\ Known(rows[i].server)
  <2>1. i # 0
    BY Bounds DEF Ids
  <2>2. rows[i].kind \in OfProperty /\ SeenOf(i)
    BY <1>9, <1>p, <2>1 DEF ScreensKnown
  <2>3. rows[i].server.has /\ Known(rows[i].server)
    BY <1>9, <2>2 DEF SeenOf, Informed
  <2>4. i \notin pass.acks
    BY <1>9 DEF CopiesInv, Acked
  <2>5. screen'.prop = screen.prop /\ screen'.conflict = 0 /\ load'.st = "sent" /\ load'.snap = Snapshot(office)
    BY <1>9, ReloadTyped
  <2>6. ScreensKnown'
    BY <1>9, <1>p, <1>s, <2>5 DEF ScreensKnown, Known
  <2>7. Ahead'
    BY <1>9, <1>p, AheadKept
  <2> QED
    BY <2>2, <2>3, <2>4, <2>6, <2>7
<1>10. ASSUME NEW i \in Ids, useServer(i) \/ keepLocal(i) PROVE SeenInv'
  <2>1. rows[i].state = "conflict" /\ screen.conflict = i /\ Reload /\ pass' = pass /\ office' = office
        /\ opt' = opt /\ hist' = hist
    BY <1>10, ServerCases, KeepCases
  <2>2. detail' = detail \/ (rows[i].server.has /\ detail' = rows[i].server)
    BY <1>10, ServerCases, KeepCases
  <2>3. Known(detail') /\ (detail.has => detail'.has)
    BY <1>p, <2>2 DEF ScreensKnown, SeenOf, Informed
  <2>4. PICK r : /\ rows' = [rows EXCEPT ![i] = r] /\ Same(r, rows[i]) /\ r.state # "conflict"
                 /\ r.server = rows[i].server \/ r.server = NoDetail
    BY <1>10, ServerCases, KeepCases DEF Dropped
  <2>5. rows'[i] = r /\ \A k \in Ids \ {i} : rows'[k] = rows[k]
    BY <1>t, <2>4
  <2>6. i \notin pass.acks /\ Ahead' /\ ScreensKnown'
    BY <1>9, <2>1, <2>3
  <2>7. ASSUME NEW k \in Ids PROVE SeenOf(k)'
    <3>1. CASE k = i
      BY <1>p, <2>1, <2>3, <2>4, <2>5, <2>6, <3>1, SeenChanged
    <3>2. CASE k # i
      BY <1>p, <2>1, <2>3, <2>5, <3>2, SeenKept
    <3> QED
      BY <3>1, <3>2
  <2> QED
    BY <1>0, <1>t, <2>1, <2>6, <2>7
<1>11. ASSUME NEW i \in Ids, applyMergeMine(i) PROVE SeenInv'
  <2>1. rows[i].state = "conflict" /\ screen.conflict = i /\ Reload /\ pass' = pass /\ office' = office
        /\ opt' = opt /\ hist' = hist /\ NextId \in Ids
    BY <1>11, MergeCases
  <2>2. PICK r \in Mutations, m \in Mutations :
          /\ rows' = [rows EXCEPT ![i] = r, ![NextId] = m]
          /\ Same(r, rows[i]) /\ r.state = "removed" /\ r.server = rows[i].server
          /\ m.kind = "resolve" /\ m.state = "pending" /\ m.saw = m.tok /\ m.tok = rows[i].server.ver
          /\ m.server = NoDetail
    BY <1>11, MergeCases
  <2>3. detail'.ver = rows[i].server.ver /\ (detail'.has <=> rows[i].server.has)
    BY <1>11, MergeCases
  <2>4. rows[i].kind \in OfProperty /\ rows[i].server.has /\ Known(rows[i].server)
    <3>1. i # 0 /\ SeenOf(i)
      BY <1>p, Bounds DEF Ids
    <3> QED
      BY <1>p, <2>1, <3>1 DEF ScreensKnown, SeenOf, Informed
  <2>5. Known(detail') /\ detail'.has
    BY <2>3, <2>4 DEF Known
  <2>6. i \notin pass.acks /\ Ahead' /\ ScreensKnown'
    BY <1>9, <2>1, <2>5
  <2>7. rows[NextId].kind = "none" /\ rows[i].kind # "none"
    BY <2>1, <2>4, FreeNumber DEF OfProperty
  <2> HIDE DEF NextId
  <2>8. rows'[i] = r /\ rows'[NextId] = m /\ \A k \in Ids \ {i, NextId} : rows'[k] = rows[k]
    BY <1>t, <2>1, <2>2, <2>7
  <2>9. ASSUME NEW k \in Ids PROVE SeenOf(k)'
    <3>1. SeenOf(k)
      BY <1>p
    <3>2. CASE k = i
      BY <1>p, <2>1, <2>2, <2>5, <2>6, <2>8, <3>2, SeenChanged
    <3>3. CASE k = NextId
      <4>1. k \notin pass.acks
        BY <2>7, <3>3 DEF CopiesInv, Acked, OfProperty
      <4>2. rows'[k] = m /\ m.tok # 0
        BY <2>2, <2>4, <2>8, <3>3 DEF Known
      <4>3. Informed(m)'
        BY <1>n, <2>2, <2>5, <4>2 DEF Informed, Known
      <4> QED
        BY <2>1, <2>5, <3>1, <4>1, <4>2, <4>3 DEF SeenOf, Informed
    <3>4. CASE k \notin {i, NextId}
      BY <2>1, <2>5, <2>8, <3>1, <3>4, SeenKept
    <3> QED
      BY <3>2, <3>3, <3>4
  <2> QED
    BY <1>0, <1>t, <2>1, <2>6, <2>9
<1>12. CASE patchCachedDetail
  <2>1. /\ detail' = Patched(opt, opt.cur) /\ opt' = NoOpt /\ opt.st = "put"
        /\ UNCHANGED <<office, rows, screen, load, pass, hist>>
    BY <1>12 DEF patchCachedDetail
  <2>2. opt \in Patches /\ opt.cur \in Details /\ opt.id \in Ids
    BY <2>1 DEF TypeOK, Patches
  <2>3. detail'.has /\ detail'.ver = opt.cur.ver
    BY <2>1, <2>2, PatchedTyped
  <2>4. Known(detail')
    BY <1>p, <2>1, <2>3 DEF ScreensKnown, Known
  <2>5. NoOpt.st = "idle" /\ NoOpt.cur = NoDetail
    BY DEF NoOpt
  <2>6. ScreensKnown'
    BY <1>n, <1>p, <2>1, <2>3, <2>4, <2>5 DEF ScreensKnown, Known
  <2>7. Ahead'
    BY <1>p, <2>1, AheadKept
  <2>8. \A i \in Ids : SeenOf(i)'
    BY <1>p, <2>1, <2>3, SeenKept
  <2> QED
    BY <1>0, <1>t, <2>1, <2>6, <2>7, <2>8
<1>13. CASE Loading
  <2>1. UNCHANGED <<office, rows, opt, pass>>
    BY <1>13, LoadCases
  <2>2. Ahead'
    BY <1>13, <1>p, <2>1, LoadCases, AheadKept
  <2>3. \/ screen' = screen /\ detail' = detail /\ load' = [st |-> "sent", snap |-> Snapshot(office)]
        \/ /\ screen' = [prop |-> detail', conflict |-> conflictMutationForProperty]
           /\ load' = NoLoad /\ (detail' = detail \/ (detail' = load.snap /\ load.snap.has))
    BY <1>13, <1>p, LoadCases DEF ScreensKnown
  <2>4. NoLoad.st = "idle" /\ NoLoad.snap = NoDetail
    BY DEF NoLoad
  <2>5. Known(detail') /\ (detail.has => detail'.has)
    BY <1>p, <2>3 DEF ScreensKnown
  <2>6. ScreensKnown'
    <3>1. CASE screen' = screen /\ detail' = detail /\ load' = [st |-> "sent", snap |-> Snapshot(office)]
      BY <1>p, <1>s, <2>1, <3>1 DEF ScreensKnown, Known
    <3>2. CASE screen' = [prop |-> detail', conflict |-> conflictMutationForProperty] /\ load' = NoLoad
      <4>1. screen'.prop = detail' /\ screen'.conflict = conflictMutationForProperty /\ load'.st = "idle"
            /\ load'.snap = NoDetail
        BY <2>4, <3>2
      <4>2. screen'.conflict # 0 => rows'[screen'.conflict].kind \in OfProperty
        BY <2>1, <4>1, ConflictShown
      <4> QED
        BY <1>n, <1>p, <2>1, <2>5, <4>1, <4>2 DEF ScreensKnown, Known
    <3> QED
      BY <2>3, <3>1, <3>2
  <2>7. \A i \in Ids : SeenOf(i)'
    BY <1>p, <2>1, <2>5, SeenKept
  <2> QED
    BY <1>0, <1>t, <2>1, <2>2, <2>6, <2>7
<1>14. ASSUME UNCHANGED <<rows, detail, screen, load, opt, pass>>, Ahead' PROVE SeenInv'
  <2>1. ScreensKnown'
    BY <1>14, <1>p, ScreensKept
  <2>2. \A i \in Ids : SeenOf(i)'
    BY <1>14, <1>p, SeenKept
  <2> QED
    BY <1>0, <1>14, <1>t, <2>1, <2>2
<1>15. CASE OfficeEditsProperty
  <2>1. office' = [office EXCEPT !.dnk = ~@, !.ver = @ + 1]
        /\ hist' = [Spend(hist) EXCEPT !.officeVer = office.ver + 1, !.overtaken = @ \/ Overtakes(office')]
        /\ UNCHANGED <<rows, device, pass>>
    BY <1>15 DEF OfficeEditsProperty
  <2>2. office.ver \in Nat /\ office.rec \in Nat /\ office'.ver = office.ver + 1 /\ office'.rec = office.rec
    BY <1>t, <2>1 DEF Offices
  <2>3. hist'.officeVer = office.ver + 1 /\ hist'.officeRec = hist.officeRec /\ (hist'.blind <=> hist.blind)
    BY <1>t, <2>1, SpentTyped DEF Histories
  <2>4. Ahead'
    BY <1>p, <2>2, <2>3 DEF Ahead
  <2> QED
    BY <1>14, <2>1, <2>4 DEF device
<1>16. CASE OfficeEditsRecord
  <2>1. office' = [office EXCEPT !.rec = @ + 1] /\ hist' = [Spend(hist) EXCEPT !.officeRec = office.rec + 1]
        /\ UNCHANGED <<rows, device, pass>>
    BY <1>16 DEF OfficeEditsRecord
  <2>2. office.ver \in Nat /\ office.rec \in Nat /\ office'.ver = office.ver /\ office'.rec = office.rec + 1
    BY <1>t, <2>1 DEF Offices
  <2>3. hist'.officeVer = hist.officeVer /\ hist'.officeRec = office.rec + 1 /\ (hist'.blind <=> hist.blind)
    BY <1>t, <2>1, SpentTyped DEF Histories
  <2>4. Ahead'
    BY <1>p, <2>2, <2>3 DEF Ahead
  <2> QED
    BY <1>14, <2>1, <2>4 DEF device
<1>17. CASE Quiet
  <2>1. Ahead'
    BY <1>17, <1>p, QuietCases, AheadKept
  <2> QED
    BY <1>14, <1>17, <2>1, QuietCases
<1>18. CASE UNCHANGED vars
  <2>1. Ahead'
    BY <1>18, <1>p, AheadKept DEF vars
  <2> QED
    BY <1>14, <1>18, <2>1 DEF vars
<1> QED
  BY <1>1, <1>2, <1>3, <1>4, <1>5, <1>6, <1>7, <1>8, <1>10, <1>11, <1>12, <1>13, <1>15, <1>16, <1>17, <1>18, NextCases

-----------------------------------------------------------------------------
(* What the cached property shows once every row is settled *)

Changing == {"visit", "patch", "resolve"}
Unsettled(r) == r.state \in {"pending", "failed", "conflict"}

(* What Office o answered at some time, and what it answered about no mutation of the device. *)
Fresh(o, d) == d.ver <= o.ver /\ (d.ver = o.ver => (d.dnk <=> o.dnk))
Snapped(o, d) == Fresh(o, d) /\ d.waiting = {}

(* A flag v shown before Office has it: an unsettled mutation of m that Office has not run sets it. *)
Sets(r, v) == r.kind \in Changing /\ Unsettled(r) /\ (r.val <=> v) /\ (r.kind = "visit" => v)
Expected(o, m, v) == \E j \in Ids \ o.ran : Sets(m[j], v)
Explained(o, m, h, d) == d.ver <= o.ver /\ (h.overtaken \/ Fresh(o, d) \/ Expected(o, m, d.dnk))

(* Every placeholder of a visit is replaced when a mutation that is not settled yet is. *)
Awaited ==
    detail.waiting # {} => \E i \in Ids : /\ rows[i].kind \in Changing
                                          /\ Unsettled(rows[i]) \/ i \in pass.acks
(* The patch still to be written belongs to a mutation the pass has not sent. *)
OwnRow ==
    opt.st = "put" =>
        /\ opt.id \in Ids \ office.ran /\ opt.kind \in {"visit", "patch"}
        /\ rows[opt.id].kind = opt.kind /\ rows[opt.id].val = opt.val /\ rows[opt.id].state = "pending"
        /\ pass.snap[opt.id].state \in {"none", "pending"}
        /\ Explained(office, rows, hist, opt.cur)
(* The flag of a Do Not Knock visit Office has run stands until it is reconciled. *)
Stands(i) == /\ rows[i].kind = "visit" /\ rows[i].val
             /\ rows[i].state # "synced" \/ i \in pass.acks
FlagStands == hist.overtaken \/ office.dnk \/ \A i \in office.ran : ~Stands(i)
RowOf(i) ==
    /\ Snapped(office, rows[i].server) /\ Snapped(office, pass.snap[i].server)
    /\ pass.snap[i].kind # "none" => pass.snap[i].val = rows[i].val /\ rows[i].state # "synced"
    /\ i \in office.ran => rows[i].kind # "none"
    /\ pass.snap[i].state # "removed" /\ (pass.snap[i].state = "synced" => i \in pass.sent)
CacheInv ==
    /\ Explained(office, rows, hist, detail) /\ Awaited /\ Snapped(office, load.snap)
    /\ OwnRow /\ FlagStands /\ \A i \in Ids : RowOf(i)

(* Office answers with what it has, and a version it has left never comes back. *)
LEMMA FreshSnapshot ==
    ASSUME NEW o \in Offices
    PROVE  Snapped(o, Snapshot(o)) /\ (o.ver # 0 => Snapped(o, NoDetail))
<1>1. o.ver \in Nat /\ o.dnk \in BOOLEAN
  BY DEF Offices
<1>2. NoDetail.ver = 0 /\ NoDetail.waiting = {}
  BY DEF NoDetail
<1>3. Snapshot(o).ver = o.ver /\ Snapshot(o).dnk = o.dnk /\ Snapshot(o).waiting = {}
  BY DEF Snapshot
<1> QED
  BY <1>1, <1>2, <1>3 DEF Snapped, Fresh

Forward(o, p) == o.ver \in Nat /\ p.ver \in Nat /\ o.ver <= p.ver /\ (o.ver = p.ver => (o.dnk <=> p.dnk))

LEMMA FreshKept ==
    ASSUME NEW o, NEW p, Forward(o, p), NEW d \in Details
    PROVE  /\ Fresh(o, d) => Fresh(p, d)
           /\ Snapped(o, d) => Snapped(p, d)
           /\ d.ver <= o.ver => d.ver <= p.ver
<1>1. d.ver \in Nat
  BY DEF Details
<1> QED
  BY <1>1 DEF Fresh, Snapped, Forward

LEMMA ExplainedKept ==
    ASSUME NEW o, NEW p, NEW m, NEW n, NEW h, NEW g, NEW d \in Details,
           Forward(o, p), Explained(o, m, h, d), h.overtaken => g.overtaken,
           \A j \in Ids \ o.ran : m[j].kind \in Changing /\ Unsettled(m[j]) =>
               /\ j \notin p.ran /\ n[j].kind = m[j].kind /\ (n[j].val <=> m[j].val) /\ Unsettled(n[j])
    PROVE  Explained(p, n, g, d)
<1>1. d.ver <= p.ver /\ (Fresh(o, d) => Fresh(p, d))
  BY FreshKept DEF Explained
<1>2. ASSUME NEW j \in Ids \ o.ran, Sets(m[j], d.dnk)  PROVE Expected(p, n, d.dnk)
  <2>1. j \in Ids \ p.ran /\ Sets(n[j], d.dnk)
    BY <1>2 DEF Sets
  <2> QED
    BY <2>1 DEF Expected
<1> QED
  BY <1>1, <1>2 DEF Explained, Expected

-----------------------------------------------------------------------------
(* What a handler does to the flag *)

Turned(i, r, o) ==
    /\ Forward(office, o) /\ office.ran \subseteq o.ran /\ o.ran \subseteq office.ran \cup {i}
    /\ i \in o.ran \ office.ran => /\ r.kind \in {"patch", "resolve"} => (o.dnk <=> r.val)
                                   /\ r.kind = "visit" /\ r.val => o.dnk

LEMMA NothingTurned == ASSUME TypeOK, NEW i, NEW r PROVE Turned(i, r, office)
<1>1. office.ver \in Nat
  BY DEF TypeOK, Offices
<1> QED
  BY <1>1 DEF Turned, Forward

LEMMA HandlerTurns ==
    ASSUME TypeOK, NEW i \in Ids, NEW r \in Mutations
    PROVE  Turned(i, r, Handle(i, r).office)
<1>t. office \in Offices /\ office.ver \in Nat /\ office.dnk \in BOOLEAN /\ r.val \in BOOLEAN
  BY DEF TypeOK, Offices, Mutations
<1>1. ASSUME NEW status, NEW data  PROVE Turned(i, r, Answer(office, status, data).office)
  BY NothingTurned, AnswerFields
<1>2. CASE r.kind = "visit"
  <2> DEFINE n == IF r.val /\ ~office.dnk THEN 1 ELSE 0
             o == [office EXCEPT !.visits[i] = @ + 1, !.keys = @ \cup {i}, !.ran = @ \cup {i},
                                 !.dnk = @ \/ r.val, !.ver = @ + (IF r.val /\ ~office.dnk THEN 1 ELSE 0)]
  <2>1. o.ran = office.ran \cup {i} /\ o.ver = office.ver + n /\ (o.dnk <=> (office.dnk \/ r.val))
    BY <1>t DEF Offices
  <2>2. office.ver + n \in Nat /\ office.ver <= office.ver + n /\ (n = 0 \/ office.ver # office.ver + n)
    BY <1>t
  <2>3. n = 0 => (office.dnk <=> (office.dnk \/ r.val))
    OBVIOUS
  <2> HIDE DEF n, o
  <2>4. Turned(i, r, o)
    BY <1>2, <1>t, <2>1, <2>2, <2>3 DEF Turned, Forward
  <2>5. Turned(i, r, Answer(o, 201, NoDetail).office)
    BY <2>4, AnswerFields
  <2>6. Handle(i, r) = create_visit(i, r)
    BY <1>2 DEF Handle
  <2> QED
    BY <1>1, <2>5, <2>6 DEF create_visit, Refusal, o
<1>3. CASE r.kind \in {"patch", "resolve"}
  <2> DEFINE n == IF r.kind = "resolve" \/ r.val # office.dnk THEN 1 ELSE 0
             o == [office EXCEPT !.dnk = r.val, !.ran = @ \cup {i},
                                 !.ver = @ + (IF r.kind = "resolve" \/ r.val # office.dnk THEN 1 ELSE 0)]
  <2>1. o.ran = office.ran \cup {i} /\ o.ver = office.ver + n /\ o.dnk = r.val
    BY <1>t DEF Offices
  <2>2. office.ver + n \in Nat /\ office.ver <= office.ver + n /\ (n = 0 \/ office.ver # office.ver + n)
    BY <1>t
  <2>3. n = 0 => r.val = office.dnk
    OBVIOUS
  <2> HIDE DEF n, o
  <2>4. Turned(i, r, o)
    BY <1>3, <1>t, <2>1, <2>2, <2>3 DEF Turned, Forward
  <2>5. Turned(i, r, Answer(o, 200, Snapshot(o)).office)
    BY <2>4, AnswerFields
  <2>6. Handle(i, r) = patch_property(i, r)
    BY <1>3 DEF Handle
  <2> QED
    BY <1>1, <2>5, <2>6 DEF patch_property, Refusal, o
<1>4. ASSUME NEW o, o.ver = office.ver, o.dnk = office.dnk, o.ran = office.ran \cup {i}, r.kind \notin Changing,
             NEW status, NEW data
      PROVE  Turned(i, r, Answer(o, status, data).office)
  <2>1. Turned(i, r, o)
    BY <1>4, <1>t DEF Turned, Forward, Changing
  <2> QED
    BY <2>1, AnswerFields
<1>5. CASE r.kind = "lead"
  <2> DEFINE o == [office EXCEPT !.leads = IF @ = {} THEN {i} ELSE @, !.keys = @ \cup {i}, !.ran = @ \cup {i}]
  <2>1. o.ver = office.ver /\ o.dnk = office.dnk /\ o.ran = office.ran \cup {i}
    BY <1>t DEF Offices
  <2> HIDE DEF o
  <2>2. Turned(i, r, Answer(o, 201, NoDetail).office)
    BY <1>4, <1>5, <2>1 DEF Changing
  <2>3. Handle(i, r) = create_lead(i, r)
    BY <1>5 DEF Handle
  <2> QED
    BY <1>1, <2>2, <2>3 DEF create_lead, o
<1>6. CASE r.kind = "edit"
  <2> DEFINE o == [office EXCEPT !.rec = @ + 1, !.ran = @ \cup {i}]
  <2>1. o.ver = office.ver /\ o.dnk = office.dnk /\ o.ran = office.ran \cup {i}
    BY <1>t DEF Offices
  <2> HIDE DEF o
  <2>2. Turned(i, r, Answer(o, 200, NoDetail).office)
    BY <1>4, <1>6, <2>1 DEF Changing
  <2>3. Handle(i, r) = update_record(i, r)
    BY <1>6 DEF Handle
  <2> QED
    BY <1>1, <2>2, <2>3 DEF update_record, o
<1>7. CASE r.kind = "inspection"
  <2> DEFINE o == [office EXCEPT !.insps[i] = @ + 1, !.keys = @ \cup {i}, !.ran = @ \cup {i}]
  <2>1. o.ver = office.ver /\ o.dnk = office.dnk /\ o.ran = office.ran \cup {i}
    BY <1>t DEF Offices
  <2> HIDE DEF o
  <2>2. Turned(i, r, Answer(o, 201, NoDetail).office)
    BY <1>4, <1>7, <2>1 DEF Changing
  <2>3. Handle(i, r) = create_inspection(i, r)
    BY <1>7 DEF Handle
  <2> QED
    BY <1>1, <2>2, <2>3 DEF create_inspection, o
<1>8. CASE r.kind = "archive"
  <2> DEFINE o == [office EXCEPT !.arch = TRUE, !.ran = @ \cup {i}, !.rec = @ + (IF office.arch THEN 0 ELSE 1)]
  <2>1. o.ver = office.ver /\ o.dnk = office.dnk /\ o.ran = office.ran \cup {i}
    BY <1>t DEF Offices
  <2> HIDE DEF o
  <2>2. Turned(i, r, Answer(o, 200, NoDetail).office)
    BY <1>4, <1>8, <2>1 DEF Changing
  <2>3. Handle(i, r) = archive_lead(i, r)
    BY <1>8 DEF Handle
  <2> QED
    BY <2>2, <2>3 DEF archive_lead, o
<1>9. CASE r.kind \notin {"visit", "patch", "resolve", "lead", "edit", "inspection", "archive"}
  <2> DEFINE o == [office EXCEPT !.photos[i] = @ \cup {r.file}, !.keys = @ \cup {i}, !.ran = @ \cup {i}]
  <2>1. o.ver = office.ver /\ o.dnk = office.dnk /\ o.ran = office.ran \cup {i}
    BY <1>t DEF Offices
  <2> HIDE DEF o
  <2>2. Turned(i, r, Answer(o, 201, NoDetail).office)
    BY <1>4, <1>9, <2>1 DEF Changing
  <2>3. Handle(i, r) = upload_photo(i, r)
    BY <1>9 DEF Handle
  <2> QED
    BY <1>1, <2>2, <2>3 DEF upload_photo, o
<1> QED
  BY <1>2, <1>3, <1>5, <1>6, <1>7, <1>8, <1>9

-----------------------------------------------------------------------------
(* Steps that only move mutations *)

(* Office is in the state it was in, as far as the flag goes. *)
OfficeSame == /\ Forward(office, office') /\ (office'.dnk <=> office.dnk) /\ office'.ran = office.ran
              /\ hist.overtaken => hist'.overtaken

(* Mutation i is what it was, in another state, or it is new. *)
Moved(i) ==
    \/ /\ rows'[i].kind = rows[i].kind /\ rows'[i].val = rows[i].val
       /\ rows'[i].state = rows[i].state \/ (rows[i].state # "synced" /\ rows'[i].state # "synced")
       /\ rows'[i].server \in {rows[i].server, NoDetail}
    \/ /\ rows[i].kind = "none" /\ rows'[i].kind # "none" /\ rows'[i].state # "synced"
       /\ rows'[i].server = NoDetail
Recopied(i) == \/ pass'.snap[i] = pass.snap[i] /\ pass'.sent = pass.sent
               \/ pass'.snap[i] = NoRow
               \/ pass'.snap[i] = rows'[i] /\ rows'[i].state \notin {"synced", "removed"}
Unmoved == \A i \in Ids : rows[i].kind \in Changing /\ Unsettled(rows[i]) =>
               /\ rows'[i].kind = rows[i].kind /\ rows'[i].val = rows[i].val /\ Unsettled(rows'[i])

LEMMA RowsCarried ==
    ASSUME TypeOK, CopiesInv, CacheInv, office.ver # 0, OfficeSame, pass'.acks \subseteq pass.acks,
           \A i \in Ids : Moved(i) /\ Recopied(i)
    PROVE  FlagStands' /\ \A i \in Ids : RowOf(i)'
<1>t. office \in Offices /\ office.ran \subseteq Ids /\ rows \in [Ids -> Mutations] /\ pass.snap \in [Ids -> Mutations]
  BY DEF TypeOK, Offices, WorkPasses
<1>n. NoRow.kind = "none" /\ NoRow.state = "none" /\ NoRow.server = NoDetail /\ NoDetail \in Details
  BY EmptyValues DEF NoRow
<1>1. ASSUME NEW i \in Ids  PROVE RowOf(i)'
  <2>1. RowOf(i) /\ Moved(i) /\ Recopied(i) /\ rows[i] \in Mutations /\ pass.snap[i] \in Mutations
    BY <1>1, <1>t DEF CacheInv
  <2>2. rows[i].server \in Details /\ pass.snap[i].server \in Details
    BY <2>1 DEF Mutations
  <2>3. Snapped(office, NoDetail)
    BY <1>t, FreshSnapshot
  <2>4. /\ Snapped(office', rows[i].server) /\ Snapped(office', pass.snap[i].server)
        /\ Snapped(office', NoDetail)
    BY <1>n, <2>1, <2>2, <2>3, FreshKept DEF RowOf, OfficeSame
  <2>5. Snapped(office', rows'[i].server)
    BY <2>1, <2>4 DEF Moved
  <2>6. Snapped(office', pass'.snap[i].server)
    BY <1>n, <2>1, <2>4, <2>5 DEF Recopied
  <2>7. rows[i].kind = "none" => i \notin office.ran /\ pass.snap[i].kind = "none"
    BY <2>1 DEF RowOf, CopiesInv, CopyOf
  <2>8. i \in office'.ran => rows'[i].kind # "none"
    BY <2>1 DEF RowOf, Moved, OfficeSame
  <2>9. pass'.snap[i].kind # "none" => pass'.snap[i].val = rows'[i].val /\ rows'[i].state # "synced"
    BY <1>n, <2>1, <2>7 DEF RowOf, Moved, Recopied
  <2>10. pass'.snap[i].state # "removed" /\ (pass'.snap[i].state = "synced" => i \in pass'.sent)
    BY <1>n, <2>1 DEF RowOf, Recopied
  <2> QED
    BY <2>5, <2>6, <2>8, <2>9, <2>10 DEF RowOf
<1>2. ASSUME NEW i \in office.ran, Stands(i)'  PROVE Stands(i)
  <2>1. i \in Ids /\ Moved(i) /\ RowOf(i)
    BY <1>t DEF CacheInv
  <2> QED
    BY <1>2, <2>1 DEF Stands, Moved, RowOf
<1>3. FlagStands'
  BY <1>2 DEF CacheInv, FlagStands, OfficeSame
<1> QED
  BY <1>1, <1>3

LEMMA ShownCarried ==
    ASSUME TypeOK, CacheInv, OfficeSame, Unmoved, pass'.acks = pass.acks, detail' = detail,
           \A i \in Ids : Moved(i)
    PROVE  Explained(office', rows', hist', detail') /\ Awaited'
<1>1. detail \in Details
  BY DEF TypeOK
<1>2. Explained(office', rows', hist', detail)
  <2>1. \A j \in Ids \ office.ran : rows[j].kind \in Changing /\ Unsettled(rows[j]) =>
           /\ j \notin office'.ran /\ rows'[j].kind = rows[j].kind /\ (rows'[j].val <=> rows[j].val)
           /\ Unsettled(rows'[j])
    BY DEF OfficeSame, Unmoved
  <2> QED
    BY <1>1, <2>1, ExplainedKept DEF CacheInv, OfficeSame
<1>3. Awaited'
  <2>1. ASSUME NEW i \in Ids, rows[i].kind \in Changing, Unsettled(rows[i])
        PROVE  rows'[i].kind \in Changing /\ Unsettled(rows'[i])
    BY <2>1 DEF Unmoved
  <2>2. ASSUME NEW i \in Ids, rows[i].kind \in Changing  PROVE rows'[i].kind \in Changing
    BY <2>2 DEF Moved, Changing
  <2> QED
    BY <2>1, <2>2 DEF CacheInv, Awaited
<1> QED
  BY <1>2, <1>3

LEMMA OwnKept ==
    ASSUME TypeOK, CacheInv, OfficeSame, Unmoved, opt' = opt,
           opt.st = "put" => /\ rows'[opt.id].kind = rows[opt.id].kind /\ rows'[opt.id].val = rows[opt.id].val
                             /\ rows'[opt.id].state = rows[opt.id].state
                             /\ pass'.snap[opt.id].state \in {"none", "pending"}
    PROVE  OwnRow'
<1> SUFFICES ASSUME opt.st = "put" PROVE OwnRow'
  BY DEF OwnRow
<1>1. opt.cur \in Details
  BY DEF TypeOK, Patches
<1>2. OwnRow
  BY DEF CacheInv
<1>3. Explained(office', rows', hist', opt.cur)
  <2>1. \A j \in Ids \ office.ran : rows[j].kind \in Changing /\ Unsettled(rows[j]) =>
           /\ j \notin office'.ran /\ rows'[j].kind = rows[j].kind /\ (rows'[j].val <=> rows[j].val)
           /\ Unsettled(rows'[j])
    BY DEF OfficeSame, Unmoved
  <2> QED
    BY <1>1, <1>2, <2>1, ExplainedKept DEF OwnRow, OfficeSame
<1> QED
  BY <1>2, <1>3 DEF OwnRow, OfficeSame

-----------------------------------------------------------------------------
(* The steps of the cached property *)

LEMMA CacheInit == Init => CacheInv
<1> SUFFICES ASSUME Init PROVE CacheInv
  OBVIOUS
<1>1. /\ rows = [i \in Ids |-> NoRow] /\ pass = NoPass /\ detail = NoDetail /\ load = NoLoad /\ opt = NoOpt
      /\ office.ver = 1 /\ office.ran = {}
  BY DEF Init
<1>2. /\ NoRow.kind = "none" /\ NoRow.server = NoDetail /\ NoRow.state = "none"
      /\ (\A i \in Ids : NoPass.snap[i] = NoRow) /\ NoRow.state # "removed"
      /\ NoLoad.snap = NoDetail /\ NoOpt.st = "idle" /\ NoDetail.ver = 0 /\ NoDetail.waiting = {}
  BY DEF NoRow, NoPass, NoLoad, NoOpt, NoDetail
<1>3. Snapped(office, NoDetail)
  BY <1>1, <1>2 DEF Snapped, Fresh
<1>4. \A i \in Ids : RowOf(i)
  BY <1>1, <1>2, <1>3 DEF RowOf
<1>5. Explained(office, rows, hist, detail) /\ Awaited /\ Snapped(office, load.snap) /\ OwnRow /\ FlagStands
  BY <1>1, <1>2, <1>3 DEF Explained, Snapped, Fresh, Awaited, OwnRow, FlagStands
<1> QED
  BY <1>4, <1>5 DEF CacheInv

LEMMA CacheSent ==
    ASSUME TypeOK, CopiesInv, CacheInv, office.ver # 0, "late" \notin Windows, Sent
    PROVE  CacheInv'
<1>t. /\ office \in Offices /\ office.ver \in Nat /\ office.ran \subseteq Ids /\ rows \in [Ids -> Mutations]
      /\ pass \in WorkPasses /\ pass.snap \in [Ids -> Mutations] /\ pass.todo \subseteq Ids
      /\ detail \in Details /\ load.snap \in Details
  BY DEF TypeOK, Offices, WorkPasses
<1>0. PICK i \in pass.todo : \E n : Sends(i, n) /\ (Unheard(i, n) \/ Heard(i, n))
  BY SentCases
<1>1. PICK n : Sends(i, n) /\ (Unheard(i, n) \/ Heard(i, n))
  BY <1>0
<1> DEFINE r == pass.snap[i]
           a == Handle(i, r)
<1>2. i \in Ids /\ r \in Mutations /\ r.kind # "none" /\ r.kind = rows[i].kind
  BY <1>1, <1>t DEF CopiesInv, InPass, CopyOf
<1>3. r.val = rows[i].val /\ Snapped(office, r.server) /\ r.server \in Details
  BY <1>2 DEF CacheInv, RowOf, Mutations
<1>4. Ran(i, r, a) /\ Turned(i, r, a.office)
  BY <1>2, HandlerRan, HandlerTurns
<1>5. /\ UNCHANGED <<rows, detail, load, opt>> /\ opt.id # i /\ n \in Mutations
      /\ n.kind = r.kind /\ n.val = r.val
      /\ pass' = [pass EXCEPT !.todo = @ \ {i}, !.sent = @ \cup {i}, !.snap[i] = n]
  BY <1>1 DEF Sends
<1>6. /\ pass'.snap[i] = n /\ pass'.acks = pass.acks /\ pass'.sent = pass.sent \cup {i}
      /\ n.state # "removed"
      /\ \A k \in Ids \ {i} : pass'.snap[k] = pass.snap[k]
  BY <1>1, <1>2, <1>5, <1>t DEF WorkPasses, Unheard, Heard
<1> HIDE DEF a
<1>7. Turned(i, r, office')
  BY <1>1, <1>4, NothingTurned DEF Unheard, Heard, a
<1>8. /\ Forward(office, office') /\ office.ran \subseteq office'.ran /\ office'.ran \subseteq office.ran \cup {i}
      /\ hist.overtaken => hist'.overtaken
  BY <1>1, <1>7 DEF Turned, Unheard, Heard
<1>9. Snapped(office', n.server)
  <2>1. Snapped(office', r.server)
    BY <1>3, <1>8, FreshKept
  <2>2. CASE n.server = r.server
    BY <2>1, <2>2
  <2>3. CASE office' = a.office /\ n.server = a.data
    <3>1. a.data = NoDetail \/ a.data = Snapshot(office) \/ a.data = Snapshot(office')
      BY <1>4, <2>3 DEF Ran, AnsweredBy
    <3>2. office' \in Offices
      BY <1>4, <2>3 DEF Ran, AnsweredBy
    <3>3. Snapped(office', Snapshot(office)) /\ Snapped(office', NoDetail)
      BY <1>t, <1>8, FreshSnapshot, FreshKept, SnapshotTyped, EmptyValues
    <3>4. Snapped(office', Snapshot(office'))
      BY <3>2, FreshSnapshot
    <3> QED
      BY <2>3, <3>1, <3>3, <3>4
  <2> QED
    BY <1>1, <2>2, <2>3 DEF Unheard, Heard, a
<1>10. ASSUME NEW k \in Ids  PROVE RowOf(k)'
  <2>1. RowOf(k) /\ rows[k] \in Mutations /\ pass.snap[k] \in Mutations
    BY <1>t DEF CacheInv
  <2>2. rows[k].server \in Details /\ pass.snap[k].server \in Details
    BY <2>1 DEF Mutations
  <2>3. Snapped(office', rows[k].server) /\ Snapped(office', pass.snap[k].server)
    BY <1>8, <2>1, <2>2, FreshKept DEF RowOf
  <2>4. k \in office'.ran => rows[k].kind # "none"
    BY <1>2, <1>8, <2>1 DEF RowOf
  <2>5. CASE k = i
    BY <1>2, <1>3, <1>5, <1>6, <1>9, <2>1, <2>3, <2>4, <2>5 DEF RowOf
  <2>6. CASE k # i
    BY <1>5, <1>6, <2>1, <2>3, <2>4, <2>6 DEF RowOf
  <2> QED
    BY <2>5, <2>6
<1>11. ASSUME NEW d \in Details, Explained(office, rows, hist, d)
       PROVE  Explained(office', rows, hist', d)
  <2>1. d.ver \in Nat /\ d.ver <= office'.ver /\ d.ver <= office.ver /\ (Fresh(office, d) => Fresh(office', d))
    BY <1>8, <1>11, FreshKept DEF Explained, Details
  <2>2. ASSUME NEW j \in Ids \ office.ran, Sets(rows[j], d.dnk)
        PROVE  Fresh(office', d) \/ Expected(office', rows, d.dnk)
    <3>1. CASE j \notin office'.ran
      BY <2>2, <3>1 DEF Expected
    <3>2. CASE j \in office'.ran
      <4>1. j = i /\ i \in office'.ran \ office.ran
        BY <1>8, <2>2, <3>2
      <4>2. r.kind \in Changing /\ (r.val <=> d.dnk) /\ (r.kind = "visit" => d.dnk)
        BY <1>2, <1>3, <2>2, <4>1 DEF Sets
      <4>3. office'.dnk <=> d.dnk
        BY <1>7, <4>1, <4>2 DEF Turned, Changing
      <4> QED
        BY <2>1, <4>3 DEF Fresh
    <3> QED
      BY <3>1, <3>2
  <2> QED
    BY <1>8, <1>11, <2>1, <2>2 DEF Explained, Expected
<1>12. FlagStands'
  <2> SUFFICES ASSUME ~hist'.overtaken, ~office'.dnk, NEW k \in office'.ran, Stands(k)'  PROVE FALSE
    BY DEF FlagStands
  <2>1. Stands(k)
    BY <1>5, <1>6 DEF Stands
  <2>2. k \in office.ran \/ (k = i /\ i \in office'.ran \ office.ran)
    BY <1>8
  <2>3. CASE k \in office.ran
    <3>1. office.dnk
      BY <1>8, <2>1, <2>3 DEF CacheInv, FlagStands
    <3>2. Overtakes(office')
      BY <2>1, <2>3, <3>1 DEF Overtakes, Stands
    <3>3. office' # office
      BY <3>1
    <3> QED
      BY <1>1, <3>2, <3>3 DEF Unheard, Heard
  <2>4. CASE k = i /\ i \in office'.ran \ office.ran
    BY <1>2, <1>3, <1>7, <2>1, <2>4 DEF Turned, Stands
  <2> QED
    BY <2>2, <2>3, <2>4
<1>13. OwnRow'
  <2> SUFFICES ASSUME opt.st = "put" PROVE OwnRow'
    BY <1>5 DEF OwnRow
  <2>1. OwnRow /\ opt.cur \in Details
    BY DEF CacheInv, TypeOK, Patches
  <2>2. Explained(office', rows, hist', opt.cur)
    BY <1>11, <2>1 DEF OwnRow
  <2>3. opt.id \in Ids /\ opt.id \notin office'.ran /\ pass'.snap[opt.id] = pass.snap[opt.id]
    BY <1>5, <1>6, <1>8, <2>1 DEF OwnRow
  <2> QED
    BY <1>5, <2>1, <2>2, <2>3 DEF OwnRow
<1>14. Explained(office', rows, hist', detail) /\ Awaited' /\ Snapped(office', load.snap)
  BY <1>t, <1>5, <1>6, <1>8, <1>11, FreshKept DEF CacheInv, Awaited
<1> QED
  BY <1>5, <1>10, <1>12, <1>13, <1>14 DEF CacheInv

-----------------------------------------------------------------------------
(* The other steps of the cached property *)

LEMMA OvertakenStands ==
    ASSUME TypeOK,
           Queueing \/ Quiet \/ Loading \/ Crash \/ OfficeEditsRecord \/ (\E i \in Ids : replacePhoto(i))
    PROVE  hist.overtaken => hist'.overtaken
<1>t. hist \in Histories /\ Spend(hist) \in Histories /\ (Spend(hist).overtaken <=> hist.overtaken)
  <2>1. hist \in Histories
    BY DEF TypeOK
  <2>2. hist.events + 1 \in Nat
    BY <2>1 DEF Histories
  <2> QED
    BY <2>1, <2>2 DEF Spend, Histories
<1>1. CASE hist' = hist \/ hist' = Spend(hist)
  BY <1>1, <1>t
<1>2. ASSUME NEW h \in {hist, Spend(hist)}, NEW f, hist' = [h EXCEPT !.files = f] \/ hist' = [h EXCEPT !.officeRec = f]
      PROVE  hist.overtaken => hist'.overtaken
  <2>1. h \in Histories /\ (h.overtaken <=> hist.overtaken)
    BY <1>2, <1>t
  <2> QED
    BY <1>2, <2>1 DEF Histories
<1>3. CASE Queueing
  <2>1. hist' = hist \/ hist' = [hist EXCEPT !.files = @ \cup {NextId}]
    BY <1>3 DEF Queueing, toggleDNK, recordVisit, Save, createLead, leadVisit, saveEdit, setStatus, saveInspection,
                archive, EditRecord, persistAndQueue
  <2> QED
    BY <1>2, <2>1
<1>4. CASE Quiet
  <2>1. hist' = hist \/ hist' = Spend(hist) \/ \E f \in hist.files : hist' = [Spend(hist) EXCEPT !.files = @ \ {f}]
    BY <1>4 DEF Quiet, TimerFires, OpenRecord, retryItem, PassOffline, FileLost
  <2> QED
    BY <1>1, <1>2, <2>1
<1>5. CASE Loading \/ Crash
  BY <1>1, <1>5 DEF Loading, OpenProperty, LoadAnswered, LoadFailed, Crash
<1>6. CASE OfficeEditsRecord
  <2>1. hist' = [Spend(hist) EXCEPT !.officeRec = office.rec + 1]
    BY <1>6 DEF OfficeEditsRecord
  <2> QED
    BY <1>2, <2>1
<1>7. ASSUME NEW i \in Ids, replacePhoto(i)  PROVE hist.overtaken => hist'.overtaken
  <2>1. hist' = [hist EXCEPT !.files = @ \cup {ReplacementFile(i)}]
    BY <1>7 DEF replacePhoto
  <2> QED
    BY <1>2, <2>1
<1> QED
  BY <1>3, <1>4, <1>5, <1>6, <1>7

LEMMA OfficeStays == ASSUME TypeOK, office' = office, hist.overtaken => hist'.overtaken PROVE OfficeSame
<1>1. office.ver \in Nat
  BY DEF TypeOK, Offices
<1> QED
  BY <1>1 DEF OfficeSame, Forward

LEMMA ExplainedAlike ==
    ASSUME NEW o, NEW m, NEW h, NEW d, NEW e, d.ver = e.ver, d.dnk <=> e.dnk, Explained(o, m, h, d)
    PROVE  Explained(o, m, h, e)
BY DEF Explained, Fresh, Expected, Sets

LEMMA ShownFresh ==
    ASSUME NEW o, NEW m, NEW h, NEW d, Snapped(o, d)
    PROVE  Explained(o, m, h, d) /\ d.waiting = {}
BY DEF Explained, Snapped, Fresh

(* A step after which a placeholder is explained as before and every mutation is where it was. *)
LEMMA CacheCarried ==
    ASSUME TypeOK, CopiesInv, CacheInv, office.ver # 0, OfficeSame, Unmoved, pass'.acks = pass.acks,
           detail' = detail, OwnRow', Snapped(office', load'.snap), \A i \in Ids : Moved(i) /\ Recopied(i)
    PROVE  CacheInv'
<1>1. FlagStands' /\ \A i \in Ids : RowOf(i)'
  BY RowsCarried
<1>2. Explained(office', rows', hist', detail') /\ Awaited'
  BY ShownCarried
<1> QED
  BY <1>1, <1>2 DEF CacheInv

(* A mutation is queued with its own explanation of what is shown. *)
LEMMA CacheQueued ==
    ASSUME TypeOK, Numbered, CopiesInv, CacheInv, office.ver # 0, Queueing
    PROVE  CacheInv'
<1>1. PICK row : Queued(row)
  BY QueueCases
<1>2. /\ rows[NextId].kind = "none" /\ rows'[NextId] = row /\ NextId \in Ids
      /\ \A i \in Ids \ {NextId} : rows'[i] = rows[i]
  BY <1>1, QueuedFields
<1>3. /\ row.kind # "none" /\ row.state = "pending" /\ row.server = NoDetail
      /\ UNCHANGED <<office, detail, load, pass>>
  BY <1>1 DEF Queued
<1>4. OfficeSame
  BY <1>3, OvertakenStands, OfficeStays
<1>5. opt' = opt \/ (opt'.cur = detail /\ opt'.id = NextId /\ OwnPatch)
  BY QueueCases
<1>o. \/ opt' = opt
      \/ opt'.kind \in {"visit", "patch"} /\ rows'[NextId].kind = opt'.kind /\ rows'[NextId].val = opt'.val
  BY <1>5 DEF OwnPatch
<1>6. pass.snap[NextId].state = "none" /\ NextId \notin office.ran
  BY <1>2 DEF CopiesInv, CopyOf, CacheInv, RowOf
<1> HIDE DEF NextId
<1>7. ASSUME NEW i \in Ids  PROVE Moved(i) /\ Recopied(i)
  BY <1>2, <1>3 DEF Moved, Recopied
<1>8. Unmoved
  BY <1>2 DEF Unmoved, Changing
<1>9. Explained(office', rows', hist', detail')
  BY <1>3, <1>4, <1>7, <1>8, ShownCarried
<1>10. OwnRow'
  <2>1. CASE opt' = opt
    <3>1. opt.st = "put" => opt.id \in Ids /\ opt.id # NextId /\ pass.snap[opt.id].state \in {"none", "pending"}
      BY <1>2 DEF CacheInv, OwnRow
    <3> QED
      BY <1>2, <1>3, <1>4, <1>8, <2>1, <3>1, OwnKept
  <2>2. CASE opt' # opt
    BY <1>2, <1>3, <1>5, <1>o, <1>6, <1>9, <2>2 DEF OwnRow
  <2> QED
    BY <2>1, <2>2
<1> QED
  BY <1>3, <1>4, <1>7, <1>8, <1>10, CacheCarried DEF CacheInv

(* The pass settles only what Office has run, and acknowledges what it settles. *)
LEMMA CacheWritten ==
    ASSUME TypeOK, CopiesInv, OnceInv, CacheInv, office.ver # 0, PassWrite
    PROVE  CacheInv'
<1>t. /\ rows \in [Ids -> Mutations] /\ pass.snap \in [Ids -> Mutations] /\ detail \in Details
      /\ office \in Offices /\ office.ran \subseteq Ids
  BY DEF TypeOK, WorkPasses, Offices
<1>n. NoRow.kind = "none" /\ NoRow.state = "none" /\ NoRow.server = NoDetail
  BY DEF NoRow
<1>1. /\ pass.pc = "send" /\ UNCHANGED <<office, detail, load, opt, hist>>
      /\ \A i \in Ids : pass'.snap[i] = NoRow
      /\ pass'.acks = {i \in pass.sent : pass.snap[i].state = "synced" /\ pass.snap[i].kind \in OfProperty}
  BY WriteCases
<1>2. OfficeSame
  BY <1>1, OfficeStays
<1>3. ASSUME NEW i \in Ids
      PROVE  /\ rows'[i].kind = rows[i].kind /\ rows'[i].val = rows[i].val
             /\ rows'[i] = rows[i] \/ (rows'[i] = pass.snap[i] /\ pass.snap[i].kind # "none")
  BY WriteCases DEF CopiesInv, CopyOf, CacheInv, RowOf
<1>4. ASSUME NEW i \in Ids, Unsettled(rows[i])
      PROVE  Unsettled(rows'[i]) \/ (rows'[i] = pass.snap[i] /\ pass.snap[i].state = "synced")
  <2>1. pass.snap[i].kind # "none" => pass.snap[i].state \in MutationStates \ {"none", "removed"}
    BY <1>t DEF CopiesInv, CacheInv, RowOf, Mutations
  <2> QED
    BY <1>3, <1>4, <2>1 DEF Unsettled, MutationStates
<1>5. ASSUME NEW d \in Details, Explained(office, rows, hist, d)
      PROVE  Explained(office', rows', hist', d)
  <2>1. ASSUME NEW j \in Ids \ office.ran, Unsettled(rows[j])
        PROVE  /\ j \notin office'.ran /\ rows'[j].kind = rows[j].kind /\ (rows'[j].val <=> rows[j].val)
               /\ Unsettled(rows'[j])
    <3>1. pass.snap[j].state # "synced"
      BY <2>1 DEF OnceInv, RanIt
    <3> QED
      BY <1>1, <1>3, <1>4, <2>1, <3>1
  <2> QED
    BY <1>2, <1>5, <2>1, ExplainedKept DEF OfficeSame
<1>6. Awaited'
  <2> SUFFICES ASSUME detail.waiting # {}
               PROVE  \E i \in Ids : rows'[i].kind \in Changing /\ (Unsettled(rows'[i]) \/ i \in pass'.acks)
    BY <1>1 DEF Awaited
  <2>1. PICK i \in Ids : rows[i].kind \in Changing /\ (Unsettled(rows[i]) \/ i \in pass.acks)
    BY DEF CacheInv, Awaited
  <2>2. Unsettled(rows[i])
    BY <1>1, <2>1 DEF CopiesInv
  <2>3. rows'[i].kind \in Changing
    BY <1>3, <2>1
  <2>4. CASE rows'[i] = pass.snap[i] /\ pass.snap[i].state = "synced"
    <3>1. i \in pass.sent /\ pass.snap[i].kind \in OfProperty
      BY <2>3, <2>4 DEF CacheInv, RowOf, Changing, OfProperty
    <3> QED
      BY <1>1, <2>3, <2>4, <3>1
  <2> QED
    BY <1>4, <2>2, <2>3, <2>4
<1>7. ASSUME NEW i \in Ids  PROVE RowOf(i)'
  <2>1. RowOf(i) /\ Snapped(office, NoDetail)
    BY <1>t, FreshSnapshot DEF CacheInv
  <2> QED
    BY <1>n, <1>1, <1>3, <2>1 DEF RowOf
<1>8. FlagStands'
  <2>1. ASSUME NEW k \in office.ran, Stands(k)'  PROVE Stands(k)
    <3>1. k \in Ids /\ RowOf(k) /\ rows'[k].kind = rows[k].kind /\ rows'[k].val = rows[k].val
      BY <1>t, <1>3 DEF CacheInv
    <3>2. k \in pass'.acks => pass.snap[k].kind # "none"
      BY <1>1 DEF OfProperty
    <3> QED
      BY <1>3, <2>1, <3>1, <3>2 DEF Stands, RowOf
  <2> QED
    BY <1>1, <2>1 DEF CacheInv, FlagStands
<1>9. OwnRow'
  <2> SUFFICES ASSUME opt.st = "put" PROVE OwnRow'
    BY <1>1 DEF OwnRow
  <2>1. OwnRow /\ opt.cur \in Details /\ opt.id \in Ids
    BY DEF CacheInv, OwnRow, TypeOK, Patches
  <2>2. Explained(office', rows', hist', opt.cur)
    BY <1>5, <2>1 DEF OwnRow
  <2>3. rows'[opt.id].state = "pending"
    BY <1>3, <2>1 DEF OwnRow, CopiesInv
  <2>4. rows'[opt.id].kind = rows[opt.id].kind /\ rows'[opt.id].val = rows[opt.id].val
        /\ pass'.snap[opt.id].state = "none"
    BY <1>n, <1>1, <1>3, <2>1
  <2> QED
    BY <1>1, <2>1, <2>2, <2>3, <2>4 DEF OwnRow
<1>10. Explained(office', rows', hist', detail') /\ Snapped(office', load'.snap)
  BY <1>t, <1>1, <1>5 DEF CacheInv
<1> QED
  BY <1>6, <1>7, <1>8, <1>9, <1>10 DEF CacheInv

(* What is reconciled is what Office answered, or a flag that stands there. *)
LEMMA CacheAcked ==
    ASSUME TypeOK, CopiesInv, OnceInv, CacheInv, office.ver # 0, PassAck
    PROVE  CacheInv'
<1>t. /\ rows \in [Ids -> Mutations] /\ pass \in WorkPasses /\ detail \in Details
      /\ office \in Offices /\ office.ran \subseteq Ids /\ office.ver \in Nat
  BY DEF TypeOK, Offices
<1>1. PICK i \in pass.acks : /\ pass' = [pass EXCEPT !.acks = @ \ {i}]
                             /\ detail' = reconcilePropertyDetail(i, rows[i], detail)
                             /\ rows' = [rows EXCEPT ![i] = [rows[i] EXCEPT !.server = NoDetail]]
  BY AckCases
<1>2. i \in Ids /\ rows[i] \in Mutations /\ rows[i].kind \in OfProperty /\ rows[i].state = "synced" /\ RowOf(i)
  BY <1>t, <1>1 DEF CopiesInv, Acked, WorkPasses, CacheInv
<1>3. UNCHANGED <<office, load, opt, hist>>
  BY AckCases
<1>4. LET r == [rows[i] EXCEPT !.server = NoDetail]
      IN  r.kind = rows[i].kind /\ r.state = rows[i].state /\ r.val = rows[i].val /\ r.server = NoDetail
  BY <1>2 DEF Mutations
<1>5. /\ rows'[i].kind = rows[i].kind /\ rows'[i].state = rows[i].state /\ rows'[i].val = rows[i].val
      /\ rows'[i].server = NoDetail
      /\ \A k \in Ids \ {i} : rows'[k] = rows[k]
  BY <1>t, <1>1, <1>2, <1>4
<1>6. pass'.snap = pass.snap /\ pass'.sent = pass.sent /\ pass'.acks = pass.acks \ {i}
  BY <1>t, <1>1 DEF WorkPasses
<1>7. OfficeSame
  BY <1>3, OfficeStays
<1>8. \A k \in Ids : Moved(k) /\ Recopied(k)
  BY <1>5, <1>6 DEF Moved, Recopied
<1>9. Unmoved
  <2>1. \A k \in Ids : rows'[k].kind = rows[k].kind /\ rows'[k].val = rows[k].val /\ rows'[k].state = rows[k].state
    BY <1>5
  <2> QED
    BY <2>1 DEF Unmoved, Unsettled
<1>10. FlagStands' /\ \A k \in Ids : RowOf(k)'
  BY <1>6, <1>7, <1>8, RowsCarried
<1>11. OwnRow'
  <2>1. opt.st = "put" => opt.id \in Ids /\ pass.snap[opt.id].state \in {"none", "pending"}
    BY DEF CacheInv, OwnRow
  <2> QED
    BY <1>3, <1>5, <1>6, <1>7, <1>9, <2>1, OwnKept
<1>12. ASSUME NEW d \in Details, Explained(office, rows, hist, d)
       PROVE  Explained(office', rows', hist', d)
  <2>1. \A j \in Ids \ office.ran : rows[j].kind \in Changing /\ Unsettled(rows[j]) =>
           /\ j \notin office'.ran /\ rows'[j].kind = rows[j].kind /\ (rows'[j].val <=> rows[j].val)
           /\ Unsettled(rows'[j])
    BY <1>3, <1>9 DEF Unmoved
  <2> QED
    BY <1>7, <1>12, <2>1, ExplainedKept DEF OfficeSame
<1>d. detail' \in Details
  BY <1>t, <1>1, <1>2, Reconciled
<1>13. CASE rows[i].kind \in {"patch", "resolve"}
  <2>1. detail' = rows[i].server
    BY <1>t, <1>1, <1>2, <1>13, Reconciled
  <2>2. Explained(office, rows, hist, detail') /\ detail'.waiting = {}
    BY <1>2, <2>1, ShownFresh DEF RowOf
  <2> QED
    BY <1>3, <1>6, <1>10, <1>11, <1>12, <1>d, <2>2 DEF CacheInv, Awaited
<1>14. CASE rows[i].kind = "visit"
  <2>1. detail'.ver = detail.ver /\ detail'.waiting = {} /\ (detail'.dnk <=> (detail.dnk \/ rows[i].val))
    BY <1>t, <1>1, <1>2, <1>14, Reconciled
  <2>2. Explained(office, rows, hist, detail)
    BY DEF CacheInv
  <2>5. Explained(office', rows', hist', detail')
    <3>1. Explained(office, rows, hist, detail')
      <4>1. CASE rows[i].val
        <5>1. i \in office.ran /\ Stands(i)
          BY <1>1, <1>2, <1>14, <4>1 DEF OnceInv, RanIt, Stands
        <5>2. hist.overtaken \/ office.dnk
          BY <5>1 DEF CacheInv, FlagStands
        <5> QED
          BY <2>1, <2>2, <4>1, <5>2 DEF Explained, Fresh
      <4>2. CASE ~rows[i].val
        BY <2>1, <2>2, <4>2, ExplainedAlike
      <4> QED
        BY <4>1, <4>2
    <3> QED
      BY <1>12, <1>d, <3>1
  <2> QED
    BY <1>3, <1>10, <1>11, <2>1, <2>5 DEF CacheInv, Awaited
<1>15. CASE rows[i].kind = "lead"
  <2>1. detail'.ver = detail.ver /\ detail'.waiting = detail.waiting /\ (detail'.dnk <=> detail.dnk)
    BY <1>t, <1>1, <1>2, <1>15, Reconciled
  <2>2. Explained(office', rows', hist', detail')
    <3>1. Explained(office, rows, hist, detail)
      BY DEF CacheInv
    <3>2. Explained(office, rows, hist, detail')
      BY <2>1, <3>1, ExplainedAlike
    <3> QED
      BY <1>12, <1>d, <3>2
  <2>3. Awaited'
    <3> SUFFICES ASSUME detail.waiting # {}
                 PROVE  \E k \in Ids : rows'[k].kind \in Changing /\ (Unsettled(rows'[k]) \/ k \in pass'.acks)
      BY <2>1 DEF Awaited
    <3>1. PICK k \in Ids : rows[k].kind \in Changing /\ (Unsettled(rows[k]) \/ k \in pass.acks)
      BY DEF CacheInv, Awaited
    <3>2. k # i
      BY <1>15, <3>1 DEF Changing
    <3> QED
      BY <1>5, <1>6, <3>1, <3>2
  <2> QED
    BY <1>3, <1>10, <1>11, <2>2, <2>3 DEF CacheInv
<1> QED
  BY <1>2, <1>13, <1>14, <1>15 DEF OfProperty

(* A patch is written while its mutation is still to be sent. *)
LEMMA CachePatched ==
    ASSUME TypeOK, CopiesInv, CacheInv, office.ver # 0, patchCachedDetail
    PROVE  CacheInv'
<1>1. /\ detail' = Patched(opt, opt.cur) /\ opt' = NoOpt /\ opt.st = "put"
      /\ UNCHANGED <<office, rows, load, pass, hist>>
  BY DEF patchCachedDetail
<1>2. opt \in Patches /\ opt.cur \in Details /\ opt.id \in Ids
  BY <1>1 DEF TypeOK, Patches
<1>3. /\ detail'.ver = opt.cur.ver
      /\ opt.kind = "visit" => (detail'.dnk <=> (opt.cur.dnk \/ opt.val))
      /\ opt.kind # "visit" => (detail'.dnk <=> opt.val)
  BY <1>1, <1>2, PatchedTyped
<1>4. /\ opt.id \in Ids \ office.ran /\ opt.kind \in {"visit", "patch"}
      /\ rows[opt.id].kind = opt.kind /\ rows[opt.id].val = opt.val /\ rows[opt.id].state = "pending"
      /\ Explained(office, rows, hist, opt.cur)
  BY <1>1 DEF CacheInv, OwnRow
<1>5. Explained(office, rows, hist, detail')
  <2>1. CASE opt.kind = "visit" /\ ~opt.val
    BY <1>3, <1>4, <2>1, ExplainedAlike
  <2>2. CASE opt.kind = "patch" \/ opt.val
    <3>1. Sets(rows[opt.id], detail'.dnk)
      BY <1>3, <1>4, <2>2 DEF Sets, Changing, Unsettled
    <3>2. Expected(office, rows, detail'.dnk)
      BY <1>4, <3>1 DEF Expected
    <3> QED
      BY <1>3, <1>4, <3>2 DEF Explained
  <2> QED
    BY <1>4, <2>1, <2>2
<1>6. Awaited'
  BY <1>1, <1>4 DEF Awaited, Changing, Unsettled
<1>7. OfficeSame
  BY <1>1, OfficeStays
<1>8. FlagStands' /\ \A i \in Ids : RowOf(i)'
  <2>1. \A i \in Ids : Moved(i) /\ Recopied(i)
    BY <1>1 DEF Moved, Recopied
  <2> QED
    BY <1>1, <1>7, <2>1, RowsCarried
<1>9. OwnRow'
  BY <1>1 DEF OwnRow, NoOpt
<1> QED
  BY <1>1, <1>5, <1>6, <1>8, <1>9 DEF CacheInv

(* The review shows what Office answered, or the change that it queues. *)
LEMMA CacheReviewed ==
    ASSUME TypeOK, Numbered, CopiesInv, SeenInv, CacheInv, NEW i \in Ids, useServer(i) \/ keepLocal(i) \/ applyMergeMine(i)
    PROVE  CacheInv'
<1>t. rows \in [Ids -> Mutations] /\ office \in Offices /\ office.ver # 0 /\ load \in [st : {"idle", "sent"}, snap : Details]
  BY DEF TypeOK, SeenInv
<1>1. opt.st = "idle" /\ screen.conflict = i /\ rows[i].state = "conflict" /\ Reload
  BY DEF useServer, keepLocal, applyMergeMine, Reviewing, CanAct
<1>2. UNCHANGED <<office, opt, pass, hist>>
  BY DEF useServer, keepLocal, applyMergeMine
<1>3. OfficeSame
  BY <1>2, OfficeStays
<1>4. OwnRow'
  BY <1>1, <1>2 DEF OwnRow
<1>5. Snapped(office', load'.snap)
  <2>1. load'.snap = Snapshot(office)
    BY <1>1, ReloadTyped
  <2> QED
    BY <1>2, <1>t, <2>1, FreshSnapshot
<1>6. /\ rows[i].kind \in OfProperty /\ rows[i].server.has /\ RowOf(i)
      /\ rows[i].server.waiting = {} /\ rows[i].server.ver <= office.ver
  <2>1. screen.conflict # 0 /\ rows[i].kind \in OfProperty
    BY <1>1, Bounds DEF Ids, SeenInv
  <2> QED
    BY <1>1, <2>1 DEF SeenInv, Informed, CacheInv, RowOf, Snapped, Fresh
<1>7. ASSUME NEW r, rows'[i] = r, Same(r, rows[i]), r.state \in {"pending", "removed"},
             r.server \in {rows[i].server, NoDetail}
      PROVE  Moved(i)
  BY <1>1, <1>7 DEF Moved, Same
<1>8. \A k \in Ids : Recopied(k)
  BY <1>2 DEF Recopied
<1>9. CASE keepLocal(i)
  <2>1. PICK r \in Mutations : /\ rows' = [rows EXCEPT ![i] = r] /\ Same(r, rows[i]) /\ r.state = "pending"
                               /\ r.server = NoDetail
    BY <1>9, KeepCases
  <2>2. rows'[i] = r /\ \A k \in Ids \ {i} : rows'[k] = rows[k]
    BY <1>t, <2>1
  <2>3. \A k \in Ids : Moved(k)
    BY <1>7, <2>1, <2>2 DEF Moved
  <2>4. Unmoved
    BY <2>1, <2>2 DEF Unmoved, Unsettled, Same
  <2>5. detail' = detail /\ pass'.acks = pass.acks
    BY <1>2, <1>9 DEF keepLocal
  <2> QED
    BY <1>t, <1>3, <1>4, <1>5, <1>8, <2>3, <2>4, <2>5, CacheCarried
<1>10. CASE useServer(i)
  <2>1. PICK r \in Mutations : /\ rows' = [rows EXCEPT ![i] = r] /\ Same(r, rows[i]) /\ r.state = "removed"
                               /\ r.server = rows[i].server
    BY <1>10, ServerCases DEF Dropped
  <2>2. rows'[i] = r /\ \A k \in Ids \ {i} : rows'[k] = rows[k]
    BY <1>t, <2>1
  <2>3. \A k \in Ids : Moved(k)
    BY <1>7, <2>1, <2>2 DEF Moved
  <2>4. detail' = rows[i].server
    BY <1>6, <1>10 DEF useServer
  <2>5. Explained(office', rows', hist', detail') /\ detail'.waiting = {}
    BY <1>2, <1>6, <2>4, ShownFresh DEF RowOf
  <2>6. FlagStands' /\ \A k \in Ids : RowOf(k)'
    BY <1>t, <1>2, <1>3, <1>8, <2>3, RowsCarried
  <2> QED
    BY <1>4, <1>5, <2>5, <2>6 DEF CacheInv, Awaited
<1>11. CASE applyMergeMine(i)
  <2>0. NextId \in Ids
    BY <1>11, MergeCases
  <2>1. PICK r \in Mutations, m \in Mutations :
          /\ rows' = [rows EXCEPT ![i] = r, ![NextId] = m]
          /\ Same(r, rows[i]) /\ r.state = "removed" /\ r.server = rows[i].server
          /\ m.kind = "resolve" /\ m.state = "pending" /\ m.server = NoDetail /\ (m.val <=> detail'.dnk)
    BY <1>11, MergeCases
  <2>2. /\ NextId # i /\ rows[NextId].kind = "none" /\ rows'[i] = r /\ rows'[NextId] = m
        /\ \A k \in Ids \ {i, NextId} : rows'[k] = rows[k]
    <3>1. rows[NextId].kind = "none" /\ rows[i].kind # "none"
      BY <1>6, <2>0, FreeNumber DEF OfProperty
    <3> HIDE DEF NextId
    <3> QED
      BY <1>t, <2>0, <2>1, <3>1
  <2>3. detail'.ver = rows[i].server.ver /\ detail'.waiting = {}
    BY <1>6, <1>11, MergeCases
  <2>4. NextId \notin office.ran
    BY <2>0, <2>2 DEF CacheInv, RowOf
  <2> HIDE DEF NextId
  <2>5. \A k \in Ids : Moved(k)
    <3>1. Moved(i)
      BY <1>7, <2>1, <2>2
    <3>2. Moved(NextId)
      BY <2>1, <2>2 DEF Moved
    <3>3. ASSUME NEW k \in Ids \ {i, NextId}  PROVE Moved(k)
      BY <2>2 DEF Moved
    <3> QED
      BY <3>1, <3>2, <3>3
  <2>6. Explained(office', rows', hist', detail')
    <3>1. Sets(rows'[NextId], detail'.dnk)
      BY <2>1, <2>2 DEF Sets, Changing, Unsettled
    <3>2. Expected(office', rows', detail'.dnk)
      BY <1>2, <2>0, <2>4, <3>1 DEF Expected
    <3> QED
      BY <1>2, <1>6, <2>3, <3>2 DEF Explained
  <2>7. FlagStands' /\ \A k \in Ids : RowOf(k)'
    BY <1>t, <1>2, <1>3, <1>8, <2>5, RowsCarried
  <2> QED
    BY <1>4, <1>5, <2>3, <2>6, <2>7 DEF CacheInv, Awaited
<1> QED
  BY <1>9, <1>10, <1>11

(* Somebody at Office turns the flag: nothing shown has the new version yet. *)
LEMMA CacheEdited ==
    ASSUME TypeOK, CacheInv, OfficeEditsProperty
    PROVE  CacheInv'
<1>t. /\ office \in Offices /\ office.ver \in Nat /\ office.dnk \in BOOLEAN /\ office.ran \subseteq Ids
      /\ rows \in [Ids -> Mutations] /\ pass.snap \in [Ids -> Mutations] /\ detail \in Details
      /\ load.snap \in Details /\ opt.cur \in Details /\ hist \in Histories
  BY DEF TypeOK, Offices, WorkPasses, Patches
<1>1. office' = [office EXCEPT !.dnk = ~@, !.ver = @ + 1]
      /\ hist' = [Spend(hist) EXCEPT !.officeVer = office.ver + 1, !.overtaken = @ \/ Overtakes(office')]
      /\ UNCHANGED <<rows, detail, load, opt, pass>>
  BY DEF OfficeEditsProperty, device
<1>2. office'.ver = office.ver + 1 /\ (office'.dnk <=> ~office.dnk) /\ office'.ran = office.ran
  BY <1>t, <1>1 DEF Offices
<1>3. Forward(office, office')
  BY <1>t, <1>2 DEF Forward
<1>4. hist.overtaken \/ Overtakes(office') => hist'.overtaken
  <2> DEFINE h == Spend(hist)
             b == Overtakes(office')
  <2>1. h \in Histories /\ (h.overtaken <=> hist.overtaken)
    <3>1. hist.events + 1 \in Nat
      BY <1>t DEF Histories
    <3> QED
      BY <1>t, <3>1 DEF Spend, Histories
  <2>2. hist' = [h EXCEPT !.officeVer = office.ver + 1, !.overtaken = @ \/ b]
    BY <1>1
  <2> HIDE DEF h, b
  <2>3. hist'.overtaken <=> (h.overtaken \/ b)
    BY <2>1, <2>2 DEF Histories
  <2> QED
    BY <2>1, <2>3 DEF b
<1>5. ASSUME NEW d \in Details, Explained(office, rows, hist, d)
      PROVE  Explained(office', rows', hist', d)
  <2>1. \A j \in Ids \ office.ran : rows[j].kind \in Changing /\ Unsettled(rows[j]) =>
           /\ j \notin office'.ran /\ rows'[j].kind = rows[j].kind /\ (rows'[j].val <=> rows[j].val)
           /\ Unsettled(rows'[j])
    BY <1>1, <1>2
  <2> QED
    BY <1>3, <1>4, <1>5, <2>1, ExplainedKept
<1>6. ASSUME NEW i \in Ids  PROVE RowOf(i)'
  <2>1. RowOf(i) /\ rows[i].server \in Details /\ pass.snap[i].server \in Details
    BY <1>t DEF CacheInv, Mutations
  <2>2. Snapped(office', rows[i].server) /\ Snapped(office', pass.snap[i].server)
    BY <1>3, <2>1, FreshKept DEF RowOf
  <2> QED
    BY <1>1, <1>2, <2>1, <2>2 DEF RowOf
<1>7. FlagStands'
  <2> SUFFICES ASSUME ~hist'.overtaken, ~office'.dnk, NEW k \in office.ran, Stands(k)  PROVE FALSE
    BY <1>1, <1>2 DEF FlagStands, Stands
  <2>1. Overtakes(office')
    BY <1>2 DEF Overtakes, Stands
  <2> QED
    BY <1>4, <2>1
<1>8. OwnRow'
  BY <1>1, <1>2, <1>5, <1>t DEF CacheInv, OwnRow
<1>9. Snapped(office', load.snap) /\ Explained(office', rows', hist', detail') /\ Awaited'
  BY <1>1, <1>3, <1>5, <1>t, FreshKept DEF CacheInv, Awaited
<1> QED
  BY <1>1, <1>6, <1>7, <1>8, <1>9 DEF CacheInv

LEMMA CacheStep ==
    ASSUME TypeOK, Numbered, CopiesInv, OnceInv, SeenInv, CacheInv,
           "late" \notin Windows, "crash" \notin Windows, [Next]_vars
    PROVE  CacheInv'
<1>t. /\ rows \in [Ids -> Mutations] /\ office \in Offices /\ office.ver \in Nat /\ office.ver # 0
      /\ load \in [st : {"idle", "sent"}, snap : Details]
  BY DEF TypeOK, Offices, SeenInv
<1>n. /\ NoRow.kind = "none" /\ NoRow.state = "none" /\ NoPass.acks = {} /\ \A i \in Ids : NoPass.snap[i] = NoRow
      /\ NoOpt.st = "idle" /\ NoLoad.snap = NoDetail
  BY DEF NoRow, NoPass, NoOpt, NoLoad
<1>s. Snapped(office, Snapshot(office)) /\ Snapped(office, NoDetail)
  BY <1>t, FreshSnapshot
<1>o. opt.st = "put" => /\ opt.id \in Ids /\ rows[opt.id].kind \in {"visit", "patch"}
                        /\ rows[opt.id].state = "pending" /\ pass.snap[opt.id].state \in {"none", "pending"}
  BY DEF CacheInv, OwnRow
<1>0. ASSUME \A i \in Ids : rows'[i] = rows[i] \/ (rows[i].kind = "photo" /\ Same(rows'[i], rows[i])
                                                    /\ rows[i].state # "synced" /\ rows'[i].state # "synced"
                                                    /\ rows'[i].server = rows[i].server)
      PROVE  Unmoved /\ \A i \in Ids : Moved(i)
  BY <1>0 DEF Unmoved, Moved, Same, Changing
<1>1. CASE Queueing
  BY <1>1, <1>t, CacheQueued
<1>2. CASE Sent
  BY <1>2, <1>t, CacheSent
<1>3. CASE PassBegin
  <2>1. /\ pass.acks = {} /\ pass'.acks = {} /\ UNCHANGED <<office, detail, load, opt, hist>>
        /\ \A i \in Ids : rows'[i] = rows[i] \/ (rows[i].kind = "photo" /\ Same(rows'[i], rows[i])
                            /\ rows[i].state # "synced" /\ rows'[i].state # "synced"
                            /\ rows'[i].server = rows[i].server)
    BY <1>3, BeginCases DEF CopiesInv
  <2>2. \A i \in Ids : pass'.snap[i] = NoRow \/ (pass'.snap[i] = rows'[i] /\ rows'[i].state \notin {"synced", "removed"})
    BY <1>3, BeginCases
  <2>3. OfficeSame /\ Unmoved /\ \A i \in Ids : Moved(i) /\ Recopied(i)
    BY <1>0, <2>1, <2>2, OfficeStays DEF Recopied
  <2>4. OwnRow'
    <3>1. opt.st = "put" => rows'[opt.id] = rows[opt.id]
      BY <1>o, <2>1
    <3>2. opt.st = "put" => pass'.snap[opt.id].state \in {"none", "pending"}
      BY <1>n, <1>o, <2>2, <3>1
    <3> QED
      BY <2>1, <2>3, <3>1, <3>2, OwnKept
  <2> QED
    BY <1>t, <2>1, <2>3, <2>4, CacheCarried DEF CacheInv
<1>4. CASE PassWrite
  BY <1>4, <1>t, CacheWritten
<1>5. CASE PassAck
  BY <1>5, <1>t, CacheAcked
<1>6. CASE PassEnd \/ Crash
  <2>1. pass.acks = {} /\ pass' = NoPass /\ UNCHANGED <<office, rows, detail>>
    BY <1>6 DEF PassEnd, Crash, device
  <2>2. (opt' = opt \/ opt' = NoOpt) /\ (load' = load \/ load' = NoLoad)
    BY <1>6 DEF PassEnd, Crash, device
  <2>3. hist.overtaken => hist'.overtaken
    BY <1>6, OvertakenStands DEF PassEnd
  <2>4. OfficeSame /\ Unmoved /\ pass'.acks = pass.acks /\ \A i \in Ids : Moved(i) /\ Recopied(i)
    BY <1>0, <1>n, <2>1, <2>3, OfficeStays DEF Recopied
  <2>5. OwnRow'
    <3>1. CASE opt' = opt
      BY <1>n, <1>o, <2>1, <2>4, <3>1, OwnKept
    <3>2. CASE opt' = NoOpt
      BY <1>n, <3>2 DEF OwnRow
    <3> QED
      BY <2>2, <3>1, <3>2
  <2>6. Snapped(office', load'.snap)
    BY <1>n, <1>s, <2>1, <2>2 DEF CacheInv
  <2> QED
    BY <1>t, <2>1, <2>4, <2>5, <2>6, CacheCarried
<1>7. ASSUME NEW i \in Ids, replacePhoto(i) \/ removeItem(i)  PROVE CacheInv'
  <2>1. /\ UNCHANGED <<office, detail, load, opt, pass>> /\ rows[i].kind = "photo" /\ rows[i].state = "failed"
    BY <1>7 DEF replacePhoto, removeItem, device
  <2>2. hist.overtaken => hist'.overtaken
    BY <1>7, OvertakenStands DEF removeItem
  <2>3. PICK r \in Mutations : /\ rows' = [rows EXCEPT ![i] = r] /\ r.kind = "photo" /\ r.state # "synced"
                               /\ r.val = rows[i].val /\ r.server = rows[i].server
    BY <1>7, <2>1, ReplaceCases, DropCases DEF Dropped, Same, removeItem
  <2>4. rows'[i] = r /\ \A k \in Ids \ {i} : rows'[k] = rows[k]
    BY <1>t, <2>3
  <2>5. OfficeSame /\ \A k \in Ids : Moved(k) /\ Recopied(k)
    BY <2>1, <2>2, <2>3, <2>4, OfficeStays DEF Moved, Recopied
  <2>6. Unmoved
    BY <2>1, <2>4 DEF Unmoved, Changing
  <2>7. OwnRow'
    <3>1. opt.st = "put" => rows'[opt.id] = rows[opt.id]
      BY <1>o, <2>1, <2>4
    <3> QED
      BY <1>o, <2>1, <2>5, <2>6, <3>1, OwnKept
  <2> QED
    BY <1>t, <2>1, <2>5, <2>6, <2>7, CacheCarried DEF CacheInv
<1>8. ASSUME NEW i \in Ids, useServer(i) \/ keepLocal(i) \/ applyMergeMine(i)  PROVE CacheInv'
  BY <1>8, CacheReviewed
<1>9. CASE patchCachedDetail
  BY <1>9, <1>t, CachePatched
<1>10. ASSUME UNCHANGED <<office, rows, opt, pass>>, hist.overtaken => hist'.overtaken
       PROVE  OfficeSame /\ Unmoved /\ OwnRow' /\ \A i \in Ids : Moved(i) /\ Recopied(i)
  <2>1. OfficeSame /\ Unmoved /\ \A i \in Ids : Moved(i) /\ Recopied(i)
    BY <1>0, <1>10, OfficeStays DEF Recopied
  <2> QED
    BY <1>10, <1>o, <2>1, OwnKept
<1>11. CASE Loading
  <2>1. UNCHANGED <<office, rows, opt, pass>> /\ (hist.overtaken => hist'.overtaken)
    BY <1>11, LoadCases, OvertakenStands
  <2>2. OfficeSame /\ Unmoved /\ OwnRow' /\ \A i \in Ids : Moved(i) /\ Recopied(i)
    BY <1>10, <2>1
  <2>3. (load'.snap = Snapshot(office) \/ load'.snap = NoDetail) /\ (detail' = detail \/ detail' = load.snap)
    BY <1>11, <1>n, LoadCases
  <2>4. Snapped(office', load'.snap)
    BY <1>s, <2>1, <2>3
  <2>5. CASE detail' = detail
    BY <1>t, <2>1, <2>2, <2>4, <2>5, CacheCarried
  <2>6. CASE detail' = load.snap
    <3>1. Explained(office', rows', hist', detail') /\ detail'.waiting = {}
      BY <2>1, <2>6, ShownFresh DEF CacheInv
    <3>2. FlagStands' /\ \A i \in Ids : RowOf(i)'
      BY <1>t, <2>1, <2>2, RowsCarried
    <3> QED
      BY <2>2, <2>4, <3>1, <3>2 DEF CacheInv, Awaited
  <2> QED
    BY <2>3, <2>5, <2>6
<1>12. CASE OfficeEditsProperty
  BY <1>12, CacheEdited
<1>13. CASE OfficeEditsRecord
  <2>1. office' = [office EXCEPT !.rec = @ + 1] /\ UNCHANGED <<rows, detail, load, opt, pass>>
    BY <1>13 DEF OfficeEditsRecord, device
  <2>2. /\ office'.ver = office.ver /\ (office'.dnk <=> office.dnk) /\ office'.ran = office.ran
        /\ hist.overtaken => hist'.overtaken
    BY <1>13, <1>t, <2>1, OvertakenStands DEF Offices
  <2>3. OfficeSame
    BY <1>t, <2>2 DEF OfficeSame, Forward
  <2>4. Unmoved /\ \A i \in Ids : Moved(i) /\ Recopied(i)
    BY <1>0, <2>1 DEF Recopied
  <2>5. OwnRow'
    BY <1>o, <2>1, <2>3, <2>4, OwnKept
  <2>6. Snapped(office', load'.snap)
    BY <1>t, <2>1, <2>3, FreshKept DEF CacheInv, OfficeSame
  <2> QED
    BY <1>t, <2>1, <2>3, <2>4, <2>5, <2>6, CacheCarried
<1>14. CASE Quiet \/ UNCHANGED vars
  <2>1. UNCHANGED <<office, rows, detail, load, opt, pass>> /\ (hist.overtaken => hist'.overtaken)
    BY <1>14, QuietCases, OvertakenStands DEF vars
  <2> QED
    BY <1>10, <1>t, <2>1, CacheCarried DEF CacheInv
<1> QED
  BY <1>1, <1>2, <1>3, <1>4, <1>5, <1>6, <1>7, <1>8, <1>9, <1>11, <1>12, <1>13, <1>14, NextCases

(* Once every mutation is settled, nothing is awaited or expected of Office any more. *)
LEMMA CacheShown ==
    ASSUME TypeOK, CopiesInv, CacheInv
    PROVE  CacheSettles
<1> SUFFICES ASSUME Settled PROVE detail.waiting = {} /\ (hist.overtaken \/ Agrees)
  BY DEF CacheSettles
<1>1. pass.acks = {} /\ \A i \in Ids : ~Unsettled(rows[i])
  BY DEF Settled, CopiesInv, Unsettled
<1>2. detail.waiting = {}
  BY <1>1 DEF CacheInv, Awaited
<1>3. hist.overtaken \/ Fresh(office, detail)
  BY <1>1 DEF CacheInv, Explained, Expected, Sets
<1>4. detail.dnk \in BOOLEAN /\ office.dnk \in BOOLEAN
  BY DEF TypeOK, Details, Offices
<1>5. Fresh(office, detail) => Agrees
  BY <1>4 DEF Fresh, Agrees
<1> QED
  BY <1>2, <1>3, <1>5

-----------------------------------------------------------------------------
(* The theorems *)

WorkInv == TypeOK /\ Numbered /\ CopiesInv

LEMMA WorkInvariant == Spec => []WorkInv
<1>1. Init => WorkInv
  BY WorkInit DEF WorkInv
<1>2. WorkInv /\ [Next]_vars => WorkInv'
  BY TypeStep, NumberedStep, CopiesStep DEF WorkInv
<1> QED
  BY <1>1, <1>2, PTL DEF Spec

(* Rows, the cached property, the screen, the pass and Office keep their types. *)
THEOREM WorkTypeCorrect == Spec => []TypeOK
BY WorkInvariant, PTL DEF WorkInv

LEMMA OnceInit == Init => OnceInv
<1> SUFFICES ASSUME Init PROVE OnceInv
  OBVIOUS
<1>1. /\ rows = [i \in Ids |-> NoRow] /\ pass = NoPass /\ office.keys = {} /\ office.leads = {}
      /\ \A i \in Ids : office.visits[i] = 0 /\ office.insps[i] = 0 /\ office.photos[i] = {}
  BY DEF Init
<1>2. NoRow.state = "none" /\ \A i \in Ids : NoPass.snap[i] = NoRow
  BY DEF NoRow, NoPass
<1> QED
  BY <1>1, <1>2 DEF OnceInv, Filed, RanIt

LEMMA OnceShown == ASSUME OnceInv PROVE SyncedRanOnce
<1>1. ASSUME NEW i \in Ids, rows[i].state = "synced"
      PROVE  i \in office.ran /\ (rows[i].kind = "photo" => rows[i].file \in office.photos[i])
  BY <1>1 DEF OnceInv, Filed, RanIt
<1>2. ASSUME NEW S, NEW x, S = {} \/ S = {x} PROVE Cardinality(S) <= 1
  <2>1. Cardinality({}) = 0 /\ Cardinality({x}) = 1
    BY FS_EmptySet, FS_Singleton
  <2> QED
    BY <1>2, <2>1
<1>3. ASSUME NEW i \in Ids
      PROVE  office.visits[i] <= 1 /\ office.insps[i] <= 1 /\ Cardinality(office.photos[i]) <= 1
  <2>1. office.photos[i] = {} \/ office.photos[i] = {rows[i].file}
    BY DEF OnceInv, Filed
  <2> QED
    BY <1>2, <2>1 DEF OnceInv, Filed
<1>4. Cardinality(office.leads) <= 1
  BY <1>2 DEF OnceInv
<1> QED
  BY <1>1, <1>3, <1>4 DEF SyncedRanOnce

(* Unless a photo is replaced while it is being uploaded, a row counts as synced only when
   Office ran it, with the file last chosen, and whatever answers are lost, whenever the app
   is killed and however often a row is sent, no visit, inspection or photo is filed twice and
   the property gets one lead. *)
THEOREM WorkRunsOnce == ASSUME "replace" \notin Windows PROVE Spec => []SyncedRanOnce
<1>1. Init => OnceInv
  BY OnceInit
<1>2. WorkInv /\ OnceInv /\ [Next]_vars => OnceInv'
  BY OnceStep DEF WorkInv
<1>3. OnceInv => SyncedRanOnce
  BY OnceShown
<1> QED
  BY <1>1, <1>2, <1>3, WorkInvariant, PTL DEF Spec

(* Unless a property is known only from the acknowledgements of the rep's own work, no Do Not
   Knock change, merged field or edit of a record is run at Office over a change somebody made
   there that the rep had not seen: it comes back as a conflict. *)
THEOREM OfficeEditsAreSeen == ASSUME "blind" \notin Windows PROVE Spec => []OfficeEditsSeen
<1>1. Init => SeenInv
  BY SeenInit
<1>2. WorkInv /\ SeenInv /\ [Next]_vars => SeenInv'
  BY SeenStep DEF WorkInv
<1>3. SeenInv => OfficeEditsSeen
  BY DEF SeenInv, OfficeEditsSeen
<1> QED
  BY <1>1, <1>2, <1>3, WorkInvariant, PTL DEF Spec
(* Unless a row is acknowledged before its patch is written, the app is killed between an
   acknowledgement and its reconciliation, a photo is replaced while it is being uploaded or a
   property is known only from acknowledgements: once no row is unsettled, the cached property
   holds no placeholder of a visit and, at Office's version, says what Office says, whatever
   was lost, refused, merged, kept or edited on the way, but for a flag Office cleared between a
   Do Not Knock visit's run and its reconciliation. *)
THEOREM CacheIsSettled == ASSUME Windows \subseteq {"merge"} PROVE Spec => []CacheSettles
<1>w. "late" \notin Windows /\ "crash" \notin Windows /\ "replace" \notin Windows /\ "blind" \notin Windows
  OBVIOUS
<1>1. Init => OnceInv /\ SeenInv /\ CacheInv
  BY OnceInit, SeenInit, CacheInit
<1>2. WorkInv /\ OnceInv /\ SeenInv /\ CacheInv /\ [Next]_vars => OnceInv' /\ SeenInv' /\ CacheInv'
  BY <1>w, OnceStep, SeenStep, CacheStep DEF WorkInv
<1>3. WorkInv /\ CacheInv => CacheSettles
  BY CacheShown DEF WorkInv
<1> QED
  BY <1>1, <1>2, <1>3, WorkInvariant, PTL DEF Spec
=============================================================================
