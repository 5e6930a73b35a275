----------------------- MODULE MeasurementSync_proofs -----------------------
(***************************************************************************)
(* One New revision makes one revision, nothing but the rep's own taps     *)
(* drops a working draft, no Field save replaces an Office edit the rep    *)
(* has not seen, and the newest save is never lost: proved for any         *)
(* revisions, edits and faults.                                            *)
(***************************************************************************)
EXTENDS MeasurementSync, FiniteSetTheorems, TLAPS

(* What the records hold. *)
RevIds == {0} \cup Revs
Docs == [Groups -> Int]
States == {"none", "pending", "failed", "conflict", "synced"}
Revisions == [tok : Nat, doc : Docs, ed : BOOLEAN]
Rows == [state : States, body : Docs, tok : Nat, base : Docs, baseTok : Nat, gen : Nat,
         save : Nat, key : Nat, srv : Revisions, rev : RevIds]
Drafts == [has : BOOLEAN, body : Docs, key : Nat]
Bases == [rev : RevIds, key : Nat, tok : Nat, base : Docs, baseTok : Nat, ed : BOOLEAN]
Workings == [has : BOOLEAN, doc : Docs, of : Bases, from : Docs]
Conflicts == [on : BOOLEAN, gen : Nat, state : States, srv : Revisions]
Steps == {"none", "opening", "idle", "queue", "clear", "keep", "office", "clone"}
Screens == [open : BOOLEAN, step : Steps, of : Bases, form : Docs, from : Docs,
            conflict : Conflicts, held : Rows]
Loads == [on : BOOLEAN, head : RevIds, opt : Revisions, row : Rows, create : Rows,
          draft : Drafts, srv : Revisions, online : BOOLEAN]
Passes == [phase : {"idle", "send", "ack"}, todo : SUBSET RowIds, items : [RowIds -> Rows],
           acks : SUBSET RowIds, half : SUBSET RowIds, sup : SUBSET RowIds]
Recoveries == [on : BOOLEAN, rows : [RowIds -> Rows], todo : SUBSET RowIds,
               half : SUBSET RowIds]
Keys == [of : RevIds, key : Nat, rev : Revs, body : Docs]
Budgets == [edits : Nat, saves : Nat, office : Nat, loads : Nat, faults : Nat]

OfficeTyped == office \in [Revs -> Revisions] /\ keys \in SUBSET Keys /\ IsFiniteSet(keys)
DeviceTyped ==
    /\ rows \in [RowIds -> Rows] /\ draft \in Drafts /\ working \in Workings
    /\ detail \in [Revs -> Revisions] /\ list \in SUBSET Revs /\ opkey \in [Revs -> Nat]
ScreenTyped == screen \in Screens /\ load \in Loads
WorkTyped ==
    /\ pulls \in SUBSET [rev : RevIds, srv : Revisions]
    /\ pass \in Passes /\ rec \in Recoveries
TypeOK == OfficeTyped /\ DeviceTyped /\ ScreenTyped /\ WorkTyped /\ budget \in Budgets

(* Office numbers its revisions without a gap, and no record names one it does not have. *)
Listed == ListedBy(office)
Numbered == \E n \in 0..MaxRevs : Listed = 1..n
Named(r) == r # 0 => r \in Listed
RowNamed(r, m) == /\ m.state # "none" => Named(r)
                  /\ m.state = "synced" => m.rev \in Listed
NamedOffice ==
    /\ Numbered
    /\ list \subseteq Listed
    /\ list = {} \/ \E top \in list : \A r \in list : r =< top
    /\ \A k \in keys : k.rev \in Listed /\ k.of < k.rev
NamedScreen ==
    /\ Named(screen.of.rev) /\ Named(working.of.rev) /\ Named(load.head)
    /\ screen.step = "office" => screen.of.rev # 0
    /\ load.on => load.head # 0
NamedRows ==
    /\ \A r \in RowIds : /\ RowNamed(r, rows[r]) /\ RowNamed(r, pass.items[r])
                         /\ RowNamed(r, rec.rows[r])
    /\ \A r \in pass.todo : pass.items[r].state # "none"
    /\ \A r \in pass.acks : pass.items[r].state = "synced"
    /\ \A r \in rec.todo : rec.rows[r].state = "synced"
    /\ pass.phase = "send" => pass.acks = {}
NamedInv == NamedOffice /\ NamedScreen /\ NamedRows

(* A revision whose clone the rep has received is behind another one in the list: no load
   shows it, nor an older one, and a screen that still does is editable or shows a working
   draft. *)
Cloned(r) == \E k \in keys : k.of = r /\ k.key # opkey[r]
Behindhand(c) ==
    /\ \E q \in list : c < q
    /\ load.on => c < load.head
    /\ screen.of.rev \in 1..c => /\ screen.step # "clone"
                                 /\ \/ screen.of.ed \/ screen.step # "idle"
                                    \/ working.has /\ HasContent(working.doc)
CloneInv ==
    /\ \A c \in Revs : Cloned(c) => Behindhand(c)
    /\ \A k \in keys : k.key # 0 \/ k.of = 0
    /\ screen.step = "clone" => screen.of.rev \in Revs /\ opkey[screen.of.rev] # 0
    /\ working.has => working.doc # working.from
IInv == TypeOK /\ NamedInv /\ CloneInv /\ NoDuplicateRevision
-----------------------------------------------------------------------------
(* What the model's records and operators hold *)

(* Zero is no revision, and a revision's row is a row. *)
LEMMA Ids == /\ 0 \notin Revs /\ Revs \subseteq Nat \ {0} /\ RowIds = RevIds
             /\ Revs \subseteq RowIds /\ 0 \in RowIds /\ Create \in RowIds /\ RowIds \subseteq Nat
BY MeasurementAssumption DEF Revs, RowIds, RevIds, Create

LEMMA BlankTyped == Blank \in Docs
BY DEF Blank, Docs

LEMMA NoRevTyped == NoRev \in Revisions
BY BlankTyped DEF NoRev, Revisions

LEMMA NoRowTyped == NoRow \in Rows
BY BlankTyped, NoRevTyped, Ids DEF NoRow, Rows, States

LEMMA NoDraftTyped == NoDraft \in Drafts
BY BlankTyped DEF NoDraft, Drafts

LEMMA NoBaseTyped == NoBase \in Bases
BY BlankTyped, Ids DEF NoBase, Bases

LEMMA NoWorkingTyped == NoWorking \in Workings /\ ~NoWorking.has /\ NoWorking.of.rev = 0
BY BlankTyped, NoBaseTyped DEF NoWorking, Workings, NoBase

LEMMA NoConflictTyped == NoConflict \in Conflicts
BY NoRevTyped DEF NoConflict, Conflicts, States

LEMMA NoScreenTyped == /\ NoScreen \in Screens
                       /\ NoScreen.step = "none" /\ NoScreen.of.rev = 0 /\ ~NoScreen.open
BY BlankTyped, NoBaseTyped, NoConflictTyped, NoRowTyped DEF NoScreen, Screens, Steps, NoBase

LEMMA NoLoadTyped == NoLoad \in Loads /\ ~NoLoad.on /\ NoLoad.head = 0
BY NoRevTyped, NoRowTyped, NoDraftTyped, Ids DEF NoLoad, Loads

LEMMA NoPassTyped == NoPass \in Passes /\ NoPass.todo = {} /\ NoPass.acks = {}
                     /\ \A r \in RowIds : NoPass.items[r].state = "none"
BY NoRowTyped DEF NoPass, Passes, NoRow

LEMMA NoRecTyped == NoRec \in Recoveries /\ NoRec.todo = {} /\ ~NoRec.on
                    /\ \A r \in RowIds : NoRec.rows[r].state = "none"
BY NoRowTyped DEF NoRec, Recoveries, NoRow

(* Every screen hydrate shows is idle on the revision it was given. *)
LEMMA ShownTyped ==
    ASSUME NEW of \in Bases, NEW form \in Docs, NEW conflict \in Conflicts
    PROVE  /\ Shown(of, form, conflict) \in Screens
           /\ Shown(of, form, conflict).of = of /\ Shown(of, form, conflict).step = "idle"
           /\ Shown(of, form, conflict).form = form /\ Shown(of, form, conflict).from = form
<1>1. /\ DOMAIN NoScreen = {"open", "step", "of", "form", "from", "conflict", "held"}
      /\ NoScreen.held \in Rows
  BY NoRowTyped DEF NoScreen
<1>2. NoScreen \in Screens
  BY NoScreenTyped
<1> QED BY <1>1, <1>2 DEF Shown, Screens, Steps

LEMMA FromRevisionTyped ==
    ASSUME NEW r \in Revs, NEW d \in Revisions, NEW conflict \in Conflicts
    PROVE  /\ FromRevision(r, d, conflict) \in Screens
           /\ FromRevision(r, d, conflict).of.rev = r
           /\ FromRevision(r, d, conflict).of.ed = d.ed
           /\ FromRevision(r, d, conflict).step = "idle"
<1> DEFINE of == [NoBase EXCEPT !.rev = r, !.tok = d.tok, !.base = d.doc, !.baseTok = d.tok,
                                !.ed = d.ed]
<1>1. of \in Bases /\ of.rev = r /\ of.ed = d.ed
  <2>1. d.tok \in Nat /\ d.doc \in Docs /\ d.ed \in BOOLEAN /\ r \in RevIds
    BY Ids DEF Revisions
  <2>2. NoBase \in Bases
    BY NoBaseTyped
  <2> QED BY <2>1, <2>2 DEF Bases
<1>2. d.doc \in Docs
  BY DEF Revisions
<1>3. FromRevision(r, d, conflict) = Shown(of, d.doc, conflict)
  BY DEF FromRevision
<1> HIDE DEF of
<1> QED BY <1>1, <1>2, <1>3, ShownTyped

LEMMA ConflictOfTyped ==
    ASSUME NEW row \in Rows, NEW srv \in Revisions  PROVE ConflictOf(row, srv) \in Conflicts
<1>1. row.gen \in Nat /\ row.state \in States
  BY DEF Rows
<1> QED BY <1>1 DEF ConflictOf, Conflicts

(* A create's draft, opened on no revision. *)
LEMMA DraftBase == ASSUME NEW k \in Nat
                   PROVE [NoBase EXCEPT !.key = k] \in Bases /\ [NoBase EXCEPT !.key = k].rev = 0
BY NoBaseTyped DEF Bases, NoBase

LEMMA OrphanedTyped ==
    ASSUME load \in Loads, pulls \in SUBSET [rev : RevIds, srv : Revisions]
    PROVE  Orphaned \in SUBSET [rev : RevIds, srv : Revisions]
<1>1. load.head \in RevIds /\ load.srv \in Revisions
  BY DEF Loads
<1> QED BY <1>1 DEF Orphaned

LEMMA SpendTyped == ASSUME budget \in Budgets, NEW w \in DOMAIN budget, Spend(w)
                    PROVE budget' \in Budgets
<1>1. /\ budget.edits \in Nat /\ budget.saves \in Nat /\ budget.office \in Nat
      /\ budget.loads \in Nat /\ budget.faults \in Nat
      /\ DOMAIN budget = {"edits", "saves", "office", "loads", "faults"}
  BY DEF Budgets
<1>2. budget[w] + 1 \in Nat
  BY <1>1
<1>3. budget' = [budget EXCEPT ![w] = budget[w] + 1]
  BY DEF Spend
<1> HIDE <1>1
<1>4. ASSUME NEW n \in Nat  PROVE [budget EXCEPT ![w] = n] \in Budgets
  BY <1>1 DEF Budgets
<1> QED BY <1>2, <1>3, <1>4

LEMMA SpendFields == budget \in Budgets => DOMAIN budget = {"edits", "saves", "office", "loads", "faults"}
BY DEF Budgets

(* An edit of a document is a document. *)
LEMMA EditTyped == ASSUME NEW d \in Docs, NEW g \in Groups, NEW v \in Int
                   PROVE [d EXCEPT ![g] = v] \in Docs
BY DEF Docs

LEMMA MergeTyped == ASSUME NEW b \in Docs, NEW f \in Docs, NEW o \in Docs
                    PROVE Merge(b, f, o) \in Docs
BY DEF Merge, Docs

LEMMA AsWorkingTyped ==
    ASSUME screen \in Screens  PROVE AsWorking \in Workings /\ AsWorking.of = screen.of
BY DEF AsWorking, Screens, Workings

LEMMA SaveRowTyped ==
    ASSUME rows \in [RowIds -> Rows], screen \in Screens, budget \in Budgets
    PROVE  SaveRow \in Rows
<1> DEFINE r == screen.of.rev
           row == rows[r]
           key == IF screen.of.key # 0 THEN screen.of.key ELSE budget.saves + 1
<1>1. /\ screen.form \in Docs /\ screen.of \in Bases
      /\ screen.of.key \in Nat /\ screen.of.base \in Docs
      /\ screen.of.tok \in Nat /\ screen.of.baseTok \in Nat /\ r \in RowIds
  BY Ids DEF Screens, Bases
<1>2. row \in Rows /\ row.tok \in Nat /\ row.base \in Docs /\ row.baseTok \in Nat
  BY <1>1 DEF Rows
<1>3. key \in Nat
  BY <1>1 DEF Budgets
<1>4. ASSUME NEW k \in Nat  PROVE [NoRow EXCEPT !.body = screen.form, !.key = k] \in Rows
  BY <1>1, NoRowTyped DEF Rows
<1>5. ASSUME NEW t \in Nat, NEW b \in Docs, NEW u \in Nat
      PROVE [NoRow EXCEPT !.body = screen.form, !.tok = t, !.base = b, !.baseTok = u] \in Rows
  BY <1>1, NoRowTyped DEF Rows
<1>6. CASE r = 0
  <2>1. SaveRow = [NoRow EXCEPT !.body = screen.form, !.key = key]
    BY <1>6 DEF SaveRow
  <2> QED BY <2>1, <1>3, <1>4
<1>7. CASE r # 0
  <2> DEFINE kept == row.state \notin {"none", "synced"}
             t == IF kept THEN row.tok ELSE screen.of.tok
             b == IF kept THEN row.base ELSE screen.of.base
             u == IF kept THEN row.baseTok ELSE screen.of.baseTok
  <2>1. SaveRow = [NoRow EXCEPT !.body = screen.form, !.tok = t, !.base = b, !.baseTok = u]
    BY <1>7 DEF SaveRow
  <2>2. t \in Nat /\ b \in Docs /\ u \in Nat
    BY <1>1, <1>2
  <2> HIDE DEF t, b, u, kept
  <2> QED BY <2>1, <2>2, <1>5
<1> QED BY <1>6, <1>7
-----------------------------------------------------------------------------
(* Office *)

(* Revisions numbered without a gap are counted by the last number. *)
LEMMA CountListed ==
    ASSUME NEW revs, NEW n \in 0..MaxRevs, ListedBy(revs) = 1..n
    PROVE  Cardinality(ListedBy(revs)) = n
BY FS_Interval, MeasurementAssumption

(* A revision's number is kept by every change that leaves it a token. *)
LEMMA ListedKept ==
    ASSUME NEW revs, NEW next, \A r \in Revs : (next[r].tok > 0) = (revs[r].tok > 0)
    PROVE  ListedBy(next) = ListedBy(revs)
BY DEF ListedBy

LEMMA ListedGrows ==
    ASSUME NEW revs \in [Revs -> Revisions], NEW n \in 0..MaxRevs, ListedBy(revs) = 1..n,
           n + 1 \in Revs, NEW d \in Revisions, d.tok > 0
    PROVE  /\ ListedBy([revs EXCEPT ![n + 1] = d]) = 1..(n + 1)
           /\ n + 1 \in 0..MaxRevs /\ ListedBy(revs) \subseteq 1..(n + 1)
<1>1. ListedBy([revs EXCEPT ![n + 1] = d]) = ListedBy(revs) \cup {n + 1}
  BY DEF ListedBy
<1>2. 1..(n + 1) = 1..n \cup {n + 1}
  BY DEF Revs
<1>3. n + 1 \in 0..MaxRevs
  BY DEF Revs
<1>4. ListedBy([revs EXCEPT ![n + 1] = d]) = 1..(n + 1)
  BY Zenon, <1>1, <1>2
<1> QED BY Zenon, <1>1, <1>3, <1>4

(* The answer to a request: Office keeps its revisions and keys, and a new key is the only
   one for its create. *)
Answer(a) ==
    /\ a.office \in [Revs -> Revisions] /\ a.keys \in SUBSET Keys /\ IsFiniteSet(a.keys)
    /\ a.row \in Rows /\ a.row.state # "none"
    /\ Listed \subseteq ListedBy(a.office)
    /\ \E n \in 0..MaxRevs : ListedBy(a.office) = 1..n
    /\ a.row.state = "synced" => a.row.rev \in ListedBy(a.office)
    /\ keys \subseteq a.keys
    /\ \A k, l \in a.keys \ keys : k = l
    /\ \A k \in a.keys \ keys : /\ k.of = 0 /\ k.rev \in ListedBy(a.office)
                                /\ \A l \in keys : ~(l.of = 0 /\ l.key = k.key)

LEMMA RefusedAnswers ==
    ASSUME OfficeTyped, Numbered, NEW m \in Rows, NEW srv \in Revisions
    PROVE  Answer(Refused(m, srv))
<1> DEFINE row == [m EXCEPT !.state = "conflict", !.srv = srv]
<1>1. row \in Rows /\ row.state = "conflict"
  BY DEF Rows, States
<1>2. /\ Refused(m, srv).office = office /\ Refused(m, srv).keys = keys
      /\ Refused(m, srv).row = row
  BY DEF Refused
<1> HIDE DEF row
<1> QED BY <1>1, <1>2 DEF Answer, OfficeTyped, Listed, Numbered

LEMMA DoneRow ==
    ASSUME NEW m \in Rows, NEW revs \in [Revs -> Revisions], NEW ks, NEW r \in Revs
    PROVE  /\ Done(m, revs, ks, r).row \in Rows /\ Done(m, revs, ks, r).row.state = "synced"
           /\ Done(m, revs, ks, r).row.rev = r
           /\ Done(m, revs, ks, r).office = revs /\ Done(m, revs, ks, r).keys = ks
<1>1. revs[r] \in Revisions /\ r \in RevIds
  BY Ids
<1> DEFINE srv == revs[r]
           row == [m EXCEPT !.state = "synced", !.srv = srv, !.rev = r]
<1> HIDE DEF srv
<1>2. srv \in Revisions
  BY <1>1 DEF srv
<1>3. row \in Rows /\ row.state = "synced" /\ row.rev = r
  BY <1>1, <1>2 DEF Rows, States
<1>4. /\ Done(m, revs, ks, r).row = row /\ Done(m, revs, ks, r).office = revs
      /\ Done(m, revs, ks, r).keys = ks
  BY DEF Done, srv
<1> HIDE DEF row
<1> QED BY <1>3, <1>4

(* update_measurement makes no revision and no key. *)
LEMMA UpdateAnswers ==
    ASSUME OfficeTyped, Numbered, NEW r \in Revs, r \in Listed, NEW m \in Rows
    PROVE  Answer(HandleUpdate(m, r))
<1>1. office[r] \in Revisions /\ NoRev \in Revisions
  BY NoRevTyped DEF OfficeTyped
<1>2. CASE TokenConflict(r, m.tok)
  <2>1. HandleUpdate(m, r) = Refused(m, office[r])
    BY <1>2 DEF HandleUpdate
  <2> QED BY <1>1, <2>1, RefusedAnswers
<1>3. CASE ~TokenConflict(r, m.tok) /\ ~office[r].ed
  <2>1. HandleUpdate(m, r) = Refused(m, NoRev)
    BY <1>3 DEF HandleUpdate
  <2> QED BY <1>1, <2>1, RefusedAnswers
<1>4. CASE ~TokenConflict(r, m.tok) /\ office[r].ed
  <2> DEFINE next == [office EXCEPT ![r].doc = m.body, ![r].tok = @ + 1]
  <2>1. /\ office[r].tok + 1 \in Nat /\ m.body \in Docs /\ office[r].tok \in Nat
        /\ office[r].tok > 0
    BY <1>1 DEF Revisions, Rows, Listed, ListedBy
  <2>2. ASSUME NEW t \in Nat  PROVE [office[r] EXCEPT !.doc = m.body, !.tok = t] \in Revisions
    BY <1>1, <2>1 DEF Revisions
  <2>3. /\ next \in [Revs -> Revisions]
        /\ \A q \in Revs : q # r => next[q] = office[q]
        /\ next[r].tok = office[r].tok + 1
    <3>1. next = [office EXCEPT ![r] = [office[r] EXCEPT !.doc = m.body, !.tok = office[r].tok + 1]]
      BY <1>1 DEF OfficeTyped, Revisions
    <3>2. [office[r] EXCEPT !.doc = m.body, !.tok = office[r].tok + 1].tok = office[r].tok + 1
      BY <1>1 DEF Revisions
    <3>3. [office[r] EXCEPT !.doc = m.body, !.tok = office[r].tok + 1] \in Revisions
      BY <2>1, <2>2
    <3> HIDE DEF next
    <3> QED BY <3>1, <3>2, <3>3 DEF OfficeTyped
  <2> HIDE DEF next
  <2>4. ListedBy(next) = Listed
    BY <2>1, <2>3, ListedKept DEF Listed
  <2>5. HandleUpdate(m, r) = Done(m, next, keys, r)
    BY <1>4 DEF HandleUpdate, next
  <2> QED BY <2>3, <2>4, <2>5, DoneRow DEF Answer, OfficeTyped, Listed, Numbered
<1> QED BY <1>2, <1>3, <1>4

(* create_measurement makes at most the next revision, under a key Office had not seen. *)
LEMMA CreateAnswers ==
    ASSUME OfficeTyped, Numbered, \A k \in keys : k.rev \in Listed, NEW m \in Rows, CreateFits(m)
    PROVE  Answer(HandleCreate(m))
<1> DEFINE made == {k \in keys : k.of = Create /\ k.key = m.key}
           new == Cardinality(ListedBy(office)) + 1
           key == [of |-> Create, key |-> m.key, rev |-> new, body |-> m.body]
           d == [tok |-> 1, doc |-> m.body, ed |-> TRUE]
<1>1. NoRev \in Revisions /\ m.body \in Docs /\ m.key \in Nat
  BY NoRevTyped DEF Rows
<1>2. CASE \E k \in made : k.body = m.body
  <2> DEFINE r == (CHOOSE k \in made : TRUE).rev
  <2>1. (CHOOSE k \in made : TRUE) \in made
    BY <1>2
  <2>2. r \in Revs /\ r \in Listed
    BY <2>1 DEF OfficeTyped, Keys
  <2>3. HandleCreate(m) = Done(m, office, keys, r)
    BY <1>2 DEF HandleCreate
  <2> HIDE DEF r
  <2> QED BY <2>2, <2>3, DoneRow DEF Answer, OfficeTyped, Listed, Numbered
<1>3. CASE made # {} /\ ~\E k \in made : k.body = m.body
  <2>1. HandleCreate(m) = Refused(m, NoRev)
    BY <1>3 DEF HandleCreate
  <2> QED BY <1>1, <2>1, RefusedAnswers
<1>4. CASE made = {}
  <2>1. PICK n \in 0..MaxRevs : Listed = 1..n
    BY DEF Numbered
  <2>2. Cardinality(ListedBy(office)) = n
    BY <2>1, CountListed DEF Listed
  <2>3. n < MaxRevs
    BY <1>4, <2>2 DEF CreateFits
  <2>4. new = n + 1 /\ new \in Revs /\ n + 1 \in Revs
    BY <2>2, <2>3, MeasurementAssumption DEF Revs
  <2>5. d \in Revisions /\ d.tok > 0
    BY <1>1 DEF Revisions
  <2>6. key \in Keys /\ key.of = 0 /\ key.key = m.key /\ key.rev = new
    BY <1>1, <2>4, Ids DEF Keys, Create
  <2> DEFINE next == [office EXCEPT ![new] = d]
             ks == keys \cup {key}
  <2>7. HandleCreate(m) = Done(m, next, ks, new)
    BY <1>4 DEF HandleCreate
  <2> HIDE DEF new, key, d
  <2>8. next \in [Revs -> Revisions]
    BY <2>4, <2>5 DEF OfficeTyped
  <2>9. /\ ListedBy(next) = 1..(n + 1) /\ n + 1 \in 0..MaxRevs
        /\ Listed \subseteq ListedBy(next) /\ new \in ListedBy(next)
    <3>1. /\ ListedBy([office EXCEPT ![n + 1] = d]) = 1..(n + 1) /\ n + 1 \in 0..MaxRevs
          /\ ListedBy(office) \subseteq 1..(n + 1)
      BY <2>1, <2>4, <2>5, ListedGrows DEF OfficeTyped, Listed
    <3>2. next = [office EXCEPT ![n + 1] = d]
      BY <2>4
    <3>3. new \in 1..(n + 1)
      BY <2>4 DEF Revs
    <3> HIDE DEF next
    <3> QED BY <3>1, <3>2, <3>3 DEF Listed
  <2>10. ks \in SUBSET Keys /\ IsFiniteSet(ks)
    BY <2>6, FS_AddElement DEF OfficeTyped
  <2>11. \A l \in keys : ~(l.of = 0 /\ l.key = m.key)
    BY <1>4 DEF Create
  <2>12. /\ keys \subseteq ks /\ \A k, l \in ks \ keys : k = l
         /\ \A k \in ks \ keys : k = key
    OBVIOUS
  <2> HIDE DEF next, ks, made
  <2> QED BY <2>4, <2>6, <2>7, <2>8, <2>9, <2>10, <2>11, <2>12, DoneRow DEF Answer
<1> QED BY <1>2, <1>3, <1>4

LEMMA HandleAnswers ==
    ASSUME OfficeTyped, NamedInv, NEW r \in RowIds, NEW m \in Rows,
           r # 0 => r \in Listed, r = Create => CreateFits(m)
    PROVE  Answer(Handle(m, r))
<1>1. CASE r = Create
  BY <1>1, CreateAnswers DEF Handle, NamedInv, NamedOffice
<1>2. CASE r # Create
  <2>1. r \in Revs /\ r \in Listed
    BY <1>2, Ids DEF RowIds, Create
  <2> QED BY <1>2, <2>1, UpdateAnswers DEF Handle, NamedInv, NamedOffice
<1> QED BY <1>1, <1>2
-----------------------------------------------------------------------------
(* Types: one lemma per part of the device *)

LEMMA OfficeTypes ==
    ASSUME TypeOK, NEW r \in Revs,
           OfficeTransition(r) \/ (\E g \in Groups : OfficeEdit(r, g))
    PROVE  TypeOK' /\ \A q \in Revs : (office'[q].tok > 0) = (office[q].tok > 0)
<1>1. /\ office[r] \in Revisions /\ office[r].tok + 1 \in Nat /\ office[r].doc \in Docs
      /\ office[r].ed \in BOOLEAN /\ office[r].tok \in Nat
  BY DEF TypeOK, OfficeTyped, Revisions
<1>2. budget \in Budgets /\ office \in [Revs -> Revisions]
  BY DEF TypeOK, OfficeTyped
<1>3. \A d \in Docs, t \in Nat, e \in BOOLEAN :
         [office[r] EXCEPT !.doc = d, !.tok = t] \in Revisions
         /\ [office[r] EXCEPT !.ed = e, !.tok = t] \in Revisions
  BY <1>1 DEF Revisions
<1>4. CASE \E g \in Groups : OfficeEdit(r, g)
  <2>1. PICK g \in Groups : OfficeEdit(r, g)
    BY <1>4
  <2> DEFINE d == [office[r].doc EXCEPT ![g] = -(budget.office + 1)]
             next == [office[r] EXCEPT !.doc = d, !.tok = office[r].tok + 1]
  <2>2. d \in Docs
    <3>1. -(budget.office + 1) \in Int
      BY <1>2 DEF Budgets
    <3> QED BY <1>1, <3>1, EditTyped
  <2>3. office' = [office EXCEPT ![r] = next]
    BY <2>1, <1>1, <1>2 DEF OfficeEdit, Revisions
  <2>4. budget' \in Budgets
    BY <2>1, <1>2, SpendTyped, SpendFields DEF OfficeEdit
  <2>5. next.tok > 0 /\ office[r].tok > 0
    BY <2>1, <1>1 DEF OfficeEdit, Exists, Revisions
  <2>6. next \in Revisions
    BY <1>1, <1>3, <2>2
  <2> HIDE DEF d, next
  <2>7. office' \in [Revs -> Revisions] /\ \A q \in Revs : (office'[q].tok > 0) = (office[q].tok > 0)
    BY <1>2, <2>3, <2>5, <2>6
  <2> QED BY <2>1, <2>4, <2>7 DEF OfficeEdit, TypeOK, OfficeTyped, DeviceTyped, ScreenTyped, WorkTyped, device
<1>5. CASE OfficeTransition(r)
  <2> DEFINE next == [office[r] EXCEPT !.ed = ~office[r].ed, !.tok = office[r].tok + 1]
  <2>1. (~office[r].ed) \in BOOLEAN
    BY <1>1
  <2>2. next \in Revisions
    BY <1>1, <1>3, <2>1
  <2>3. office' = [office EXCEPT ![r] = next]
    BY <1>5, <1>1, <1>2 DEF OfficeTransition, Revisions
  <2>4. budget' \in Budgets
    BY <1>5, <1>2, SpendTyped, SpendFields DEF OfficeTransition
  <2>5. next.tok > 0 /\ office[r].tok > 0
    BY <1>5, <1>1 DEF OfficeTransition, Exists, Revisions
  <2> HIDE DEF next
  <2>6. office' \in [Revs -> Revisions] /\ \A q \in Revs : (office'[q].tok > 0) = (office[q].tok > 0)
    BY <1>2, <2>2, <2>3, <2>5
  <2> QED BY <1>5, <2>4, <2>6 DEF OfficeTransition, TypeOK, OfficeTyped, DeviceTyped, ScreenTyped, WorkTyped, device
<1> QED BY <1>4, <1>5

LEMMA LoadBeginTypes ==
    ASSUME TypeOK, NEW online \in BOOLEAN, LoadBegin(online),
           \A S \in {list, ListedBy(office)} : S # {} => Newest(S) \in S
    PROVE  TypeOK'
<1> USE DEF TypeOK
<1>1. pulls' \in SUBSET [rev : RevIds, srv : Revisions]
  BY OrphanedTyped DEF LoadBegin, ScreenTyped, WorkTyped
<1>2. budget' \in Budgets
  BY SpendTyped, SpendFields DEF LoadBegin
<1>3. /\ working' \in Workings /\ list' \in SUBSET Revs /\ screen' \in Screens /\ load' \in Loads
  <2>1. CASE working.has /\ HasContent(working.doc)
    <3>1. ShowWorking
      BY <2>1 DEF LoadBegin
    <3> DEFINE row == rows[working.of.rev]
               conflict == IF working.of.rev # 0 /\ row.state = "conflict"
                           THEN ConflictOf(row, row.srv) ELSE NoConflict
    <3>2. working.of \in Bases /\ working.doc \in Docs /\ working.of.rev \in RowIds
      BY Ids DEF DeviceTyped, Workings, Bases
    <3>3. row \in Rows /\ row.srv \in Revisions
      BY <3>2 DEF DeviceTyped, Rows
    <3>4. conflict \in Conflicts
      BY <3>3, ConflictOfTyped, NoConflictTyped
    <3>5. screen' = Shown(working.of, working.doc, conflict)
      BY <3>1 DEF ShowWorking
    <3> HIDE DEF conflict
    <3> QED BY <3>1, <3>2, <3>4, <3>5, ShownTyped, NoLoadTyped DEF ShowWorking, DeviceTyped
  <2>2. CASE ~(working.has /\ HasContent(working.doc))
    <3>1. working' = NoWorking /\ list' = IF online THEN ListedBy(office) ELSE list
      BY <2>2 DEF LoadBegin
    <3>2. list' \in SUBSET Revs
      BY <3>1 DEF ListedBy, DeviceTyped
    <3>3. CASE Newest(list') = 0
      <4>1. ShowDraft
        BY <2>2, <3>3 DEF LoadBegin
      <4>2. draft.key \in Nat /\ draft.body \in Docs
        BY DEF DeviceTyped, Drafts
      <4> QED BY <3>1, <3>2, <4>1, <4>2, DraftBase, ShownTyped, NoConflictTyped, NoLoadTyped, NoWorkingTyped
              DEF ShowDraft
    <3>4. CASE Newest(list') # 0
      <4> DEFINE head == Newest(list')
                 create == IF draft.has /\ rows[Create].key = draft.key THEN rows[Create] ELSE NoRow
                 srv == IF online THEN office[head] ELSE NoRev
      <4>1. head \in Revs
        BY <3>1, <3>2, <3>4 DEF Newest
      <4>2. /\ load' = [on |-> TRUE, head |-> head, opt |-> detail[head], row |-> rows[head],
                        draft |-> draft, create |-> create, srv |-> srv, online |-> online]
            /\ screen' = screen
        BY <2>2, <3>4 DEF LoadBegin
      <4> HIDE DEF head
      <4>3. /\ detail[head] \in Revisions /\ rows[head] \in Rows /\ create \in Rows
            /\ srv \in Revisions /\ draft \in Drafts /\ head \in RevIds
        BY <4>1, Ids, NoRowTyped, NoRevTyped DEF DeviceTyped, OfficeTyped
      <4> HIDE DEF create, srv
      <4>4. load' \in Loads
        BY <4>2, <4>3 DEF Loads
      <4> QED BY <3>1, <3>2, <4>2, <4>4, NoWorkingTyped DEF ScreenTyped
    <3> QED BY <3>3, <3>4
  <2> QED BY <2>1, <2>2
<1> QED BY <1>1, <1>2, <1>3 DEF LoadBegin, OfficeTyped, DeviceTyped, ScreenTyped, WorkTyped, server

(* The last case of a screen's view. *)
LEMMA LoadEndTypes ==
    ASSUME TypeOK, LoadEnd, load.on => load.head \in Revs
    PROVE  TypeOK' /\ (screen'.of.rev = 0 \/ screen'.of.rev = load.head) /\ screen'.step = "idle"
<1> USE DEF TypeOK
<1> DEFINE r == load.head
           srv == IF load.online THEN load.srv ELSE detail[r]
           view == View(srv)
           local == view \in {"local_update", "conflict"}
           office1 == IF load.row.state = "conflict" /\ load.row.srv.tok > 0 THEN load.row.srv ELSE srv
           conflict == IF view = "conflict" THEN ConflictOf(load.row, office1) ELSE NoConflict
           key == [NoBase EXCEPT !.key = load.draft.key]
<1>1. /\ load.on /\ r \in Revs /\ load.row \in Rows /\ load.srv \in Revisions
      /\ load.opt \in Revisions /\ load.draft \in Drafts
  BY DEF LoadEnd, ScreenTyped, Loads
<1>2. srv \in Revisions /\ load.row.srv \in Revisions /\ load.draft.key \in Nat /\ load.draft.body \in Docs
  BY <1>1 DEF DeviceTyped, Rows, Drafts
<1>3. conflict \in Conflicts /\ key \in Bases /\ key.rev = 0
  BY <1>1, <1>2, ConflictOfTyped, NoConflictTyped, DraftBase
<1>4. /\ load' = NoLoad
      /\ detail' = [detail EXCEPT ![r] = IF local THEN load.opt ELSE srv]
      /\ draft' \in {draft, NoDraft}
      /\ UNCHANGED <<server, rows, working, list, opkey, pulls, pass, rec, budget>>
  BY DEF LoadEnd
<1>5. screen' = CASE local -> FromRevision(r, load.opt, conflict)
                  [] view = "server" -> FromRevision(r, srv, NoConflict)
                  [] view = "local_draft" -> Shown(key, load.draft.body, NoConflict)
                  [] OTHER -> Shown(NoBase, Blank, NoConflict)
  BY Zenon DEF LoadEnd
<1> HIDE DEF conflict, key, local, view, srv, r
<1>6. \/ screen' = FromRevision(r, load.opt, conflict)
      \/ screen' = FromRevision(r, srv, NoConflict)
      \/ screen' = Shown(key, load.draft.body, NoConflict)
      \/ screen' = Shown(NoBase, Blank, NoConflict)
  BY <1>5
<1>7. screen' \in Screens /\ (screen'.of.rev = 0 \/ screen'.of.rev = r) /\ screen'.step = "idle"
  <2>1. CASE screen' = FromRevision(r, load.opt, conflict)
    BY <2>1, <1>1, <1>3, FromRevisionTyped
  <2>2. CASE screen' = FromRevision(r, srv, NoConflict)
    BY <2>2, <1>1, <1>2, NoConflictTyped, FromRevisionTyped
  <2>3. CASE screen' = Shown(key, load.draft.body, NoConflict)
    BY <2>3, <1>2, <1>3, NoConflictTyped, ShownTyped
  <2>4. CASE screen' = Shown(NoBase, Blank, NoConflict)
    <3>1. NoBase.rev = 0
      BY DEF NoBase
    <3> QED BY <2>4, <3>1, NoBaseTyped, BlankTyped, NoConflictTyped, ShownTyped
  <2> QED BY <1>6, <2>1, <2>2, <2>3, <2>4
<1>8. detail' \in [Revs -> Revisions] /\ draft' \in Drafts
  BY <1>1, <1>2, <1>4, NoDraftTyped DEF DeviceTyped
<1>9. load' \in Loads
  BY <1>4, NoLoadTyped
<1> QED BY <1>4, <1>7, <1>8, <1>9 DEF OfficeTyped, DeviceTyped, ScreenTyped, WorkTyped, server, r

LEMMA PullTypes ==
    ASSUME TypeOK,
           (\E r \in Revs : RefreshLead(r)) \/ (\E p \in pulls : PullEnd(p))
    PROVE  TypeOK'
<1> USE DEF TypeOK
<1>1. CASE \E r \in Revs : RefreshLead(r)
  <2>1. PICK r \in Revs : RefreshLead(r)
    BY <1>1
  <2>2. office[r] \in Revisions /\ r \in RevIds
    BY Ids DEF OfficeTyped
  <2>3. [rev |-> r, srv |-> office[r]] \in [rev : RevIds, srv : Revisions]
    BY <2>2
  <2> QED BY <2>1, <2>3 DEF RefreshLead, OfficeTyped, DeviceTyped, ScreenTyped, WorkTyped, server, device
<1>2. CASE \E p \in pulls : PullEnd(p)
  <2>1. PICK p \in pulls : PullEnd(p)
    BY <1>2
  <2>2. p.srv \in Revisions
    BY DEF WorkTyped
  <2>3. detail' \in [Revs -> Revisions]
    BY <2>1, <2>2 DEF PullEnd, DeviceTyped
  <2> QED BY <2>1, <2>3 DEF PullEnd, OfficeTyped, DeviceTyped, ScreenTyped, WorkTyped, server
<1> QED BY <1>1, <1>2

LEMMA EditTypes ==
    ASSUME TypeOK,
           Open \/ Leave \/ Autosave \/ Revert \/ \E g \in Groups, empties \in BOOLEAN : Type(g, empties)
    PROVE  TypeOK'
<1> USE DEF TypeOK
<1>1. CASE Open
  <2>1. screen' \in Screens
    BY <1>1, NoScreenTyped DEF Open, Screens, Steps
  <2> QED BY <1>1, <2>1 DEF Open, OfficeTyped, DeviceTyped, ScreenTyped, WorkTyped, server, device
<1>2. CASE Leave
  <2>1. AsWorking \in Workings
    BY AsWorkingTyped DEF ScreenTyped
  <2>2. working' \in Workings
    BY <1>2, <2>1 DEF Leave, DeviceTyped
  <2>3. pulls' \in SUBSET [rev : RevIds, srv : Revisions]
    BY <1>2, OrphanedTyped DEF Leave, ScreenTyped, WorkTyped
  <2>4. screen' \in Screens /\ load' \in Loads
    BY <1>2, NoScreenTyped, NoLoadTyped DEF Leave
  <2> QED BY <1>2, <2>2, <2>3, <2>4 DEF Leave, OfficeTyped, DeviceTyped, ScreenTyped, WorkTyped, server
<1>3. CASE Autosave
  <2>1. AsWorking \in Workings
    BY AsWorkingTyped DEF ScreenTyped
  <2> QED BY <1>3, <2>1 DEF Autosave, OfficeTyped, DeviceTyped, ScreenTyped, WorkTyped, server
<1>4. CASE Revert
  <2>1. screen.from \in Docs
    BY DEF ScreenTyped, Screens
  <2>2. screen' \in Screens
    BY <1>4, <2>1 DEF Revert, ScreenTyped, Screens
  <2> QED BY <1>4, <2>2, NoWorkingTyped DEF Revert, OfficeTyped, DeviceTyped, ScreenTyped, WorkTyped, server
<1>5. CASE \E g \in Groups, empties \in BOOLEAN : Type(g, empties)
  <2>1. PICK g \in Groups, empties \in BOOLEAN : Type(g, empties)
    BY <1>5
  <2> DEFINE v == IF empties THEN 0 ELSE budget.edits + 1
             form == [screen.form EXCEPT ![g] = v]
  <2>2. v \in Int /\ screen.form \in Docs
    BY DEF Budgets, ScreenTyped, Screens
  <2> HIDE DEF v
  <2>3. form \in Docs
    BY <2>2, EditTyped
  <2>4. screen' = [screen EXCEPT !.form = form]
    BY <2>1 DEF Type, v, ScreenTyped, Screens
  <2> HIDE DEF form
  <2>5. screen' \in Screens
    BY <2>3, <2>4 DEF ScreenTyped, Screens
  <2>6. budget' \in Budgets
    BY <2>1, SpendTyped, SpendFields DEF Type
  <2> QED BY <2>1, <2>5, <2>6 DEF Type, OfficeTyped, DeviceTyped, ScreenTyped, WorkTyped, server, device
<1> QED BY <1>1, <1>2, <1>3, <1>4, <1>5

LEMMA SaveTypes ==
    ASSUME TypeOK, SaveBegin \/ SaveQueue \/ SaveClear, Named(screen.of.rev)
    PROVE  TypeOK'
<1> USE DEF TypeOK
<1> DEFINE r == screen.of.rev
<1>1. /\ screen.form \in Docs /\ screen.of.tok \in Nat /\ screen.held \in Rows /\ r \in RowIds
      /\ r # 0 => r \in Revs
  BY Ids DEF ScreenTyped, Screens, Bases, Named, Listed, ListedBy
<1>2. CASE SaveBegin
  <2>1. SaveRow \in Rows /\ SaveRow.key \in Nat
    BY SaveRowTyped DEF DeviceTyped, ScreenTyped, Rows
  <2>2. screen' \in Screens
    BY <1>2, <2>1 DEF SaveBegin, ScreenTyped, Screens, Steps
  <2>3. draft' \in Drafts /\ detail' \in [Revs -> Revisions]
    <3>1. CASE r = 0
      <4>1. [has |-> TRUE, body |-> screen.form, key |-> SaveRow.key] \in Drafts
        BY <1>1, <2>1 DEF Drafts
      <4> QED BY <1>2, <3>1, <4>1 DEF SaveBegin, DeviceTyped
    <3>2. CASE r # 0
      <4>1. [tok |-> screen.of.tok, doc |-> screen.form, ed |-> TRUE] \in Revisions
        BY <1>1 DEF Revisions
      <4> QED BY <1>2, <3>2, <4>1 DEF SaveBegin, DeviceTyped
    <3> QED BY <3>1, <3>2
  <2>4. budget' \in Budgets
    BY <1>2, SpendTyped, SpendFields DEF SaveBegin
  <2> QED BY <1>2, <2>2, <2>3, <2>4 DEF SaveBegin, OfficeTyped, DeviceTyped, ScreenTyped, WorkTyped, server
<1>3. CASE SaveQueue
  <2> DEFINE g == rows[r].gen + 1
             row == [screen.held EXCEPT !.state = "pending", !.gen = g, !.save = budget.saves]
  <2>1. rows[r] \in Rows
    BY <1>1 DEF DeviceTyped
  <2>2. g \in Nat /\ budget.saves \in Nat
    BY <2>1 DEF Rows, Budgets
  <2>3. rows' = [rows EXCEPT ![r] = row]
    BY <1>3 DEF SaveQueue
  <2> HIDE DEF g
  <2>4. row \in Rows
    BY <1>1, <2>2 DEF Rows, States
  <2> HIDE DEF row
  <2>5. rows' \in [RowIds -> Rows]
    BY <2>3, <2>4 DEF DeviceTyped
  <2>6. screen' \in Screens
    BY <1>3 DEF SaveQueue, ScreenTyped, Screens, Steps
  <2> QED BY <1>3, <2>5, <2>6 DEF SaveQueue, OfficeTyped, DeviceTyped, ScreenTyped, WorkTyped, server
<1>4. CASE SaveClear
  <2>1. pulls' \in SUBSET [rev : RevIds, srv : Revisions]
    BY <1>4, OrphanedTyped DEF SaveClear, ScreenTyped, WorkTyped
  <2>2. screen' \in Screens /\ load' \in Loads /\ working' \in Workings
    BY <1>4, NoScreenTyped, NoLoadTyped, NoWorkingTyped DEF SaveClear
  <2> QED BY <1>4, <2>1, <2>2 DEF SaveClear, OfficeTyped, DeviceTyped, ScreenTyped, WorkTyped, server
<1> QED BY <1>2, <1>3, <1>4

LEMMA ConflictTypes ==
    ASSUME TypeOK, Named(screen.of.rev), screen.step = "office" => screen.of.rev # 0,
           KeepMineBegin \/ KeepMineWrite \/ UseOfficeBegin \/ UseOfficeCommit
             \/ UseOfficePreserved \/ RemoveLocal
    PROVE  TypeOK'
<1> USE DEF TypeOK
<1> DEFINE r == screen.of.rev
           m == screen.held
           srv == screen.conflict.srv
<1>1. /\ r \in RowIds /\ (r # 0 => r \in Revs) /\ m \in Rows /\ srv \in Revisions
      /\ screen.conflict \in Conflicts
  BY Ids DEF ScreenTyped, Screens, Bases, Conflicts, Named, Listed, ListedBy
<1>2. /\ rows[r] \in Rows /\ m.base \in Docs /\ m.body \in Docs /\ m.srv \in Revisions
      /\ srv.doc \in Docs /\ srv.tok \in Nat
  BY <1>1 DEF DeviceTyped, Rows, Revisions
<1>3. CASE KeepMineBegin
  <2>1. screen' \in Screens
    BY <1>2, <1>3 DEF KeepMineBegin, ScreenTyped, Screens, Steps
  <2> QED BY <1>3, <2>1 DEF KeepMineBegin, OfficeTyped, DeviceTyped, ScreenTyped, WorkTyped, server, device
<1>4. CASE KeepMineWrite
  <2> DEFINE body == Merge(m.base, m.body, srv.doc)
             row == [m EXCEPT !.state = "pending", !.tok = srv.tok, !.srv = NoRev, !.body = body,
                              !.base = srv.doc, !.baseTok = srv.tok]
  <2>1. body \in Docs
    BY <1>2, MergeTyped
  <2>2. rows' = [rows EXCEPT ![r] = row]
    BY <1>4 DEF KeepMineWrite
  <2> HIDE DEF body
  <2>3. row \in Rows
    BY <1>1, <1>2, <2>1, NoRevTyped DEF Rows, States
  <2> HIDE DEF row
  <2>4. rows' \in [RowIds -> Rows]
    BY <2>2, <2>3 DEF DeviceTyped
  <2>5. screen' \in Screens
    BY <1>4, NoConflictTyped DEF KeepMineWrite, ScreenTyped, Screens, Steps
  <2> QED BY <1>4, <2>4, <2>5 DEF KeepMineWrite, OfficeTyped, DeviceTyped, ScreenTyped, WorkTyped, server
<1>5. CASE UseOfficeBegin
  <2> DEFINE held == [rows[r] EXCEPT !.srv = office[r]]
  <2>1. r \in Revs
    BY <1>1, <1>5 DEF UseOfficeBegin
  <2>2. office[r] \in Revisions
    BY <2>1 DEF OfficeTyped
  <2>3. held \in Rows
    BY <1>2, <2>2 DEF Rows
  <2>4. screen' = [screen EXCEPT !.step = "office", !.held = held]
    BY <1>5 DEF UseOfficeBegin
  <2> HIDE DEF held
  <2>5. screen' \in Screens
    BY <2>3, <2>4 DEF ScreenTyped, Screens, Steps
  <2> QED BY <1>5, <2>5 DEF UseOfficeBegin, OfficeTyped, DeviceTyped, ScreenTyped, WorkTyped, server, device
<1>6. CASE UseOfficeCommit
  <2>1. r \in Revs
    BY <1>1, <1>6 DEF UseOfficeCommit
  <2>2. /\ rows' \in [RowIds -> Rows] /\ detail' \in [Revs -> Revisions] /\ list' \in SUBSET Revs
        /\ draft' \in Drafts /\ working' \in Workings
    BY <1>2, <1>6, <2>1, NoRowTyped, NoDraftTyped, NoWorkingTyped DEF UseOfficeCommit, DeviceTyped
  <2>3. screen' \in Screens
    BY <1>6, NoConflictTyped DEF UseOfficeCommit, ScreenTyped, Screens, Steps
  <2> QED BY <1>6, <2>2, <2>3 DEF UseOfficeCommit, OfficeTyped, DeviceTyped, ScreenTyped, WorkTyped, server
<1>7. CASE UseOfficePreserved
  <2>1. screen' \in Screens
    BY <1>7 DEF UseOfficePreserved, ScreenTyped, Screens, Steps
  <2> QED BY <1>7, <2>1 DEF UseOfficePreserved, OfficeTyped, DeviceTyped, ScreenTyped, WorkTyped, server, device
<1>8. CASE RemoveLocal
  <2>1. pulls' \in SUBSET [rev : RevIds, srv : Revisions]
    BY <1>8, OrphanedTyped DEF RemoveLocal, ScreenTyped, WorkTyped
  <2>2. rows' \in [RowIds -> Rows] /\ draft' \in Drafts /\ working' \in Workings
    BY <1>8, NoRowTyped, NoDraftTyped, NoWorkingTyped DEF RemoveLocal, DeviceTyped
  <2> QED BY <1>8, <2>1, <2>2, NoScreenTyped, NoLoadTyped
          DEF RemoveLocal, OfficeTyped, DeviceTyped, ScreenTyped, WorkTyped, server
<1> QED BY <1>3, <1>4, <1>5, <1>6, <1>7, <1>8

(* A clone is the next revision Office numbers, and the rep's screen moves on to it. *)
LEMMA CloneTypes ==
    ASSUME TypeOK, NamedInv, CloneInv,
           NewRevisionKey \/ NewRevisionFails \/ (\E lost \in BOOLEAN : NewRevision(lost))
    PROVE  TypeOK'
<1> USE DEF TypeOK
<1> DEFINE r == screen.of.rev
<1>1. r \in RowIds /\ (r # 0 => r \in Revs)
  BY Ids DEF ScreenTyped, Screens, Bases, NamedInv, NamedScreen, Named, Listed, ListedBy
<1>2. CASE NewRevisionKey
  <2>1. Cardinality(keys) + 1 \in Nat
    BY FS_CardinalityType DEF OfficeTyped
  <2>2. opkey' \in [Revs -> Nat]
    BY <1>1, <1>2, <2>1 DEF NewRevisionKey, DeviceTyped
  <2>3. screen' \in Screens
    BY <1>2 DEF NewRevisionKey, ScreenTyped, Screens, Steps
  <2> QED BY <1>2, <2>2, <2>3 DEF NewRevisionKey, OfficeTyped, DeviceTyped, ScreenTyped, WorkTyped, server
<1>3. CASE NewRevisionFails
  <2>1. screen' \in Screens
    BY <1>3 DEF NewRevisionFails, ScreenTyped, Screens, Steps
  <2> QED BY <1>3, <2>1 DEF NewRevisionFails, OfficeTyped, DeviceTyped, ScreenTyped, WorkTyped, server, device
<1>4. CASE \E lost \in BOOLEAN : NewRevision(lost)
  <2>1. PICK lost \in BOOLEAN : NewRevision(lost)
    BY <1>4
  <2> DEFINE made == {k \in keys : k.of = r /\ k.key = opkey[r]}
             new == IF made # {} THEN (CHOOSE k \in made : TRUE).rev
                    ELSE Cardinality(ListedBy(office)) + 1
             key == [of |-> r, key |-> opkey[r], rev |-> new, body |-> Blank]
             d == [tok |-> 1, doc |-> office[r].doc, ed |-> TRUE]
  <2>2. new \in Revs /\ r \in Revs
    BY <2>1 DEF NewRevision, CloneInv
  <2>3. d \in Revisions
    BY <2>2 DEF OfficeTyped, Revisions
  <2>4. key \in Keys
    BY <2>2, BlankTyped, Ids DEF Keys, DeviceTyped
  <2>5. \/ UNCHANGED server
        \/ office' = [office EXCEPT ![new] = d] /\ keys' = keys \cup {key}
    BY <2>1 DEF NewRevision
  <2>6. \/ /\ Spend("faults") /\ screen' = [screen EXCEPT !.step = "idle"]
           /\ UNCHANGED <<detail, list, opkey, seen, load, pulls>>
        \/ /\ detail' = [detail EXCEPT ![new] = office'[new]] /\ list' = list \cup {new}
           /\ opkey' = [opkey EXCEPT ![r] = 0]
           /\ screen' = FromRevision(new, office'[new], NoConflict)
           /\ load' = NoLoad /\ pulls' = Orphaned
           /\ UNCHANGED budget
    BY <2>1 DEF NewRevision
  <2>7. UNCHANGED <<rows, draft, working, pass, rec>>
    BY <2>1 DEF NewRevision
  <2> HIDE DEF new, made, key, d
  <2>8. OfficeTyped'
    BY <2>2, <2>3, <2>4, <2>5, FS_AddElement DEF OfficeTyped, server
  <2>9. office'[new] \in Revisions
    BY <2>2, <2>8 DEF OfficeTyped
  <2>10. CASE /\ Spend("faults") /\ screen' = [screen EXCEPT !.step = "idle"]
              /\ UNCHANGED <<detail, list, opkey, seen, load, pulls>>
    <3>1. screen' \in Screens
      BY <2>10 DEF ScreenTyped, Screens, Steps
    <3>2. budget' \in Budgets
      BY <2>10, SpendTyped, SpendFields
    <3> QED BY <2>7, <2>8, <2>10, <3>1, <3>2 DEF DeviceTyped, ScreenTyped, WorkTyped
  <2>11. CASE /\ detail' = [detail EXCEPT ![new] = office'[new]] /\ list' = list \cup {new}
              /\ opkey' = [opkey EXCEPT ![r] = 0]
              /\ screen' = FromRevision(new, office'[new], NoConflict)
              /\ load' = NoLoad /\ pulls' = Orphaned
              /\ UNCHANGED budget
    <3>1. screen' \in Screens
      BY <2>2, <2>9, <2>11, FromRevisionTyped, NoConflictTyped
    <3>2. pulls' \in SUBSET [rev : RevIds, srv : Revisions]
      BY <2>11, OrphanedTyped DEF ScreenTyped, WorkTyped
    <3>3. detail' \in [Revs -> Revisions] /\ list' \in SUBSET Revs /\ opkey' \in [Revs -> Nat]
      BY <2>2, <2>9, <2>11 DEF DeviceTyped
    <3> QED BY <2>7, <2>8, <2>11, <3>1, <3>2, <3>3, NoLoadTyped DEF DeviceTyped, ScreenTyped, WorkTyped
  <2> QED BY <2>6, <2>10, <2>11
<1> QED BY <1>2, <1>3, <1>4

LEMMA PassSendTypes ==
    ASSUME TypeOK, NamedInv, NEW r \in RowIds, PassSend(r)
    PROVE  /\ TypeOK'
           /\ r \in pass.todo /\ pass'.todo = pass.todo \ {r} /\ pass'.phase = pass.phase
           /\ pass'.acks = pass.acks
           /\ \A q \in RowIds : q # r => pass'.items[q] = pass.items[q]
           /\ \/ UNCHANGED <<office, keys>> /\ pass'.items[r].state \in {"pending", "failed"}
              \/ \E a : /\ Answer(a) /\ office' = a.office /\ keys' = a.keys
                        /\ \/ pass'.items[r] = a.row
                           \/ pass'.items[r].state = "pending"
<1> USE DEF TypeOK
<1> DEFINE m == pass.items[r]
           a == Handle(m, r)
<1>1. r \in pass.todo /\ pass.items \in [RowIds -> Rows] /\ m \in Rows
  BY DEF PassSend, WorkTyped, Passes
<1>2. m.state # "none"
  BY <1>1 DEF NamedInv, NamedRows
<1>3. r # 0 => r \in Listed
  BY <1>2 DEF NamedInv, NamedRows, RowNamed, Named
<1>4. Answered(r, m) => Answer(a) /\ office' = a.office /\ keys' = a.keys
  <2>1. Answered(r, m) => (r = Create => CreateFits(m))
    BY DEF Answered
  <2>2. Answered(r, m) => Answer(a)
    BY <1>1, <1>3, <2>1, HandleAnswers
  <2>3. Answered(r, m) => office' = a.office /\ keys' = a.keys
    BY DEF Answered
  <2> QED BY <2>2, <2>3
<1>5. /\ [m EXCEPT !.state = "pending"] \in Rows /\ [m EXCEPT !.state = "failed"] \in Rows
      /\ [m EXCEPT !.state = "pending"].state = "pending"
      /\ [m EXCEPT !.state = "failed"].state = "failed"
  BY <1>1 DEF Rows, States
<1>6. \E row \in Rows :
         /\ pass' = [pass EXCEPT !.todo = @ \ {r}, !.items = [@ EXCEPT ![r] = row]]
         /\ \/ UNCHANGED server /\ row.state = "failed"
            \/ /\ Answer(a) /\ office' = a.office /\ keys' = a.keys
               /\ row = a.row \/ row.state = "pending"
         /\ UNCHANGED budget \/ Spend("faults")
  <2>1. CASE /\ Answered(r, m)
             /\ pass' = [pass EXCEPT !.todo = @ \ {r}, !.items[r] = Handle(@, r).row]
             /\ UNCHANGED budget
    <3>1. a.row \in Rows
      BY <1>4, <2>1 DEF Answer
    <3>2. pass' = [pass EXCEPT !.todo = @ \ {r}, !.items = [@ EXCEPT ![r] = a.row]]
      BY <2>1
    <3> HIDE DEF a
    <3> QED BY <1>4, <2>1, <3>1, <3>2
  <2>2. CASE /\ Answered(r, m) /\ Spend("faults")
             /\ pass' = [pass EXCEPT !.todo = @ \ {r}, !.items[r].state = "pending"]
    <3>1. pass' = [pass EXCEPT !.todo = @ \ {r},
                               !.items = [@ EXCEPT ![r] = [m EXCEPT !.state = "pending"]]]
      BY <2>2
    <3> HIDE DEF a
    <3> QED BY <1>4, <1>5, <2>2, <3>1
  <2>3. CASE /\ Spend("faults")
             /\ pass' = [pass EXCEPT !.todo = @ \ {r}, !.items[r].state = "failed"]
             /\ UNCHANGED server
    <3>1. pass' = [pass EXCEPT !.todo = @ \ {r},
                               !.items = [@ EXCEPT ![r] = [m EXCEPT !.state = "failed"]]]
      BY <2>3
    <3> QED BY <1>5, <2>3, <3>1
  <2> QED BY <2>1, <2>2, <2>3 DEF PassSend, server
<1>7. PICK row \in Rows :
         /\ pass' = [pass EXCEPT !.todo = @ \ {r}, !.items = [@ EXCEPT ![r] = row]]
         /\ \/ UNCHANGED server /\ row.state = "failed"
            \/ /\ Answer(a) /\ office' = a.office /\ keys' = a.keys
               /\ row = a.row \/ row.state = "pending"
         /\ UNCHANGED budget \/ Spend("faults")
  BY <1>6
<1> HIDE DEF a
<1>8. /\ pass' \in Passes /\ pass'.todo = pass.todo \ {r} /\ pass'.phase = pass.phase
      /\ pass'.acks = pass.acks /\ pass'.items = [pass.items EXCEPT ![r] = row]
  BY <1>1, <1>7 DEF WorkTyped, Passes
<1>9. budget' \in Budgets
  BY <1>7, SpendTyped, SpendFields
<1>10. OfficeTyped'
  BY <1>7 DEF OfficeTyped, Answer, server
<1>11. UNCHANGED <<device, screen, load, pulls, rec>>
  BY DEF PassSend
<1>12. TypeOK'
  BY <1>8, <1>9, <1>10, <1>11 DEF DeviceTyped, ScreenTyped, WorkTyped, device
<1>13. pass'.items[r] = row /\ \A q \in RowIds : q # r => pass'.items[q] = pass.items[q]
  BY <1>1, <1>8
<1>14. \/ UNCHANGED <<office, keys>> /\ pass'.items[r].state \in {"pending", "failed"}
       \/ /\ Answer(a) /\ office' = a.office /\ keys' = a.keys
          /\ pass'.items[r] = a.row \/ pass'.items[r].state = "pending"
  BY <1>7, <1>13 DEF server
<1> QED BY <1>1, <1>8, <1>12, <1>13, <1>14

LEMMA RetireTyped ==
    ASSUME DeviceTyped, NEW r \in RowIds, NEW m \in Rows, NEW k
    PROVE  RetireDraft(r, k) \in Drafts /\ RetireWorking(r, m) \in Workings
BY NoDraftTyped, NoWorkingTyped DEF RetireDraft, RetireWorking, DeviceTyped

LEMMA RebaseTyped ==
    ASSUME NEW row \in Rows, NEW srv \in Revisions
    PROVE  /\ RebaseRow(row, srv) \in Rows /\ RebaseRow(row, srv).state = row.state
           /\ RebaseRow(row, srv).rev = row.rev
<1>1. srv.tok \in Nat /\ srv.doc \in Docs
  BY DEF Revisions
<1> QED BY <1>1 DEF RebaseRow, Rows

LEMMA RebasedWorkingTyped ==
    ASSUME DeviceTyped, NEW m \in Rows
    PROVE  /\ RebasedWorking(m) \in Workings
           /\ RebasedWorking(m).has = working.has /\ RebasedWorking(m).doc = working.doc
           /\ RebasedWorking(m).from = working.from
           /\ RebasedWorking(m).of.rev \in {working.of.rev, m.rev}
<1> DEFINE of == [NoBase EXCEPT !.rev = m.rev, !.tok = m.srv.tok, !.ed = FALSE]
<1>1. m.rev \in RevIds /\ m.srv.tok \in Nat
  BY DEF Rows, Revisions
<1>2. of \in Bases /\ of.rev = m.rev
  BY <1>1, NoBaseTyped DEF Bases
<1>3. RebasedWorking(m) \in {working, [working EXCEPT !.of = of]}
  BY DEF RebasedWorking
<1> HIDE DEF of
<1> QED BY <1>2, <1>3 DEF DeviceTyped, Workings

LEMMA ConvertedTyped ==
    ASSUME DeviceTyped, NEW m \in Rows
    PROVE  /\ ConvertedRow(m) \in Rows /\ ConvertedRow(m).state = rows[Create].state
           /\ ConvertedRow(m).rev = m.rev
<1>1. m.rev \in RevIds /\ m.srv.tok \in Nat /\ m.srv.doc \in Docs
  BY DEF Rows, Revisions
<1>2. rows[Create] \in Rows
  BY Ids DEF DeviceTyped
<1> QED BY <1>1, <1>2 DEF ConvertedRow, Rows

LEMMA PassTypes ==
    ASSUME TypeOK, PassStart \/ PassWriteback \/ PassEnd
    PROVE  TypeOK'
<1> USE DEF TypeOK
<1>1. CASE PassStart
  <2> DEFINE items == [r \in RowIds |-> IF Active(rows[r]) THEN rows[r] ELSE NoRow]
             todo == {r \in RowIds : rows[r].state \in {"pending", "failed"}}
  <2>1. items \in [RowIds -> Rows] /\ todo \in SUBSET RowIds
    BY NoRowTyped DEF DeviceTyped
  <2>2. pass' = [NoPass EXCEPT !.phase = "send", !.todo = todo, !.items = items]
    BY <1>1 DEF PassStart
  <2> HIDE DEF items, todo
  <2>3. pass' \in Passes
    BY <2>1, <2>2, NoPassTyped DEF Passes
  <2> QED BY <1>1, <2>3 DEF PassStart, OfficeTyped, DeviceTyped, ScreenTyped, WorkTyped, server, device
<1>2. CASE PassWriteback
  <2>1. pass.items \in [RowIds -> Rows]
    BY DEF WorkTyped, Passes
  <2>2. rows' \in [RowIds -> Rows]
    BY <1>2, <2>1 DEF PassWriteback, DeviceTyped
  <2> DEFINE acks == {r \in RowIds : pass.items[r].state = "synced"}
             sup == {r \in acks : SameRow(rows'[r], pass.items[r]) /\ rows'[r].gen # pass.items[r].gen}
  <2>3. acks \in SUBSET RowIds /\ sup \in SUBSET RowIds
    OBVIOUS
  <2>4. pass' = [pass EXCEPT !.phase = "ack", !.acks = acks, !.sup = sup]
    BY <1>2 DEF PassWriteback
  <2> HIDE DEF acks, sup
  <2>5. pass' \in Passes
    BY <2>3, <2>4 DEF WorkTyped, Passes
  <2> QED BY <1>2, <2>2, <2>5 DEF PassWriteback, OfficeTyped, DeviceTyped, ScreenTyped, WorkTyped, server
<1>3. CASE PassEnd
  BY <1>3, NoPassTyped DEF PassEnd, OfficeTyped, DeviceTyped, ScreenTyped, WorkTyped, server, device
<1> QED BY <1>1, <1>2, <1>3

LEMMA AckTypes ==
    ASSUME TypeOK, NamedInv, NEW r \in RowIds, AckDetail(r) \/ AckDrafts(r)
    PROVE  /\ TypeOK' /\ pass'.items = pass.items /\ pass'.todo = pass.todo
           /\ pass'.phase = pass.phase
           /\ pass'.acks \subseteq pass.acks /\ r \in pass.acks
           /\ pass.items[r].rev \in Listed /\ pass.items[r].rev \in Revs
<1> USE DEF TypeOK
<1> DEFINE m == pass.items[r]
<1>1. /\ r \in pass.acks /\ m \in Rows /\ m.srv \in Revisions
      /\ pass'.items = pass.items /\ pass'.todo = pass.todo /\ pass'.acks \subseteq pass.acks
      /\ pass' \in Passes /\ pass'.phase = pass.phase
  <2>1. r \in pass.acks
    BY DEF AckDetail, AckDrafts
  <2>2. pass \in Passes /\ m \in Rows
    BY DEF WorkTyped, Passes
  <2>3. m.srv \in Revisions
    BY <2>2 DEF Rows
  <2>4. \/ pass' = [pass EXCEPT !.half = @ \cup {r}]
        \/ pass' = [pass EXCEPT !.acks = @ \ {r}, !.half = @ \ {r}]
    BY DEF AckDetail, AckDrafts
  <2>5. CASE pass' = [pass EXCEPT !.half = @ \cup {r}]
    <3>1. pass' \in Passes /\ pass'.acks = pass.acks /\ pass'.phase = pass.phase
      BY <2>2, <2>5 DEF Passes
    <3>2. pass'.items = pass.items /\ pass'.todo = pass.todo
      BY <2>2, <2>5 DEF Passes
    <3> QED BY <2>1, <2>2, <2>3, <3>1, <3>2
  <2>6. CASE pass' = [pass EXCEPT !.acks = @ \ {r}, !.half = @ \ {r}]
    <3>1. pass' \in Passes /\ pass'.acks = pass.acks \ {r} /\ pass'.phase = pass.phase
      BY <2>2, <2>6 DEF Passes
    <3>2. pass'.items = pass.items /\ pass'.todo = pass.todo
      BY <2>2, <2>6 DEF Passes
    <3> QED BY <2>1, <2>2, <2>3, <3>1, <3>2
  <2> QED BY <2>4, <2>5, <2>6
<1>2. m.rev \in Listed /\ m.rev \in Revs
  BY <1>1 DEF NamedInv, NamedRows, RowNamed, Listed, ListedBy
<1>3. CASE AckDetail(r)
  <2>1. detail' \in [Revs -> Revisions] /\ list' \in SUBSET Revs
    BY <1>1, <1>2, <1>3 DEF AckDetail, DeviceTyped
  <2> QED BY <1>1, <1>2, <1>3, <2>1 DEF AckDetail, OfficeTyped, DeviceTyped, ScreenTyped, WorkTyped, server
<1>4. CASE AckDrafts(r)
  <2>1. rows' \in [RowIds -> Rows] /\ draft' \in Drafts /\ working' \in Workings
    <3>1. rows[r] \in Rows /\ RebaseRow(rows[r], m.srv) \in Rows
      BY <1>1, RebaseTyped DEF DeviceTyped
    <3>2. ConvertedRow(m) \in Rows /\ RebasedWorking(m) \in Workings
      BY <1>1, ConvertedTyped, RebasedWorkingTyped
    <3>3. RetireDraft(r, m.key) \in Drafts /\ RetireWorking(r, m) \in Workings
      BY <1>1, RetireTyped
    <3>4. CASE r \notin pass.sup
      BY <1>4, <3>3, <3>4 DEF AckDrafts, DeviceTyped
    <3>5. CASE r \in pass.sup /\ r = Create
      BY <1>4, <3>2, <3>5, NoRowTyped DEF AckDrafts, ConvertCreate, DeviceTyped
    <3>6. CASE r \in pass.sup /\ r # Create
      BY <1>4, <3>1, <3>6 DEF AckDrafts, DeviceTyped
    <3> QED BY <3>4, <3>5, <3>6
  <2> QED BY <1>1, <1>2, <1>4, <2>1 DEF AckDrafts, OfficeTyped, DeviceTyped, ScreenTyped, WorkTyped, server
<1> QED BY <1>3, <1>4

LEMMA RecoverTypes ==
    ASSUME TypeOK, NamedInv,
           Crash \/ RecoverEnd \/ \E r \in RowIds : RecoverSettle(r) \/ RecoverRemove(r)
    PROVE  TypeOK'
<1> USE DEF TypeOK
<1>1. CASE Crash
  <2> DEFINE todo == {r \in RowIds : rows[r].state = "synced"}
  <2>1. rec' = [NoRec EXCEPT !.on = TRUE, !.rows = rows, !.todo = todo] /\ todo \in SUBSET RowIds
    BY <1>1 DEF Crash
  <2> HIDE DEF todo
  <2>2. rec' \in Recoveries
    BY <2>1, NoRecTyped DEF Recoveries, DeviceTyped
  <2>3. budget' \in Budgets
    BY <1>1, SpendTyped, SpendFields DEF Crash
  <2>4. screen' \in Screens /\ load' \in Loads /\ pass' \in Passes /\ pulls' = {}
    BY <1>1, NoScreenTyped, NoLoadTyped, NoPassTyped DEF Crash
  <2> QED BY <1>1, <2>2, <2>3, <2>4 DEF Crash, OfficeTyped, DeviceTyped, ScreenTyped, WorkTyped, server, device
<1>2. CASE RecoverEnd
  BY <1>2, NoRecTyped, NoWorkingTyped
     DEF RecoverEnd, OfficeTyped, DeviceTyped, ScreenTyped, WorkTyped, server
<1>3. CASE \E r \in RowIds : RecoverSettle(r) \/ RecoverRemove(r)
  <2>1. PICK r \in RowIds : RecoverSettle(r) \/ RecoverRemove(r)
    BY <1>3
  <2> DEFINE m == rec.rows[r]
  <2>2. m \in Rows /\ m.srv \in Revisions /\ r \in rec.todo /\ rec' \in Recoveries
    <3>1. rec \in Recoveries /\ m \in Rows
      BY DEF WorkTyped, Recoveries
    <3>2. m.srv \in Revisions
      BY <3>1 DEF Rows
    <3>3. /\ r \in rec.todo
          /\ \/ rec' = [rec EXCEPT !.half = @ \cup {r}]
             \/ rec' = [rec EXCEPT !.todo = @ \ {r}, !.half = @ \ {r}]
      BY <2>1 DEF RecoverSettle, RecoverRemove
    <3>4. rec' \in Recoveries
      BY <3>1, <3>3 DEF Recoveries
    <3> QED BY <3>1, <3>2, <3>3, <3>4
  <2>3. m.rev \in Revs
    BY <2>2 DEF NamedInv, NamedRows, RowNamed, Listed, ListedBy
  <2>4. CASE RecoverSettle(r)
    <3>1. RetireDraft(r, m.key) \in Drafts /\ RetireWorking(r, m) \in Workings
      BY <2>2, RetireTyped
    <3>2. /\ detail' \in [Revs -> Revisions] /\ list' \in SUBSET Revs
          /\ draft' \in Drafts /\ working' \in Workings
      BY <2>2, <2>3, <2>4, <3>1 DEF RecoverSettle, DeviceTyped
    <3> QED BY <2>2, <2>4, <3>2 DEF RecoverSettle, OfficeTyped, DeviceTyped, ScreenTyped, WorkTyped, server
  <2>5. CASE RecoverRemove(r)
    <3>1. rows' \in [RowIds -> Rows]
      BY <2>5, NoRowTyped DEF RecoverRemove, DeviceTyped
    <3> QED BY <2>2, <2>5, <3>1 DEF RecoverRemove, OfficeTyped, DeviceTyped, ScreenTyped, WorkTyped, server
  <2> QED BY <2>1, <2>4, <2>5
<1> QED BY <1>1, <1>2, <1>3
-----------------------------------------------------------------------------
(* Names: the newest revision, and what keeps the records' revisions known *)

(* pickCurrent finds the newest revision of a list that has one. *)
LEMMA NewestIsTop ==
    ASSUME NEW S \in SUBSET Revs, NEW top \in S, \A r \in S : r =< top
    PROVE  /\ Newest(S) \in S /\ \A r \in S : r =< Newest(S)
           /\ Newest(S) # 0
<1>1. S # {} /\ Newest(S) = CHOOSE r \in S : \A q \in S : q =< r
  BY DEF Newest
<1>2. Newest(S) \in S /\ \A q \in S : q =< Newest(S)
  BY <1>1
<1> QED BY <1>2, Ids

LEMMA NewestListed ==
    ASSUME TypeOK, NamedOffice, NEW S \in {list, ListedBy(office)}
    PROVE  S # {} => Newest(S) \in S /\ (\A r \in S : r =< Newest(S)) /\ Newest(S) # 0
<1>1. ASSUME S # {}  PROVE S \in SUBSET Revs /\ \E top \in S : \A r \in S : r =< top
  <2>1. CASE S = list
    BY <1>1, <2>1 DEF NamedOffice, TypeOK, DeviceTyped
  <2>2. CASE S = ListedBy(office)
    <3>1. PICK n \in 0..MaxRevs : Listed = 1..n
      BY DEF NamedOffice, Numbered
    <3>2. n \in S
      BY <1>1, <2>2, <3>1, MeasurementAssumption DEF Listed
    <3> QED BY <2>2, <3>1, <3>2, MeasurementAssumption DEF Listed, ListedBy
  <2> QED BY <2>1, <2>2
<1> QED BY <1>1, NewestIsTop

LEMMA OfficeFrame ==
    ASSUME NamedOffice, UNCHANGED <<office, keys, list>>  PROVE NamedOffice' /\ Listed' = Listed
BY DEF NamedOffice, Numbered, Listed

(* A list of Office's revisions, extended by one of them. *)
LEMMA ListGrows ==
    ASSUME TypeOK, NamedOffice, UNCHANGED <<office, keys>>, NEW q \in Listed,
           list' = list \cup {q}
    PROVE  NamedOffice' /\ Listed' = Listed
<1>1. Listed' = Listed /\ Numbered' /\ \A k \in keys' : k.rev \in Listed' /\ k.of < k.rev
  BY DEF NamedOffice, Numbered, Listed
<1>2. list' \subseteq Listed'
  BY <1>1 DEF NamedOffice
<1>3. q \in Revs /\ list \in SUBSET Revs
  BY DEF Listed, ListedBy, TypeOK, DeviceTyped
<1>4. \E top \in list' : \A r \in list' : r =< top
  <2>1. CASE list = {}
    BY <1>3, <2>1, Ids
  <2>2. CASE list # {}
    <3>1. PICK top \in list : \A r \in list : r =< top
      BY <2>2 DEF NamedOffice
    <3>2. CASE q =< top
      BY <3>1, <3>2
    <3>3. CASE ~(q =< top)
      <4>1. \A r \in list' : r =< q
        BY <1>3, <3>1, <3>3, Ids
      <4> QED BY <4>1
    <3> QED BY <3>2, <3>3
  <2> QED BY <2>1, <2>2
<1> QED BY <1>1, <1>2, <1>4 DEF NamedOffice

LEMMA ScreenFrame ==
    ASSUME NamedScreen, Listed \subseteq Listed',
           screen'.of.rev \in {0, screen.of.rev, working.of.rev, load.head} \cup Listed',
           working'.of.rev \in {0, screen.of.rev, working.of.rev} \cup Listed',
           load'.head \in {0, load.head} \cup Listed',
           load'.on => load'.head # 0,
           screen'.step = "office" => screen'.of.rev # 0
    PROVE  NamedScreen'
BY DEF NamedScreen, Named

LEMMA ScreenSame ==
    ASSUME NamedScreen, Listed \subseteq Listed', UNCHANGED <<screen, working, load>>
    PROVE  NamedScreen'
BY DEF NamedScreen, Named

LEMMA RowsSame ==
    ASSUME NamedRows, Listed \subseteq Listed', UNCHANGED <<rows, pass, rec>>  PROVE NamedRows'
BY DEF NamedRows, RowNamed, Named

(* Rows exchanged for the pass's copies, removed, or made anew. *)
LEMMA RowsFrame ==
    ASSUME NamedRows, Listed \subseteq Listed', UNCHANGED <<pass, rec>>,
           \A r \in RowIds : rows'[r] \in {rows[r], pass.items[r], NoRow} \/ RowNamed(r, rows[r])'
    PROVE  NamedRows'
<1>1. \A r \in RowIds : RowNamed(r, NoRow)' /\ RowNamed(r, pass.items[r])' /\ RowNamed(r, rec.rows[r])'
  BY DEF NamedRows, RowNamed, Named, NoRow
<1>2. \A r \in RowIds : rows'[r] = rows[r] => RowNamed(r, rows[r])'
  BY DEF NamedRows, RowNamed, Named
<1>3. \A r \in RowIds : rows'[r] = pass.items[r] => RowNamed(r, rows[r])'
  BY DEF NamedRows, RowNamed, Named
<1>4. \A r \in RowIds : rows'[r] = NoRow => RowNamed(r, rows[r])'
  BY DEF RowNamed, NoRow
<1> QED BY <1>1, <1>2, <1>3, <1>4 DEF NamedRows

LEMMA OfficeNames ==
    ASSUME TypeOK, NamedInv, NEW r \in Revs,
           OfficeTransition(r) \/ (\E g \in Groups : OfficeEdit(r, g))
    PROVE  NamedInv'
<1>1. UNCHANGED <<keys, list, screen, working, load, rows, pass, rec>>
  BY DEF OfficeTransition, OfficeEdit, device
<1>2. Listed' = Listed
  <2>1. ListedBy(office') = ListedBy(office)
    BY OfficeTypes, ListedKept
  <2> QED BY <2>1 DEF Listed
<1> QED BY <1>1, <1>2, ScreenSame, RowsSame DEF NamedInv, NamedOffice, Numbered

LEMMA LoadNames ==
    ASSUME TypeOK, NamedInv,
           (\E online \in BOOLEAN : LoadBegin(online)) \/ LoadEnd \/ (\E p \in pulls : PullEnd(p))
             \/ (\E r \in Revs : RefreshLead(r))
    PROVE  TypeOK' /\ NamedInv'
<1> USE DEF NamedInv
<1>1. CASE \E online \in BOOLEAN : LoadBegin(online)
  <2>1. PICK online \in BOOLEAN : LoadBegin(online)
    BY <1>1
  <2>2. \A S \in {list, ListedBy(office)} : S # {} => Newest(S) \in S
    BY NewestListed
  <2>3. TypeOK'
    BY <2>1, <2>2, LoadBeginTypes
  <2>4. UNCHANGED <<office, keys, rows, pass, rec>> /\ (list' = list \/ list' = ListedBy(office))
    BY <2>1 DEF LoadBegin, ShowWorking, server
  <2>5. NamedOffice' /\ Listed' = Listed
    <3>1. CASE list' = list
      BY <2>4, <3>1, OfficeFrame
    <3>2. CASE list' = ListedBy(office)
      <4>1. Listed' = Listed /\ Numbered' /\ (\A k \in keys' : k.rev \in Listed' /\ k.of < k.rev)
        BY <2>4 DEF NamedOffice, Numbered, Listed
      <4>2. list' = {} \/ \E top \in list' : \A r \in list' : r =< top
        BY <3>2, NewestListed
      <4> QED BY <3>2, <4>1, <4>2 DEF NamedOffice, Listed
    <3> QED BY <2>4, <3>1, <3>2
  <2>6. NamedScreen'
    <3>1. CASE working.has /\ HasContent(working.doc)
      <4>1. ShowWorking
        BY <2>1, <3>1 DEF LoadBegin
      <4>2. /\ screen'.of = working.of /\ screen'.step = "idle" /\ load' = NoLoad
            /\ UNCHANGED working
        BY <4>1 DEF ShowWorking, Shown, NoScreen
      <4> QED BY <2>5, <4>2, NoLoadTyped, ScreenFrame
    <3>2. CASE ~(working.has /\ HasContent(working.doc)) /\ Newest(list') = 0
      <4>1. ShowDraft /\ working' = NoWorking
        BY <2>1, <3>2 DEF LoadBegin
      <4>2. /\ screen'.of.rev = 0 /\ screen'.step = "idle" /\ load' = NoLoad
        BY <4>1 DEF ShowDraft, Shown, NoScreen, NoBase
      <4> QED BY <2>5, <4>1, <4>2, NoLoadTyped, NoWorkingTyped, ScreenFrame
    <3>3. CASE ~(working.has /\ HasContent(working.doc)) /\ Newest(list') # 0
      <4>1. load'.head = Newest(list') /\ UNCHANGED screen /\ working' = NoWorking
        BY <2>1, <3>3 DEF LoadBegin
      <4>2. Newest(list') \in list'
        <5>1. list' # {}
          BY <3>3 DEF Newest
        <5> QED BY <2>4, <5>1, NewestListed
      <4>3. load'.head \in Listed'
        BY <2>5, <4>1, <4>2 DEF NamedOffice
      <4>4. screen'.step = "office" => screen'.of.rev # 0
        BY <4>1 DEF NamedScreen
      <4> QED BY <2>5, <3>3, <4>1, <4>3, <4>4, NoWorkingTyped, ScreenFrame
    <3> QED BY <3>1, <3>2, <3>3
  <2> QED BY <2>3, <2>4, <2>5, <2>6, RowsSame
<1>2. CASE LoadEnd
  <2>1. load.head \in Revs
    BY <1>2 DEF LoadEnd, NamedScreen, Named, Listed, ListedBy
  <2>2. TypeOK' /\ (screen'.of.rev = 0 \/ screen'.of.rev = load.head) /\ screen'.step = "idle"
    BY <1>2, <2>1, LoadEndTypes
  <2>3. UNCHANGED <<office, keys, list, working, rows, pass, rec>> /\ load' = NoLoad
    BY <1>2 DEF LoadEnd, server
  <2>4. NamedOffice' /\ Listed' = Listed
    BY <2>3, OfficeFrame
  <2>5. NamedScreen'
    BY <2>2, <2>3, <2>4, NoLoadTyped, ScreenFrame
  <2> QED BY <2>2, <2>3, <2>4, <2>5, RowsSame
<1>3. CASE (\E p \in pulls : PullEnd(p)) \/ (\E r \in Revs : RefreshLead(r))
  <2>1. UNCHANGED <<office, keys, list, working, screen, load, rows, pass, rec>>
    BY <1>3 DEF PullEnd, RefreshLead, server, device
  <2>2. NamedOffice' /\ Listed' = Listed
    BY <2>1, OfficeFrame
  <2> QED BY <1>3, <2>1, <2>2, PullTypes, ScreenSame, RowsSame
<1> QED BY <1>1, <1>2, <1>3

LEMMA EditNames ==
    ASSUME TypeOK, NamedInv,
           Open \/ Leave \/ Autosave \/ Revert \/ \E g \in Groups, empties \in BOOLEAN : Type(g, empties)
    PROVE  NamedInv'
<1>1. UNCHANGED <<office, keys, list, rows, pass, rec>>
  BY DEF Open, Leave, Autosave, Revert, Type, server, device
<1>2. NamedOffice' /\ Listed' = Listed
  BY <1>1, OfficeFrame DEF NamedInv
<1>3. AsWorking.of = screen.of
  BY DEF AsWorking
<1>4. /\ screen'.of.rev \in {0, screen.of.rev} /\ screen'.step # "office"
      /\ working'.of.rev \in {0, screen.of.rev, working.of.rev} /\ load' \in {load, NoLoad}
  <2>1. screen \in Screens
    BY DEF TypeOK, ScreenTyped
  <2>2. CASE Open
    BY <2>2 DEF Open, NoScreen, NoBase, device
  <2>3. CASE Leave
    BY <2>3, <1>3, NoScreenTyped DEF Leave
  <2>4. CASE Autosave
    BY <2>4, <1>3 DEF Autosave, Editable
  <2>5. CASE Revert
    BY <2>1, <2>5, NoWorkingTyped DEF Revert, Editable, Screens
  <2>6. CASE \E g \in Groups, empties \in BOOLEAN : Type(g, empties)
    <3>1. PICK g \in Groups, empties \in BOOLEAN : Type(g, empties)
      BY <2>6
    <3>2. screen'.of = screen.of /\ screen'.step = screen.step
      BY <2>1, <3>1 DEF Type, Screens
    <3> QED BY <3>1, <3>2 DEF Type, Editable, device
  <2> QED BY <2>2, <2>3, <2>4, <2>5, <2>6
<1>5. load'.head \in {0, load.head} /\ (load'.on => load'.head # 0)
  BY <1>4, NoLoadTyped DEF NamedInv, NamedScreen
<1>6. NamedScreen'
  BY <1>2, <1>4, <1>5, ScreenFrame DEF NamedInv
<1> QED BY <1>1, <1>2, <1>6, RowsSame DEF NamedInv

LEMMA SaveNames ==
    ASSUME TypeOK, NamedInv, SaveBegin \/ SaveQueue \/ SaveClear
    PROVE  NamedInv'
<1> USE DEF NamedInv
<1>1. UNCHANGED <<office, keys, list, pass, rec>>
  BY DEF SaveBegin, SaveQueue, SaveClear, server
<1>2. NamedOffice' /\ Listed' = Listed
  BY <1>1, OfficeFrame
<1>3. screen \in Screens /\ rows \in [RowIds -> Rows]
  BY DEF TypeOK, ScreenTyped, DeviceTyped
<1>4. CASE SaveBegin
  <2>1. screen'.of = screen.of /\ screen'.step = "queue" /\ UNCHANGED <<rows, working, load>>
    BY <1>3, <1>4 DEF SaveBegin, Screens
  <2>2. NamedScreen'
    BY <1>2, <2>1, ScreenFrame DEF NamedScreen
  <2> QED BY <1>1, <1>2, <2>1, <2>2, RowsSame
<1>5. CASE SaveQueue
  <2>1. screen'.of = screen.of /\ screen'.step = "clear" /\ UNCHANGED <<working, load>>
    BY <1>3, <1>5 DEF SaveQueue, Screens
  <2>2. NamedScreen'
    BY <1>2, <2>1, ScreenFrame DEF NamedScreen
  <2> DEFINE row == [screen.held EXCEPT !.state = "pending", !.gen = rows[screen.of.rev].gen + 1,
                                        !.save = budget.saves]
  <2>3. row.state = "pending"
    BY <1>3 DEF Screens, Rows
  <2>4. rows' = [rows EXCEPT ![screen.of.rev] = row]
    BY <1>5 DEF SaveQueue
  <2> HIDE DEF row
  <2>5. \A r \in RowIds : rows'[r] = rows[r] \/ RowNamed(r, rows[r])'
    BY <1>2, <1>3, <2>3, <2>4 DEF RowNamed, NamedScreen, Named
  <2>6. NamedRows'
    BY <1>1, <1>2, <2>5, RowsFrame
  <2> QED BY <1>2, <2>2, <2>6
<1>6. CASE SaveClear
  <2>1. /\ screen' = NoScreen /\ load' = NoLoad /\ working' = NoWorking /\ UNCHANGED rows
    BY <1>6 DEF SaveClear
  <2>2. NamedScreen'
    BY <1>2, <2>1, NoScreenTyped, NoLoadTyped, NoWorkingTyped, ScreenFrame
  <2> QED BY <1>1, <1>2, <2>1, <2>2, RowsSame
<1> QED BY <1>4, <1>5, <1>6

LEMMA ConflictNames ==
    ASSUME TypeOK, NamedInv,
           KeepMineBegin \/ KeepMineWrite \/ UseOfficeBegin \/ UseOfficeCommit
             \/ UseOfficePreserved \/ RemoveLocal
    PROVE  NamedInv'
<1> USE DEF NamedInv
<1>1. UNCHANGED <<office, keys, pass, rec>>
  BY DEF KeepMineBegin, KeepMineWrite, UseOfficeBegin, UseOfficeCommit, UseOfficePreserved,
         RemoveLocal, server, device
<1>2. screen \in Screens /\ rows \in [RowIds -> Rows]
  BY DEF TypeOK, ScreenTyped, DeviceTyped
<1>3. CASE KeepMineBegin \/ UseOfficeBegin \/ UseOfficePreserved
  <2>1. /\ screen'.of = screen.of /\ UNCHANGED <<list, rows, working, load>>
        /\ screen'.step = "office" => screen.of.rev # 0
    <3>1. CASE KeepMineBegin
      BY <1>2, <3>1 DEF KeepMineBegin, Screens, device
    <3>2. CASE UseOfficeBegin
      BY <1>2, <3>2 DEF UseOfficeBegin, Screens, device
    <3>3. CASE UseOfficePreserved
      BY <1>2, <3>3 DEF UseOfficePreserved, Screens, device
    <3> QED BY <1>3, <3>1, <3>2, <3>3
  <2>2. NamedOffice' /\ Listed' = Listed
    BY <1>1, <2>1, OfficeFrame
  <2>3. NamedScreen'
    BY <2>1, <2>2, ScreenFrame DEF NamedScreen
  <2> QED BY <1>1, <2>1, <2>2, <2>3, RowsSame
<1>4. CASE KeepMineWrite
  <2> DEFINE m == screen.held
             srv == screen.conflict.srv
             row == [m EXCEPT !.state = "pending", !.tok = srv.tok, !.srv = NoRev,
                              !.body = Merge(m.base, m.body, srv.doc),
                              !.base = srv.doc, !.baseTok = srv.tok]
  <2>1. /\ screen'.of = screen.of /\ screen'.step = "opening" /\ UNCHANGED <<list, working, load>>
    BY <1>2, <1>4 DEF KeepMineWrite, Screens
  <2>2. NamedOffice' /\ Listed' = Listed
    BY <1>1, <2>1, OfficeFrame
  <2>3. NamedScreen'
    BY <2>1, <2>2, ScreenFrame DEF NamedScreen
  <2>4. row.state = "pending"
    BY <1>2 DEF Screens, Rows
  <2>5. rows' = [rows EXCEPT ![screen.of.rev] = row]
    BY <1>4 DEF KeepMineWrite
  <2> HIDE DEF row
  <2>6. \A r \in RowIds : rows'[r] = rows[r] \/ RowNamed(r, rows[r])'
    BY <1>2, <2>2, <2>4, <2>5 DEF RowNamed, NamedScreen, Named
  <2>7. NamedRows'
    BY <1>1, <2>2, <2>6, RowsFrame
  <2> QED BY <2>2, <2>3, <2>7
<1>5. CASE UseOfficeCommit
  <2>1. /\ screen'.of = screen.of /\ screen'.step = "opening" /\ working' = NoWorking
        /\ UNCHANGED load /\ list' = list \cup {screen.of.rev}
        /\ rows' = [rows EXCEPT ![screen.of.rev] = NoRow]
    BY <1>2, <1>5 DEF UseOfficeCommit, Screens
  <2>2. screen.of.rev \in Listed
    BY <1>5 DEF UseOfficeCommit, NamedScreen, Named
  <2>3. NamedOffice' /\ Listed' = Listed
    BY <1>1, <2>1, <2>2, ListGrows
  <2>4. NamedScreen'
    BY <2>1, <2>3, NoWorkingTyped, ScreenFrame DEF NamedScreen
  <2>5. NamedRows'
    BY <1>1, <1>2, <2>1, <2>3, RowsFrame
  <2> QED BY <2>3, <2>4, <2>5
<1>6. CASE RemoveLocal
  <2>1. /\ screen' = NoScreen /\ load' = NoLoad /\ working' = NoWorking /\ UNCHANGED list
        /\ rows' = [rows EXCEPT ![Create] = NoRow]
    BY <1>6 DEF RemoveLocal
  <2>2. NamedOffice' /\ Listed' = Listed
    BY <1>1, <2>1, OfficeFrame
  <2>3. NamedScreen'
    BY <2>1, <2>2, NoScreenTyped, NoLoadTyped, NoWorkingTyped, ScreenFrame
  <2>4. NamedRows'
    BY <1>1, <1>2, <2>1, <2>2, RowsFrame
  <2> QED BY <2>2, <2>3, <2>4
<1> QED BY <1>3, <1>4, <1>5, <1>6

(* What NewRevision makes: the clone a key made before, or Office's next revision. *)
LEMMA CloneNumber ==
    ASSUME TypeOK, NamedInv, CloneInv, NEW lost \in BOOLEAN, NewRevision(lost)
    PROVE  \E new \in Revs :
              /\ screen.of.rev \in Revs /\ screen.of.rev < new
              /\ NamedOffice' \/ ~lost
              /\ Numbered' /\ Listed \subseteq Listed' /\ new \in Listed'
              /\ \/ UNCHANGED <<office, keys>>
                 \/ /\ \A k \in keys : ~(k.of = screen.of.rev /\ k.key = opkey[screen.of.rev])
                    /\ \E key : /\ keys' = keys \cup {key} /\ key.of = screen.of.rev
                                /\ key.key = opkey[screen.of.rev] /\ key.rev = new
              /\ IF lost
                 THEN screen' = [screen EXCEPT !.step = "idle"] /\ UNCHANGED <<list, opkey, load>>
                 ELSE /\ list' = list \cup {new} /\ opkey' = [opkey EXCEPT ![screen.of.rev] = 0]
                      /\ screen' = FromRevision(new, office'[new], NoConflict)
                      /\ office'[new] \in Revisions /\ load' = NoLoad
<1> USE DEF NamedInv
<1> DEFINE r == screen.of.rev
           made == {k \in keys : k.of = r /\ k.key = opkey[r]}
           new == IF made # {} THEN (CHOOSE k \in made : TRUE).rev
                  ELSE Cardinality(ListedBy(office)) + 1
           key == [of |-> r, key |-> opkey[r], rev |-> new, body |-> Blank]
           d == [tok |-> 1, doc |-> office[r].doc, ed |-> TRUE]
<1>1. /\ new \in Revs /\ screen.step = "clone"
      /\ IF made # {} THEN UNCHANGED server
         ELSE office' = [office EXCEPT ![new] = d] /\ keys' = keys \cup {key}
      /\ IF lost
         THEN screen' = [screen EXCEPT !.step = "idle"] /\ UNCHANGED <<list, opkey, load>>
         ELSE /\ list' = list \cup {new} /\ opkey' = [opkey EXCEPT ![r] = 0]
              /\ screen' = FromRevision(new, office'[new], NoConflict)
              /\ load' = NoLoad
  BY Zenon DEF NewRevision
<1>2. r \in Revs /\ r \in Listed
  BY <1>1 DEF CloneInv, NamedScreen, Named, Revs
<1>3. PICK n \in 0..MaxRevs : Listed = 1..n
  BY DEF NamedOffice, Numbered
<1>4. office'[new] \in Revisions
  BY <1>1, CloneTypes DEF TypeOK, OfficeTyped
<1>5. CASE made # {}
  <2>1. (CHOOSE k \in made : TRUE) \in made /\ new = (CHOOSE k \in made : TRUE).rev
    BY <1>5
  <2>2. new \in Listed /\ r < new
    BY <2>1 DEF NamedOffice
  <2>3. UNCHANGED <<office, keys>>
    BY <1>1, <1>5 DEF server
  <2>4. Numbered' /\ Listed' = Listed
    BY <2>3 DEF NamedOffice, Numbered, Listed
  <2>5. lost => NamedOffice'
    BY <1>1, <2>3, OfficeFrame
  <2> HIDE DEF new, made
  <2> QED BY <1>1, <1>2, <1>4, <2>2, <2>3, <2>4, <2>5
<1>6. CASE made = {}
  <2>1. new = n + 1 /\ r < n + 1
    BY <1>2, <1>3, <1>6, CountListed, MeasurementAssumption DEF Listed
  <2>2. d \in Revisions /\ d.tok > 0
    BY <1>2 DEF TypeOK, OfficeTyped, Revisions
  <2>3. office' = [office EXCEPT ![n + 1] = d] /\ keys' = keys \cup {key} /\ n + 1 \in Revs
    BY <1>1, <1>6, <2>1
  <2>4. \A k \in keys : ~(k.of = r /\ k.key = opkey[r])
    BY <1>6
  <2> HIDE DEF d, made
  <2>5. /\ ListedBy(office') = 1..(n + 1) /\ n + 1 \in 0..MaxRevs
        /\ ListedBy(office) \subseteq 1..(n + 1)
    BY <1>3, <2>2, <2>3, ListedGrows DEF TypeOK, OfficeTyped, Listed
  <2>6. Numbered' /\ Listed \subseteq Listed' /\ new \in Listed'
    <3>1. Listed' = 1..(n + 1) /\ new \in 1..(n + 1)
      BY <1>1, <2>1, <2>5 DEF Listed, Revs
    <3> QED BY <2>5, <3>1 DEF Numbered, Listed
  <2>7. key.of = r /\ key.key = opkey[r] /\ key.rev = new
    OBVIOUS
  <2> HIDE DEF new, key
  <2>8. lost => NamedOffice'
    <3>1. lost => list' = list
      BY <1>1
    <3>2. \A k \in keys' : k.rev \in Listed' /\ k.of < k.rev
      BY <2>1, <2>3, <2>6, <2>7 DEF NamedOffice
    <3> QED BY <2>6, <3>1, <3>2 DEF NamedOffice
  <2> QED BY <1>1, <1>2, <1>4, <2>1, <2>3, <2>4, <2>6, <2>7, <2>8
<1> QED BY <1>5, <1>6

LEMMA CloneNames ==
    ASSUME TypeOK, NamedInv, CloneInv,
           NewRevisionKey \/ NewRevisionFails \/ (\E lost \in BOOLEAN : NewRevision(lost))
    PROVE  NamedInv'
<1> USE DEF NamedInv
<1>1. UNCHANGED <<rows, working, pass, rec>>
  BY DEF NewRevisionKey, NewRevisionFails, NewRevision, device
<1>2. screen \in Screens
  BY DEF TypeOK, ScreenTyped
<1>3. CASE NewRevisionKey \/ NewRevisionFails
  <2>1. UNCHANGED <<office, keys, list, load>>
    BY <1>3 DEF NewRevisionKey, NewRevisionFails, server, device
  <2>2. screen'.of = screen.of /\ screen'.step # "office"
    BY <1>2, <1>3 DEF NewRevisionKey, NewRevisionFails, Screens
  <2>3. NamedOffice' /\ Listed' = Listed
    BY <2>1, OfficeFrame
  <2>4. NamedScreen'
    BY <1>1, <2>1, <2>2, <2>3, ScreenFrame DEF NamedScreen
  <2> QED BY <1>1, <2>3, <2>4, RowsSame
<1>4. CASE \E lost \in BOOLEAN : NewRevision(lost)
  <2>1. PICK lost \in BOOLEAN : NewRevision(lost)
    BY <1>4
  <2> DEFINE r == screen.of.rev
  <2>2. PICK new \in Revs :
              /\ r \in Revs /\ r < new
              /\ NamedOffice' \/ ~lost
              /\ Numbered' /\ Listed \subseteq Listed' /\ new \in Listed'
              /\ \/ UNCHANGED <<office, keys>>
                 \/ /\ \A k \in keys : ~(k.of = r /\ k.key = opkey[r])
                    /\ \E key : /\ keys' = keys \cup {key} /\ key.of = r
                                /\ key.key = opkey[r] /\ key.rev = new
              /\ IF lost
                 THEN screen' = [screen EXCEPT !.step = "idle"] /\ UNCHANGED <<list, opkey, load>>
                 ELSE /\ list' = list \cup {new} /\ opkey' = [opkey EXCEPT ![r] = 0]
                      /\ screen' = FromRevision(new, office'[new], NoConflict)
                      /\ office'[new] \in Revisions /\ load' = NoLoad
    BY <2>1, CloneNumber
  <2>3. NamedRows'
    BY <1>1, <2>2, RowsSame
  <2>4. CASE lost
    <3>1. screen'.of = screen.of /\ screen'.step = "idle" /\ UNCHANGED load
      BY <1>2, <2>2, <2>4 DEF Screens
    <3>2. NamedScreen'
      BY <1>1, <2>2, <3>1, ScreenFrame DEF NamedScreen
    <3> QED BY <2>2, <2>3, <2>4, <3>2
  <2>5. CASE ~lost
    <3>1. screen'.of.rev = new /\ screen'.step = "idle" /\ load' = NoLoad
      BY <2>2, <2>5, FromRevisionTyped, NoConflictTyped
    <3>2. NamedScreen'
      BY <1>1, <2>2, <3>1, NoLoadTyped, ScreenFrame
    <3>3. list' = list \cup {new} /\ list' \subseteq Listed'
      BY <2>2, <2>5 DEF NamedOffice
    <3>4. \A k \in keys' : k.rev \in Listed' /\ k.of < k.rev
      BY <2>2 DEF NamedOffice
    <3>5. list' = {} \/ \E top \in list' : \A q \in list' : q =< top
      <4>1. list \subseteq Nat /\ new \in Nat
        BY Ids DEF TypeOK, DeviceTyped
      <4>2. CASE list = {}
        BY <3>3, <4>1, <4>2
      <4>3. CASE list # {}
        <5>1. PICK top \in list : \A q \in list : q =< top
          BY <4>3 DEF NamedOffice
        <5>2. CASE new =< top
          BY <3>3, <5>1, <5>2
        <5>3. CASE ~(new =< top)
          <6>1. \A q \in list' : q =< new
            BY <3>3, <4>1, <5>1, <5>3
          <6> QED BY <3>3, <6>1
        <5> QED BY <5>2, <5>3
      <4> QED BY <4>2, <4>3
    <3> QED BY <2>2, <2>3, <3>2, <3>3, <3>4, <3>5 DEF NamedOffice
  <2> QED BY <2>4, <2>5
<1> QED BY <1>3, <1>4

LEMMA PassNames ==
    ASSUME TypeOK, NamedInv, PassStart \/ PassWriteback \/ PassEnd
    PROVE  NamedInv'
<1> USE DEF NamedInv
<1>1. UNCHANGED <<office, keys, list, screen, working, load, rec>>
  BY DEF PassStart, PassWriteback, PassEnd, server, device
<1>2. NamedOffice' /\ Listed' = Listed
  BY <1>1, OfficeFrame
<1>3. NamedScreen'
  BY <1>1, <1>2, ScreenSame
<1>4. pass \in Passes /\ rows \in [RowIds -> Rows]
  BY DEF TypeOK, WorkTyped, DeviceTyped
<1>5. /\ \A r \in RowIds : RowNamed(r, rows[r])' = RowNamed(r, rows'[r])
      /\ \A r \in RowIds : RowNamed(r, pass.items[r])' = RowNamed(r, pass'.items[r])
      /\ \A r \in RowIds : RowNamed(r, rec.rows[r])' = RowNamed(r, rec.rows[r])
      /\ \A r \in RowIds : RowNamed(r, NoRow)
  BY <1>1, <1>2 DEF RowNamed, Named, NoRow
<1>6. CASE PassStart
  <2>1. /\ pass'.todo = {r \in RowIds : rows[r].state \in {"pending", "failed"}}
        /\ pass'.items = [r \in RowIds |-> IF Active(rows[r]) THEN rows[r] ELSE NoRow]
        /\ pass'.acks = {} /\ UNCHANGED rows
    BY <1>6 DEF PassStart, NoPass, device
  <2>2. \A r \in RowIds : pass'.items[r] \in {rows[r], NoRow}
    BY <2>1
  <2>3. \A r \in pass'.todo : pass'.items[r].state # "none"
    BY <2>1 DEF Active
  <2> QED BY <1>1, <1>2, <1>3, <1>5, <2>1, <2>2, <2>3 DEF NamedRows
<1>7. CASE PassWriteback
  <2>1. /\ pass'.items = pass.items /\ pass'.todo = {} /\ pass'.phase = "ack"
        /\ pass'.acks = {r \in RowIds : pass.items[r].state = "synced"}
    <3>1. pass.todo = {}
      BY <1>7 DEF PassWriteback
    <3>2. pass'.items = pass.items /\ pass'.todo = pass.todo
      BY <1>4, <1>7 DEF PassWriteback, Passes
    <3>3. pass'.acks = {r \in RowIds : pass.items[r].state = "synced"}
      BY <1>4, <1>7 DEF PassWriteback, Passes
    <3>4. pass'.phase = "ack"
      BY <1>4, <1>7 DEF PassWriteback, Passes
    <3> QED BY <3>1, <3>2, <3>3, <3>4
  <2>2. \A r \in RowIds : rows'[r] \in {rows[r], pass.items[r]}
    BY <1>7 DEF PassWriteback
  <2>3. \A r \in RowIds : RowNamed(r, rows[r])' /\ RowNamed(r, pass.items[r])'
    BY <1>5, <2>1, <2>2 DEF NamedRows
  <2> QED BY <1>1, <1>2, <1>3, <1>5, <2>1, <2>3 DEF NamedRows
<1>8. CASE PassEnd
  <2>1. pass' = NoPass /\ UNCHANGED rows
    BY <1>8 DEF PassEnd, device
  <2>2. \A r \in RowIds : RowNamed(r, pass.items[r])'
    BY <1>5, <2>1, NoPassTyped DEF RowNamed
  <2> QED BY <1>1, <1>2, <1>3, <1>5, <2>1, <2>2, NoPassTyped DEF NamedRows
<1> QED BY <1>6, <1>7, <1>8

LEMMA PassSendNames ==
    ASSUME TypeOK, NamedInv, NEW r \in RowIds, PassSend(r)
    PROVE  /\ TypeOK' /\ NamedInv' /\ keys \subseteq keys'
           /\ \A k, l \in keys' \ keys : k = l
           /\ \A k \in keys' \ keys : k.of = 0 /\ \A l \in keys : ~(l.of = 0 /\ l.key = k.key)
<1> USE DEF NamedInv
<1>1. /\ TypeOK' /\ r \in pass.todo /\ pass'.todo = pass.todo \ {r} /\ pass'.acks = pass.acks
      /\ \A q \in RowIds : q # r => pass'.items[q] = pass.items[q]
  BY PassSendTypes
<1>2. UNCHANGED <<rows, working, list, screen, load, rec>>
  BY DEF PassSend, device
<1>3. pass.phase = "send" /\ pass.items[r].state # "none"
  BY <1>1 DEF PassSend, NamedRows
<1>4. /\ keys \subseteq keys' /\ Listed \subseteq Listed' /\ Numbered'
      /\ \A k, l \in keys' \ keys : k = l
      /\ \A k \in keys' \ keys : /\ k.of = 0 /\ k.rev \in Listed'
                                 /\ \A l \in keys : ~(l.of = 0 /\ l.key = k.key)
      /\ RowNamed(r, pass.items[r])' /\ pass'.items[r].state # "none"
  <2>1. r # 0 => r \in Listed
    BY <1>3 DEF NamedRows, RowNamed, Named
  <2>2. CASE UNCHANGED <<office, keys>> /\ pass'.items[r].state \in {"pending", "failed"}
    <3>1. Listed' = Listed /\ Numbered'
      BY <2>2 DEF NamedOffice, Numbered, Listed
    <3>2. RowNamed(r, pass.items[r])'
      BY <2>1, <2>2, <3>1 DEF RowNamed, Named
    <3> QED BY <2>2, <3>1, <3>2
  <2>3. CASE \E a : /\ Answer(a) /\ office' = a.office /\ keys' = a.keys
                    /\ \/ pass'.items[r] = a.row
                       \/ pass'.items[r].state = "pending"
    <3>1. PICK a : /\ Answer(a) /\ office' = a.office /\ keys' = a.keys
                   /\ \/ pass'.items[r] = a.row
                      \/ pass'.items[r].state = "pending"
      BY <2>3
    <3>2. Listed \subseteq Listed' /\ Numbered'
      BY <3>1 DEF Answer, Listed, Numbered
    <3>3. RowNamed(r, pass.items[r])' /\ pass'.items[r].state # "none"
      BY <2>1, <3>1, <3>2 DEF Answer, RowNamed, Named, Listed
    <3> QED BY <3>1, <3>2, <3>3 DEF Answer, Listed
  <2> QED BY <2>2, <2>3, PassSendTypes
<1>5. NamedOffice'
  <2>1. \A k \in keys' : k.rev \in Listed' /\ k.of < k.rev
    <3>1. \A k \in keys' : k.rev \in Revs
      BY <1>1 DEF TypeOK, OfficeTyped, Keys
    <3>2. \A k \in keys : k.rev \in Listed' /\ k.of < k.rev
      BY <1>4 DEF NamedOffice
    <3>3. \A k \in keys' \ keys : k.rev \in Listed' /\ k.of < k.rev
      <4>1. \A v \in Revs : 0 < v
        BY DEF Revs
      <4> TAKE k \in keys' \ keys
      <4>2. k.of = 0 /\ k.rev \in Listed' /\ k.rev \in Revs
        BY <1>4, <3>1
      <4> QED BY <4>1, <4>2
    <3> QED BY <3>2, <3>3
  <2> QED BY <1>2, <1>4, <2>1 DEF NamedOffice
<1>6. NamedScreen'
  BY <1>2, <1>4, ScreenSame
<1>7. NamedRows'
  <2>1. \A q \in RowIds : RowNamed(q, rows[q])' /\ RowNamed(q, rec.rows[q])'
    BY <1>2, <1>4 DEF NamedRows, RowNamed, Named
  <2>2. \A q \in RowIds : RowNamed(q, pass.items[q])'
    BY <1>1, <1>4 DEF NamedRows, RowNamed, Named
  <2>3. pass'.acks = {}
    BY <1>1, <1>3 DEF NamedRows
  <2>4. \A q \in pass'.todo : pass'.items[q].state # "none"
    BY <1>1, <1>4 DEF NamedRows, TypeOK, WorkTyped, Passes
  <2> QED BY <1>2, <2>1, <2>2, <2>3, <2>4 DEF NamedRows
<1> QED BY <1>1, <1>4, <1>5, <1>6, <1>7

LEMMA AckNames ==
    ASSUME TypeOK, NamedInv, NEW r \in RowIds, AckDetail(r) \/ AckDrafts(r)
    PROVE  TypeOK' /\ NamedInv'
<1> USE DEF NamedInv
<1> DEFINE m == pass.items[r]
<1>1. /\ TypeOK' /\ pass'.items = pass.items /\ pass'.todo = pass.todo
      /\ pass'.acks \subseteq pass.acks /\ r \in pass.acks /\ pass'.phase = pass.phase
      /\ m.rev \in Listed /\ m.rev \in Revs
  BY AckTypes
<1>2. UNCHANGED <<office, keys, screen, load, rec>>
  BY DEF AckDetail, AckDrafts, server
<1>3. rows \in [RowIds -> Rows] /\ m \in Rows /\ m.srv \in Revisions /\ DeviceTyped
  BY DEF TypeOK, DeviceTyped, WorkTyped, Passes, Rows
<1>4. CASE AckDetail(r)
  <2>1. list' = list \cup {m.rev} /\ UNCHANGED <<rows, working>>
    BY <1>4 DEF AckDetail
  <2>2. NamedOffice' /\ Listed' = Listed
    BY <1>1, <1>2, <2>1, ListGrows
  <2>3. NamedScreen'
    BY <1>2, <2>1, <2>2, ScreenSame
  <2>4. NamedRows'
    BY <1>1, <1>2, <2>1, <2>2 DEF NamedRows, RowNamed, Named
  <2> QED BY <1>1, <2>2, <2>3, <2>4
<1>5. CASE AckDrafts(r)
  <2>1. UNCHANGED list
    BY <1>5 DEF AckDrafts
  <2>2. NamedOffice' /\ Listed' = Listed
    BY <1>2, <2>1, OfficeFrame
  <2>3. /\ \A q \in RowIds : RowNamed(q, rows'[q])
        /\ working'.of.rev \in {0, working.of.rev, m.rev}
    <3>1. CASE r \notin pass.sup
      <4>1. UNCHANGED rows /\ working' = RetireWorking(r, m)
        BY <1>5, <3>1 DEF AckDrafts
      <4> QED BY <4>1, NoWorkingTyped DEF NamedRows, RetireWorking
    <3>2. CASE r \in pass.sup /\ r = Create
      <4>1. ConvertCreate(m)
        BY <1>5, <3>2 DEF AckDrafts
      <4>2. CASE rows[Create].state = "pending" /\ SameRow(rows[Create], m)
        <5>1. rows' = [rows EXCEPT ![m.rev] = ConvertedRow(m), ![Create] = NoRow]
              /\ working' = RebasedWorking(m)
          BY <4>1, <4>2 DEF ConvertCreate
        <5>2. RowNamed(m.rev, ConvertedRow(m)) /\ RowNamed(Create, NoRow)
          BY <1>1, <1>3, <4>2, ConvertedTyped DEF RowNamed, Named, NoRow
        <5>3. \A q \in RowIds : q \notin {m.rev, Create} => rows'[q] = rows[q]
          BY <1>3, <5>1
        <5>4. rows'[Create] = NoRow
          BY <1>1, <1>3, <5>1, Ids
        <5>5. rows'[m.rev] = ConvertedRow(m)
          BY <1>1, <1>3, <5>1, Ids DEF Create
        <5>6. working'.of.rev \in {working.of.rev, m.rev}
          BY <1>3, <5>1, RebasedWorkingTyped
        <5> QED BY <5>2, <5>3, <5>4, <5>5, <5>6 DEF NamedRows
      <4>3. CASE ~(rows[Create].state = "pending" /\ SameRow(rows[Create], m))
        <5>1. UNCHANGED <<rows, working>>
          BY <4>1, <4>3 DEF ConvertCreate
        <5> QED BY <5>1 DEF NamedRows
      <4> QED BY <4>2, <4>3
    <3>3. CASE r \in pass.sup /\ r # Create
      <4>1. rows' = [rows EXCEPT ![r] = RebaseRow(rows[r], m.srv)] /\ working' = working
        BY <1>5, <3>3 DEF AckDrafts
      <4>2. RowNamed(r, RebaseRow(rows[r], m.srv))
        BY <1>3, RebaseTyped DEF NamedRows, RowNamed
      <4> QED BY <1>3, <4>1, <4>2 DEF NamedRows
    <3> QED BY <3>1, <3>2, <3>3
  <2>4. NamedScreen'
    BY <1>1, <1>2, <2>2, <2>3, ScreenFrame DEF NamedScreen
  <2>5. NamedRows'
    BY <1>1, <1>2, <2>2, <2>3 DEF NamedRows, RowNamed, Named
  <2> QED BY <1>1, <2>2, <2>4, <2>5
<1> QED BY <1>4, <1>5

LEMMA RecoverNames ==
    ASSUME TypeOK, NamedInv,
           Crash \/ RecoverEnd \/ \E r \in RowIds : RecoverSettle(r) \/ RecoverRemove(r)
    PROVE  NamedInv'
<1> USE DEF NamedInv
<1>1. UNCHANGED <<office, keys>>
  BY DEF Crash, RecoverEnd, RecoverSettle, RecoverRemove, server
<1>2. \A r \in RowIds : RowNamed(r, NoRow)
  BY DEF RowNamed, NoRow
<1>3. CASE Crash
  <2>1. /\ screen' = NoScreen /\ load' = NoLoad /\ pass' = NoPass /\ UNCHANGED <<list, rows, working>>
        /\ rec'.rows = rows /\ rec'.todo = {r \in RowIds : rows[r].state = "synced"}
    BY <1>3 DEF Crash, NoRec, device
  <2>2. NamedOffice' /\ Listed' = Listed
    BY <1>1, <2>1, OfficeFrame
  <2>3. NamedScreen'
    BY <2>1, <2>2, NoScreenTyped, NoLoadTyped, ScreenFrame
  <2>4. NamedRows'
    BY <2>1, <2>2, NoPassTyped DEF NamedRows, RowNamed, Named
  <2> QED BY <2>2, <2>3, <2>4
<1>4. CASE RecoverEnd
  <2>1. /\ UNCHANGED <<list, rows, screen, load, pass>> /\ rec' = NoRec
        /\ working' \in {working, NoWorking}
    BY <1>4 DEF RecoverEnd
  <2>2. NamedOffice' /\ Listed' = Listed
    BY <1>1, <2>1, OfficeFrame
  <2>3. NamedScreen'
    BY <2>1, <2>2, NoWorkingTyped, ScreenFrame DEF NamedScreen
  <2>4. NamedRows'
    BY <2>1, <2>2, NoRecTyped DEF NamedRows, RowNamed, Named
  <2> QED BY <2>2, <2>3, <2>4
<1>5. CASE \E r \in RowIds : RecoverSettle(r) \/ RecoverRemove(r)
  <2>1. PICK r \in RowIds : RecoverSettle(r) \/ RecoverRemove(r)
    BY <1>5
  <2> DEFINE m == rec.rows[r]
  <2>2. rec \in Recoveries /\ rows \in [RowIds -> Rows]
    BY DEF TypeOK, WorkTyped, DeviceTyped
  <2>3. r \in rec.todo /\ UNCHANGED <<screen, load, pass>> 
    BY <2>1 DEF RecoverSettle, RecoverRemove
  <2>4. rec'.rows = rec.rows /\ rec'.todo \subseteq rec.todo
    <3>1. \/ rec' = [rec EXCEPT !.half = @ \cup {r}]
          \/ rec' = [rec EXCEPT !.todo = @ \ {r}, !.half = @ \ {r}]
      BY <2>1 DEF RecoverSettle, RecoverRemove
    <3> QED BY <2>2, <3>1 DEF Recoveries
  <2>5. CASE RecoverSettle(r)
    <3>1. m.rev \in Listed
      BY <2>3 DEF NamedRows, RowNamed
    <3>2. list' = list \cup {m.rev} /\ UNCHANGED rows /\ working' \in {working, NoWorking}
      BY <2>5 DEF RecoverSettle, RetireWorking
    <3>3. NamedOffice' /\ Listed' = Listed
      BY <1>1, <3>1, <3>2, ListGrows
    <3>4. NamedScreen'
      BY <2>3, <3>2, <3>3, NoWorkingTyped, ScreenFrame DEF NamedScreen
    <3>5. NamedRows'
      BY <2>3, <2>4, <3>2, <3>3 DEF NamedRows, RowNamed, Named
    <3> QED BY <3>3, <3>4, <3>5
  <2>6. CASE RecoverRemove(r)
    <3>1. UNCHANGED <<list, working>> /\ \A q \in RowIds : rows'[q] \in {rows[q], NoRow}
      BY <2>2, <2>6 DEF RecoverRemove
    <3>2. NamedOffice' /\ Listed' = Listed
      BY <1>1, <3>1, OfficeFrame
    <3>3. NamedScreen'
      BY <2>3, <3>1, <3>2, ScreenSame
    <3>4. \A q \in RowIds : RowNamed(q, rows'[q])
      BY <1>2, <3>1 DEF NamedRows
    <3>5. NamedRows'
      BY <2>3, <2>4, <3>2, <3>4 DEF NamedRows, RowNamed, Named
    <3> QED BY <3>2, <3>3, <3>5
  <2> QED BY <2>1, <2>5, <2>6
<1> QED BY <1>3, <1>4, <1>5
-----------------------------------------------------------------------------
(* Clones *)

(* The working draft holds edits. *)
Drafted == working.has /\ HasContent(working.doc)

(* A step that makes no clone, loads only the newest revision of the list, and shows an
   idle locked revision only from a load, over a working draft, or as it was. *)
LEMMA CloneFrame ==
    ASSUME TypeOK', CloneInv, opkey' = opkey, keys \subseteq keys',
           \A k \in keys' \ keys : k.of = 0,
           list \subseteq list',
           load'.on => \/ load.on /\ load'.head = load.head
                       \/ \A q \in list' : q =< load'.head,
           screen'.step = "clone" => screen.step = "clone" /\ screen'.of = screen.of,
           screen'.step = "idle" /\ screen'.of.rev # 0 /\ ~screen'.of.ed
             => \/ load.on /\ screen'.of.rev = load.head
                \/ Drafted'
                \/ screen.step \in {"idle", "clone"} /\ screen'.of = screen.of /\ ~Drafted,
           working'.has => working'.doc # working'.from
    PROVE  CloneInv'
<1>1. ASSUME NEW c \in Revs, Cloned(c)'  PROVE Behindhand(c)'
  <2>1. Cloned(c)
    <3>1. PICK k \in keys' : k.of = c /\ k.key # opkey[c]
      BY <1>1 DEF Cloned
    <3>2. k \in keys
      BY <3>1, Ids
    <3> QED BY <3>1, <3>2 DEF Cloned
  <2>2. Behindhand(c)
    BY <2>1 DEF CloneInv
  <2>3. \E q \in list' : c < q
    BY <2>2 DEF Behindhand
  <2>4. load'.on => c < load'.head
    <3>1. ASSUME \A q \in list' : q =< load'.head  PROVE c < load'.head
      <4>1. PICK q \in list' : c < q
        BY <2>3
      <4>2. q =< load'.head /\ q \in Nat /\ load'.head \in Nat /\ c \in Nat
        BY <3>1, Ids DEF TypeOK, DeviceTyped, ScreenTyped, Loads
      <4> QED BY <4>1, <4>2
    <3> QED BY <2>2, <3>1 DEF Behindhand
  <2>5. ASSUME screen'.of.rev \in 1..c
        PROVE  /\ screen'.step # "clone"
               /\ screen'.of.ed \/ screen'.step # "idle" \/ Drafted'
    <3>1. screen'.step # "clone"
      BY <2>2, <2>5 DEF Behindhand
    <3>2. ASSUME screen'.step = "idle", ~screen'.of.ed  PROVE Drafted'
      <4>1. screen'.of.rev # 0
        BY <2>5
      <4>2. CASE load.on /\ screen'.of.rev = load.head
        <5>1. c < load.head /\ load.head \in 1..c
          BY <2>2, <2>5, <4>2 DEF Behindhand
        <5> QED BY <5>1, Ids
      <4>3. CASE screen.step \in {"idle", "clone"} /\ screen'.of = screen.of /\ ~Drafted
        BY <2>2, <2>5, <3>2, <4>3 DEF Behindhand, Drafted
      <4> QED BY <3>2, <4>1, <4>2, <4>3
    <3> QED BY <3>1, <3>2
  <2> QED BY <2>3, <2>4, <2>5 DEF Behindhand, Drafted
<1>2. \A k \in keys' : k.key # 0 \/ k.of = 0
  BY DEF CloneInv
<1>3. screen'.step = "clone" => screen'.of.rev \in Revs /\ opkey'[screen'.of.rev] # 0
  BY DEF CloneInv
<1> QED BY <1>1, <1>2, <1>3 DEF CloneInv

LEMMA OfficeClones ==
    ASSUME TypeOK', CloneInv, NEW r \in Revs,
           OfficeTransition(r) \/ (\E g \in Groups : OfficeEdit(r, g))
    PROVE  CloneInv' /\ keys' = keys
<1>1. UNCHANGED <<keys, opkey, list, load, screen, working>>
  BY DEF OfficeTransition, OfficeEdit, device
<1> QED BY <1>1 DEF CloneInv, Cloned, Behindhand

LEMMA LoadClones ==
    ASSUME TypeOK, TypeOK', NamedInv, CloneInv,
           (\E online \in BOOLEAN : LoadBegin(online)) \/ LoadEnd \/ (\E p \in pulls : PullEnd(p))
             \/ (\E r \in Revs : RefreshLead(r))
    PROVE  CloneInv' /\ keys' = keys
<1> USE DEF NamedInv
<1>1. CASE \E online \in BOOLEAN : LoadBegin(online)
  <2>1. PICK online \in BOOLEAN : LoadBegin(online)
    BY <1>1
  <2>2. /\ UNCHANGED <<keys, opkey>> /\ (list' = list \/ list' = ListedBy(office))
        /\ list \subseteq list'
    BY <2>1 DEF LoadBegin, ShowWorking, server, NamedOffice, Listed
  <2>3. CASE working.has /\ HasContent(working.doc)
    <3>1. ShowWorking
      BY <2>1, <2>3 DEF LoadBegin
    <3>2. /\ screen'.step = "idle" /\ load' = NoLoad /\ UNCHANGED working
      BY <3>1 DEF ShowWorking, Shown, NoScreen
    <3>3. Drafted'
      BY <2>3, <3>2 DEF Drafted
    <3> QED BY <2>2, <3>2, <3>3, NoLoadTyped, CloneFrame DEF CloneInv
  <2>4. CASE ~(working.has /\ HasContent(working.doc)) /\ Newest(list') = 0
    <3>1. ShowDraft /\ working' = NoWorking
      BY <2>1, <2>4 DEF LoadBegin
    <3>2. screen'.of.rev = 0 /\ screen'.step = "idle" /\ load' = NoLoad
      BY <3>1 DEF ShowDraft, Shown, NoScreen, NoBase
    <3> QED BY <2>2, <3>1, <3>2, NoLoadTyped, NoWorkingTyped, CloneFrame
  <2>5. CASE ~(working.has /\ HasContent(working.doc)) /\ Newest(list') # 0
    <3>1. load'.head = Newest(list') /\ UNCHANGED screen /\ working' = NoWorking
      BY <2>1, <2>5 DEF LoadBegin
    <3>2. list' # {}
      BY <2>5 DEF Newest
    <3>3. \A q \in list' : q =< load'.head
      BY <2>2, <3>1, <3>2, NewestListed
    <3>4. ~Drafted
      BY <2>5 DEF Drafted
    <3> QED BY <2>2, <3>1, <3>3, <3>4, NoWorkingTyped, CloneFrame
  <2> QED BY <2>2, <2>3, <2>4, <2>5
<1>2. CASE LoadEnd
  <2>1. load.on /\ load.head \in Revs
    BY <1>2 DEF LoadEnd, NamedScreen, Named, Listed, ListedBy
  <2>2. (screen'.of.rev = 0 \/ screen'.of.rev = load.head) /\ screen'.step = "idle"
    BY <1>2, <2>1, LoadEndTypes
  <2>3. UNCHANGED <<keys, opkey, list, working>> /\ load' = NoLoad
    BY <1>2 DEF LoadEnd, server
  <2> QED BY <2>1, <2>2, <2>3, NoLoadTyped, CloneFrame DEF CloneInv
<1>3. CASE (\E p \in pulls : PullEnd(p)) \/ (\E r \in Revs : RefreshLead(r))
  <2>1. UNCHANGED <<keys, opkey, list, working, screen, load>>
    BY <1>3 DEF PullEnd, RefreshLead, server, device
  <2> QED BY <2>1 DEF CloneInv, Cloned, Behindhand
<1> QED BY <1>1, <1>2, <1>3

LEMMA EditClones ==
    ASSUME TypeOK, TypeOK', CloneInv,
           Open \/ Leave \/ Autosave \/ Revert \/ \E g \in Groups, empties \in BOOLEAN : Type(g, empties)
    PROVE  CloneInv' /\ keys' = keys
<1>1. UNCHANGED <<keys, opkey, list>> /\ load' \in {load, NoLoad}
  BY DEF Open, Leave, Autosave, Revert, Type, server, device
<1>2. load'.on => load.on /\ load'.head = load.head
  BY <1>1, NoLoadTyped
<1>3. screen \in Screens
  BY DEF TypeOK, ScreenTyped
<1>4. /\ screen'.step # "clone"
      /\ screen'.step = "idle" /\ screen'.of.rev # 0 => screen'.of.ed
      /\ working'.has => working'.doc # working'.from
  <2>1. CASE Open
    BY <2>1 DEF Open, NoScreen, NoBase, device, CloneInv
  <2>2. AsWorking.doc = screen.form /\ AsWorking.from = screen.from
    BY DEF AsWorking
  <2>3. CASE Leave
    <3>1. screen' = NoScreen
      BY <2>3 DEF Leave
    <3>2. working' = working \/ (working' = AsWorking /\ Dirty)
      BY <2>3 DEF Leave
    <3> QED BY <2>2, <3>1, <3>2, NoScreenTyped DEF Dirty, Same, CloneInv
  <2>4. CASE Autosave
    BY <2>2, <2>4 DEF Autosave, Editable, ReadOnly, Dirty, Same
  <2>5. CASE Revert
    <3>1. screen'.of = screen.of /\ screen'.step = screen.step /\ working' = NoWorking
      BY <1>3, <2>5 DEF Revert, Screens
    <3> QED BY <2>5, <3>1, NoWorkingTyped DEF Revert, Editable, ReadOnly
  <2>6. CASE \E g \in Groups, empties \in BOOLEAN : Type(g, empties)
    <3>1. PICK g \in Groups, empties \in BOOLEAN : Type(g, empties)
      BY <2>6
    <3>2. screen'.of = screen.of /\ screen'.step = screen.step /\ UNCHANGED working
      BY <1>3, <3>1 DEF Type, Screens, device
    <3> QED BY <3>1, <3>2 DEF Type, Editable, ReadOnly, CloneInv
  <2> QED BY <2>1, <2>3, <2>4, <2>5, <2>6
<1> QED BY <1>1, <1>2, <1>4, CloneFrame

LEMMA SaveClones ==
    ASSUME TypeOK, TypeOK', CloneInv,
           SaveBegin \/ SaveQueue \/ SaveClear \/ KeepMineBegin \/ KeepMineWrite \/ UseOfficeBegin
             \/ UseOfficeCommit \/ UseOfficePreserved \/ RemoveLocal
    PROVE  CloneInv' /\ keys' = keys
<1>1. /\ UNCHANGED <<keys, opkey>> /\ list \subseteq list' /\ load' \in {load, NoLoad}
      /\ working' \in {working, NoWorking}
  BY DEF SaveBegin, SaveQueue, SaveClear, KeepMineBegin, KeepMineWrite, UseOfficeBegin,
         UseOfficeCommit, UseOfficePreserved, RemoveLocal, server, device
<1>2. load'.on => load.on /\ load'.head = load.head
  BY <1>1, NoLoadTyped
<1>3. working'.has => working'.doc # working'.from
  BY <1>1, NoWorkingTyped DEF CloneInv
<1>4. screen'.step \notin {"idle", "clone"}
  <2>1. screen \in Screens
    BY DEF TypeOK, ScreenTyped
  <2>2. CASE SaveBegin
    BY <2>1, <2>2 DEF SaveBegin, Screens
  <2>3. CASE SaveQueue
    BY <2>1, <2>3 DEF SaveQueue, Screens
  <2>4. CASE KeepMineBegin
    BY <2>1, <2>4 DEF KeepMineBegin, Screens
  <2>5. CASE KeepMineWrite
    BY <2>1, <2>5 DEF KeepMineWrite, Screens
  <2>6. CASE UseOfficeBegin
    BY <2>1, <2>6 DEF UseOfficeBegin, Screens
  <2>7. CASE UseOfficeCommit
    BY <2>1, <2>7 DEF UseOfficeCommit, Screens
  <2>8. CASE UseOfficePreserved
    BY <2>1, <2>8 DEF UseOfficePreserved, Screens
  <2>9. CASE SaveClear \/ RemoveLocal
    BY <2>9, NoScreenTyped DEF SaveClear, RemoveLocal
  <2> QED BY <2>2, <2>3, <2>4, <2>5, <2>6, <2>7, <2>8, <2>9
<1> QED BY <1>1, <1>2, <1>3, <1>4, CloneFrame

LEMMA PassClones ==
    ASSUME TypeOK, TypeOK', CloneInv, keys \subseteq keys', \A k \in keys' \ keys : k.of = 0,
           PassStart \/ PassWriteback \/ PassEnd \/ Crash \/ RecoverEnd
             \/ \E r \in RowIds : PassSend(r) \/ AckDetail(r) \/ AckDrafts(r)
                                  \/ RecoverSettle(r) \/ RecoverRemove(r)
    PROVE  CloneInv'
<1>1. UNCHANGED opkey /\ list \subseteq list' /\ load' \in {load, NoLoad}
      /\ screen' \in {screen, NoScreen}
  BY DEF PassStart, PassWriteback, PassEnd, Crash, RecoverEnd, PassSend, AckDetail, AckDrafts,
         RecoverSettle, RecoverRemove, server, device
<1>2. load'.on => load.on /\ load'.head = load.head
  BY <1>1, NoLoadTyped
<1>3. /\ Drafted => Drafted'
      /\ working'.has => working'.doc # working'.from
  <2>1. CASE working' = working
    BY <2>1 DEF Drafted, CloneInv
  <2>2. CASE working' = NoWorking /\ ~Drafted
    BY <2>2, NoWorkingTyped
  <2>3. CASE \E m \in Rows : working' = RebasedWorking(m)
    BY <2>3, RebasedWorkingTyped DEF Drafted, CloneInv, TypeOK
  <2>4. \A r, m : RetireWorking(r, m) = working \/ (RetireWorking(r, m) = NoWorking /\ ~Drafted)
    BY DEF RetireWorking, Drafted
  <2>5. CASE PassStart \/ PassWriteback \/ PassEnd \/ Crash
    BY <2>1, <2>5 DEF PassStart, PassWriteback, PassEnd, Crash, device
  <2>6. CASE \E r \in RowIds : PassSend(r) \/ AckDetail(r) \/ RecoverRemove(r)
    BY <2>1, <2>6 DEF PassSend, AckDetail, RecoverRemove, device
  <2>7. CASE RecoverEnd
    <3>1. working' = working \/ (working' = NoWorking /\ working.has /\ Obsolete(working))
      BY <2>7 DEF RecoverEnd
    <3>2. working.has /\ Obsolete(working) => ~Drafted
      BY DEF Obsolete, Same, Drafted, CloneInv
    <3> QED BY <2>1, <2>2, <3>1, <3>2
  <2>8. CASE \E r \in RowIds : RecoverSettle(r)
    BY <2>1, <2>2, <2>4, <2>8 DEF RecoverSettle
  <2>9. CASE \E r \in RowIds : AckDrafts(r)
    <3>1. PICK r \in RowIds : AckDrafts(r)
      BY <2>9
    <3>2. pass.items[r] \in Rows
      BY DEF TypeOK, WorkTyped, Passes
    <3>3. \/ working' = working \/ working' = RetireWorking(r, pass.items[r])
          \/ working' = RebasedWorking(pass.items[r])
      BY <3>1 DEF AckDrafts, ConvertCreate
    <3> QED BY <2>1, <2>2, <2>3, <2>4, <3>2, <3>3
  <2> QED BY <2>5, <2>6, <2>7, <2>8, <2>9
<1>4. /\ screen'.step = "clone" => screen.step = "clone" /\ screen'.of = screen.of
      /\ screen'.step = "idle" => screen.step = "idle" /\ screen'.of = screen.of
  BY <1>1, NoScreenTyped
<1>5. screen'.step = "idle" => Drafted' \/ (screen.step = "idle" /\ screen'.of = screen.of /\ ~Drafted)
  BY <1>3, <1>4
<1> QED BY <1>1, <1>2, <1>3, <1>4, <1>5, CloneFrame

LEMMA CloneClones ==
    ASSUME TypeOK, TypeOK', NamedInv, CloneInv, NoDuplicateRevision,
           NewRevisionKey \/ NewRevisionFails \/ (\E lost \in BOOLEAN : NewRevision(lost))
    PROVE  CloneInv' /\ NoDuplicateRevision'
<1> USE DEF NamedInv
<1>1. screen \in Screens /\ opkey \in [Revs -> Nat] /\ UNCHANGED working /\ keys \in SUBSET Keys
  BY DEF TypeOK, ScreenTyped, DeviceTyped, OfficeTyped, NewRevisionKey, NewRevisionFails, NewRevision, device
<1>2. CASE NewRevisionFails
  <2>1. /\ UNCHANGED <<keys, opkey, list, load>> /\ screen.step = "clone"
        /\ screen'.of = screen.of /\ screen'.step = "idle"
    BY <1>1, <1>2 DEF NewRevisionFails, server, device, Screens
  <2>2. Drafted' = Drafted
    BY <1>1 DEF Drafted
  <2> QED BY <1>1, <2>1, <2>2, CloneFrame DEF CloneInv, NoDuplicateRevision
<1>3. CASE NewRevisionKey
  <2> DEFINE r == screen.of.rev
             n == Cardinality(keys) + 1
  <2>1. /\ UNCHANGED <<keys, list, load>> /\ screen.step = "idle" /\ r # 0 /\ ~screen.of.ed
        /\ ~Drafted /\ screen'.of = screen.of /\ screen'.step = "clone"
        /\ opkey' = [opkey EXCEPT ![r] = IF @ # 0 THEN @ ELSE n]
    <3>1. UNCHANGED <<keys, list, load>> /\ screen.step = "idle" /\ r # 0 /\ ~screen.of.ed
      BY <1>3 DEF NewRevisionKey, ReadOnly, server
    <3>2. ~Drafted
      BY <1>3 DEF NewRevisionKey, Drafted
    <3>3. screen' = [screen EXCEPT !.step = "clone"]
      BY <1>3 DEF NewRevisionKey
    <3>4. screen'.of = screen.of /\ screen'.step = "clone"
      BY <1>1, <3>3 DEF Screens
    <3>5. opkey' = [opkey EXCEPT ![r] = IF @ # 0 THEN @ ELSE n]
      BY <1>3 DEF NewRevisionKey
    <3> QED BY <3>1, <3>2, <3>4, <3>5
  <2>2. r \in Revs /\ n # 0
    BY <2>1, FS_CardinalityType DEF NamedScreen, Named, Listed, ListedBy, TypeOK, OfficeTyped
  <2>3. /\ \A q \in Revs : q # r => opkey'[q] = opkey[q]
        /\ opkey'[r] # 0 /\ (opkey[r] # 0 => opkey'[r] = opkey[r])
    BY <1>1, <2>1, <2>2
  <2>4. \A c \in Revs : Cloned(c) => c < r
    <3>1. ASSUME NEW c \in Revs, Cloned(c), ~(c < r)  PROVE FALSE
      <4>1. Behindhand(c) /\ r \in 1..c
        BY <2>2, <3>1 DEF CloneInv, Revs
      <4> QED BY <2>1, <4>1 DEF Behindhand, Drafted
    <3> QED BY <3>1
  <2>5. ~Cloned(r)
    BY <2>2, <2>4 DEF Revs
  <2>6. \A c \in Revs : Cloned(c)' => Cloned(c)
    <3>1. ASSUME NEW k \in keys, k.of = r, k.key # opkey'[r]  PROVE FALSE
      <4>1. k.key = opkey[r]
        BY <2>5, <3>1 DEF Cloned
      <4>2. k.key # 0
        BY <2>2, <3>1, Ids DEF CloneInv
      <4> QED BY <2>3, <3>1, <4>1, <4>2
    <3> QED BY <2>1, <2>3, <3>1 DEF Cloned
  <2>7. \A c \in Revs : Cloned(c)' => Behindhand(c)'
    <3>1. ASSUME NEW c \in Revs, Cloned(c)'  PROVE Behindhand(c)'
      <4>1. Cloned(c) /\ Behindhand(c) /\ c < r
        BY <2>4, <2>6, <3>1 DEF CloneInv
      <4>2. screen'.of.rev \notin 1..c
        BY <2>1, <2>2, <4>1 DEF Revs
      <4> QED BY <2>1, <4>1, <4>2 DEF Behindhand
    <3> QED BY <3>1
  <2> QED BY <1>1, <2>1, <2>2, <2>3, <2>7 DEF CloneInv, NoDuplicateRevision
<1>4. CASE \E lost \in BOOLEAN : NewRevision(lost)
  <2>1. PICK lost \in BOOLEAN : NewRevision(lost)
    BY <1>4
  <2> DEFINE r == screen.of.rev
  <2>2. PICK new \in Revs :
              /\ r \in Revs /\ r < new
              /\ NamedOffice' \/ ~lost
              /\ Numbered' /\ Listed \subseteq Listed' /\ new \in Listed'
              /\ \/ UNCHANGED <<office, keys>>
                 \/ /\ \A k \in keys : ~(k.of = r /\ k.key = opkey[r])
                    /\ \E key : /\ keys' = keys \cup {key} /\ key.of = r
                                /\ key.key = opkey[r] /\ key.rev = new
              /\ IF lost
                 THEN screen' = [screen EXCEPT !.step = "idle"] /\ UNCHANGED <<list, opkey, load>>
                 ELSE /\ list' = list \cup {new} /\ opkey' = [opkey EXCEPT ![r] = 0]
                      /\ screen' = FromRevision(new, office'[new], NoConflict)
                      /\ office'[new] \in Revisions /\ load' = NoLoad
    BY <2>1, CloneNumber
  <2>3. screen.step = "clone" /\ opkey[r] # 0
    BY <2>1 DEF NewRevision, CloneInv
  <2>4. \A c \in Revs : Cloned(c) => c < r
    <3>1. ASSUME NEW c \in Revs, Cloned(c), ~(c < r)  PROVE FALSE
      <4>1. Behindhand(c) /\ r \in 1..c
        BY <2>2, <3>1 DEF CloneInv, Revs
      <4> QED BY <2>3, <4>1 DEF Behindhand
    <3> QED BY <3>1
  <2>5. \A k \in keys : k.of = r => k.key = opkey[r]
    BY <2>2, <2>4 DEF Cloned, Revs
  <2>6. NoDuplicateRevision'
    <3>1. CASE UNCHANGED <<office, keys>>
      BY <3>1 DEF NoDuplicateRevision
    <3>2. CASE /\ \A k \in keys : ~(k.of = r /\ k.key = opkey[r])
               /\ \E key : /\ keys' = keys \cup {key} /\ key.of = r
                           /\ key.key = opkey[r] /\ key.rev = new
      BY <2>5, <3>2 DEF NoDuplicateRevision
    <3> QED BY <2>2, <3>1, <3>2
  <2>7. \A k \in keys' : k \in keys \/ (k.of = r /\ k.key = opkey[r])
    BY <2>2
  <2>8. \A k \in keys' : k.key # 0 \/ k.of = 0
    BY <2>3, <2>7 DEF CloneInv
  <2>9. working'.has => working'.doc # working'.from
    BY <1>1 DEF CloneInv
  <2>10. CASE lost
    <3>1. screen'.of = screen.of /\ screen'.step = "idle" /\ UNCHANGED <<list, opkey, load>>
      BY <1>1, <2>2, <2>10 DEF Screens
    <3>2. ASSUME NEW c \in Revs, Cloned(c)'  PROVE Behindhand(c)'
      <4>1. Cloned(c)
        BY <2>7, <3>1, <3>2 DEF Cloned
      <4>2. Behindhand(c) /\ c < r
        BY <2>4, <4>1 DEF CloneInv
      <4>3. screen'.of.rev \notin 1..c
        BY <2>2, <3>1, <4>2 DEF Revs
      <4> QED BY <3>1, <4>2, <4>3 DEF Behindhand
    <3> QED BY <2>6, <2>8, <2>9, <3>1, <3>2 DEF CloneInv
  <2>11. CASE ~lost
    <3>1. /\ screen'.of.rev = new /\ screen'.step = "idle" /\ load' = NoLoad
          /\ list' = list \cup {new} /\ opkey' = [opkey EXCEPT ![r] = 0]
      BY <2>2, <2>11, FromRevisionTyped, NoConflictTyped
    <3>2. ASSUME NEW c \in Revs, Cloned(c)'  PROVE c =< r
      <4>1. CASE c = r
        BY <4>1 DEF Revs
      <4>2. CASE c # r
        <5>1. Cloned(c)
          BY <1>1, <2>7, <3>1, <3>2, <4>2 DEF Cloned
        <5> QED BY <2>2, <2>4, <5>1 DEF Revs
      <4> QED BY <4>1, <4>2
    <3>3. ASSUME NEW c \in Revs, Cloned(c)'  PROVE Behindhand(c)'
      <4>1. c < new
        BY <2>2, <3>2, <3>3 DEF Revs
      <4>2. screen'.of.rev \notin 1..c
        BY <3>1, <4>1 DEF Revs
      <4> QED BY <3>1, <4>1, <4>2, NoLoadTyped DEF Behindhand
    <3> QED BY <2>6, <2>8, <2>9, <3>1, <3>3 DEF CloneInv
  <2> QED BY <2>10, <2>11
<1> QED BY <1>2, <1>3, <1>4
-----------------------------------------------------------------------------
(* The theorems *)

LEMMA InitInv == ASSUME Init PROVE IInv
<1>1. TypeOK
  <2>1. OfficeTyped
    <3>1. \A r \in Revs : /\ NoRev \in Revisions
                          /\ [tok |-> 1, doc |-> Blank, ed |-> TRUE] \in Revisions
      BY NoRevTyped, BlankTyped DEF Revisions
    <3>2. office \in [Revs -> Revisions]
      BY <3>1 DEF Init
    <3> QED BY <3>2, FS_EmptySet DEF Init, OfficeTyped
  <2>2. DeviceTyped
    BY NoRowTyped, NoDraftTyped, NoWorkingTyped, NoRevTyped DEF Init, DeviceTyped
  <2>3. ScreenTyped /\ WorkTyped
    BY NoScreenTyped, NoLoadTyped, NoPassTyped, NoRecTyped DEF Init, ScreenTyped, WorkTyped
  <2>4. budget \in Budgets
    BY DEF Init, Budgets
  <2> QED BY <2>1, <2>2, <2>3, <2>4 DEF TypeOK
<1>2. NamedInv
  <2>1. Numbered
    <3>1. CASE office = [r \in Revs |-> NoRev]
      <4>1. Listed = 1..0
        BY <3>1 DEF Listed, ListedBy, NoRev
      <4> QED BY <4>1, MeasurementAssumption DEF Numbered
    <3>2. CASE office = [r \in Revs |-> IF r = 1 THEN [tok |-> 1, doc |-> Blank, ed |-> TRUE]
                                        ELSE NoRev]
      <4>1. Listed = 1..1
        BY <3>2, MeasurementAssumption DEF Listed, ListedBy, NoRev, Revs
      <4> QED BY <4>1, MeasurementAssumption DEF Numbered
    <3> QED BY <3>1, <3>2 DEF Init
  <2>2. NamedOffice
    BY <2>1 DEF Init, NamedOffice
  <2>3. NamedScreen
    BY NoScreenTyped, NoLoadTyped, NoWorkingTyped DEF Init, NamedScreen, Named
  <2>4. NamedRows
    BY NoPassTyped, NoRecTyped DEF Init, NamedRows, RowNamed, NoRow
  <2> QED BY <2>2, <2>3, <2>4 DEF NamedInv
<1>3. CloneInv /\ NoDuplicateRevision
  BY NoScreenTyped, NoWorkingTyped DEF Init, CloneInv, Cloned, NoDuplicateRevision
<1> QED BY <1>1, <1>2, <1>3 DEF IInv

LEMMA NextInv == ASSUME IInv, [Next]_vars PROVE IInv'
<1> USE DEF IInv
<1>1. CASE \E r \in Revs : OfficeTransition(r) \/ (\E g \in Groups : OfficeEdit(r, g))
  <2>1. PICK r \in Revs : OfficeTransition(r) \/ (\E g \in Groups : OfficeEdit(r, g))
    BY <1>1
  <2>2. TypeOK' /\ NamedInv'
    BY <2>1, OfficeTypes, OfficeNames
  <2>3. CloneInv' /\ keys' = keys
    BY <2>1, <2>2, OfficeClones
  <2> QED BY <2>2, <2>3 DEF NoDuplicateRevision
<1>2. CASE (\E online \in BOOLEAN : LoadBegin(online)) \/ LoadEnd \/ (\E p \in pulls : PullEnd(p))
             \/ (\E r \in Revs : RefreshLead(r))
  <2>1. TypeOK' /\ NamedInv'
    BY <1>2, LoadNames
  <2>2. CloneInv' /\ keys' = keys
    BY <1>2, <2>1, LoadClones
  <2> QED BY <2>1, <2>2 DEF NoDuplicateRevision
<1>3. CASE Open \/ Leave \/ Autosave \/ Revert \/ \E g \in Groups, empties \in BOOLEAN : Type(g, empties)
  <2>1. TypeOK' /\ NamedInv'
    BY <1>3, EditTypes, EditNames
  <2>2. CloneInv' /\ keys' = keys
    BY <1>3, <2>1, EditClones
  <2> QED BY <2>1, <2>2 DEF NoDuplicateRevision
<1>4. CASE SaveBegin \/ SaveQueue \/ SaveClear
  <2>1. TypeOK' /\ NamedInv'
    BY <1>4, SaveTypes, SaveNames DEF NamedInv, NamedScreen
  <2>2. CloneInv' /\ keys' = keys
    BY <1>4, <2>1, SaveClones
  <2> QED BY <2>1, <2>2 DEF NoDuplicateRevision
<1>5. CASE KeepMineBegin \/ KeepMineWrite \/ UseOfficeBegin \/ UseOfficeCommit
             \/ UseOfficePreserved \/ RemoveLocal
  <2>1. TypeOK' /\ NamedInv'
    BY <1>5, ConflictTypes, ConflictNames DEF NamedInv, NamedScreen
  <2>2. CloneInv' /\ keys' = keys
    BY <1>5, <2>1, SaveClones
  <2> QED BY <2>1, <2>2 DEF NoDuplicateRevision
<1>6. CASE NewRevisionKey \/ NewRevisionFails \/ (\E lost \in BOOLEAN : NewRevision(lost))
  <2>1. TypeOK' /\ NamedInv'
    BY <1>6, CloneTypes, CloneNames
  <2> QED BY <1>6, <2>1, CloneClones
<1>7. CASE PassStart \/ PassWriteback \/ PassEnd
  <2>1. TypeOK' /\ NamedInv' /\ keys' = keys
    BY <1>7, PassTypes, PassNames DEF PassStart, PassWriteback, PassEnd, server
  <2>2. CloneInv'
    BY <1>7, <2>1, PassClones
  <2> QED BY <2>1, <2>2 DEF NoDuplicateRevision
<1>8. CASE \E r \in RowIds : PassSend(r)
  <2>1. PICK r \in RowIds : PassSend(r)
    BY <1>8
  <2>2. /\ TypeOK' /\ NamedInv' /\ keys \subseteq keys'
        /\ \A k, l \in keys' \ keys : k = l
        /\ \A k \in keys' \ keys : k.of = 0 /\ \A l \in keys : ~(l.of = 0 /\ l.key = k.key)
    BY <2>1, PassSendNames
  <2>3. CloneInv'
    BY <1>8, <2>2, PassClones
  <2>4. NoDuplicateRevision'
    BY <2>2 DEF NoDuplicateRevision, Create
  <2> QED BY <2>2, <2>3, <2>4
<1>9. CASE \E r \in RowIds : AckDetail(r) \/ AckDrafts(r)
  <2>1. TypeOK' /\ NamedInv' /\ keys' = keys
    BY <1>9, AckNames DEF AckDetail, AckDrafts, server
  <2>2. CloneInv'
    BY <1>9, <2>1, PassClones
  <2> QED BY <2>1, <2>2 DEF NoDuplicateRevision
<1>10. CASE Crash \/ RecoverEnd \/ \E r \in RowIds : RecoverSettle(r) \/ RecoverRemove(r)
  <2>1. TypeOK' /\ NamedInv' /\ keys' = keys
    BY <1>10, RecoverTypes, RecoverNames DEF Crash, RecoverEnd, RecoverSettle, RecoverRemove, server
  <2>2. CloneInv'
    BY <1>10, <2>1, PassClones
  <2> QED BY <2>1, <2>2 DEF NoDuplicateRevision
<1>11. CASE UNCHANGED vars
  BY <1>11 DEF vars, server, device, history, TypeOK, OfficeTyped, DeviceTyped, ScreenTyped, WorkTyped,
     NamedInv, NamedOffice, NamedScreen, NamedRows, Numbered, Listed, Named, RowNamed,
     CloneInv, Cloned, Behindhand, NoDuplicateRevision
<1> QED BY <1>1, <1>2, <1>3, <1>4, <1>5, <1>6, <1>7, <1>8, <1>9, <1>10, <1>11 DEF Next

(* The records of the device and of Office keep their shape, whatever answers are lost. *)
THEOREM MeasurementTypeCorrect == Spec => []TypeOK
<1>1. IInv => TypeOK
  BY DEF IInv
<1> QED BY InitInv, NextInv, <1>1, PTL DEF Spec

(* One tap on Save, or one New revision, makes one revision in Office: a lost answer, a retry,
   a restart, or a screen that still shows the locked revision never makes another. *)
THEOREM OneRevisionPerTap == Spec => []NoDuplicateRevision
<1>1. IInv => NoDuplicateRevision
  BY DEF IInv
<1> QED BY InitInv, NextInv, <1>1, PTL DEF Spec

LEMMA BackgroundKeepsDraft ==
    ASSUME IInv, [Next]_vars, Background, working.has, HasContent(working.doc), screen' = screen
    PROVE  working'.has /\ working'.doc = working.doc
<1> USE DEF IInv
<1>1. working.doc # working.from
  BY DEF CloneInv
<1>2. CASE working' = working
  BY <1>2
<1>3. CASE PassStart \/ PassWriteback \/ PassEnd \/ Crash
           \/ \E r \in RowIds : PassSend(r) \/ AckDetail(r) \/ RecoverRemove(r)
  BY <1>2, <1>3 DEF PassStart, PassWriteback, PassEnd, Crash, PassSend, AckDetail, RecoverRemove, device
<1>4. CASE RecoverEnd
  BY <1>1, <1>4 DEF RecoverEnd, Obsolete, Same
<1>5. CASE \E r \in RowIds : RecoverSettle(r)
  BY <1>5 DEF RecoverSettle, RetireWorking
<1>6. CASE \E r \in RowIds : AckDrafts(r)
  <2>1. PICK r \in RowIds : AckDrafts(r)
    BY <1>6
  <2> DEFINE m == pass.items[r]
  <2>2. m \in Rows /\ DeviceTyped
    BY DEF TypeOK, WorkTyped, Passes
  <2>3. \/ working' = working \/ working' = RetireWorking(r, m) \/ working' = RebasedWorking(m)
    BY <2>1 DEF AckDrafts, ConvertCreate
  <2>4. RetireWorking(r, m) = working
    BY DEF RetireWorking
  <2> QED BY <2>2, <2>3, <2>4, RebasedWorkingTyped
<1>7. \/ PassStart \/ PassWriteback \/ PassEnd \/ Crash
      \/ \E r \in RowIds : PassSend(r) \/ AckDetail(r) \/ RecoverRemove(r)
      \/ RecoverEnd \/ (\E r \in RowIds : RecoverSettle(r)) \/ (\E r \in RowIds : AckDrafts(r))
  <2>1. pass' # pass \/ rec' # rec
    BY DEF Background
  <2> USE DEF server, device, history, vars
  <2>2. ~ \E r \in Revs : OfficeTransition(r) \/ RefreshLead(r) \/ \E g \in Groups : OfficeEdit(r, g)
    BY <2>1 DEF OfficeTransition, RefreshLead, OfficeEdit
  <2>3. ~ (Open \/ Leave \/ Autosave \/ Revert \/ \E g \in Groups, empties \in BOOLEAN : Type(g, empties))
    BY <2>1 DEF Open, Leave, Autosave, Revert, Type
  <2>4. ~ ((\E online \in BOOLEAN : LoadBegin(online)) \/ LoadEnd \/ \E p \in pulls : PullEnd(p))
    BY <2>1 DEF LoadBegin, LoadEnd, PullEnd
  <2>5. ~ (SaveBegin \/ SaveQueue \/ SaveClear \/ KeepMineBegin \/ KeepMineWrite \/ RemoveLocal)
    BY <2>1 DEF SaveBegin, SaveQueue, SaveClear, KeepMineBegin, KeepMineWrite, RemoveLocal
  <2>6. ~ (UseOfficeBegin \/ UseOfficeCommit \/ UseOfficePreserved \/ NewRevisionKey
           \/ NewRevisionFails \/ \E lost \in BOOLEAN : NewRevision(lost))
    BY <2>1 DEF UseOfficeBegin, UseOfficeCommit, UseOfficePreserved, NewRevisionKey,
                NewRevisionFails, NewRevision
  <2>7. ~ UNCHANGED vars
    BY <2>1
  <2> QED BY <2>2, <2>3, <2>4, <2>5, <2>6, <2>7 DEF Next
<1> QED BY <1>3, <1>4, <1>5, <1>6, <1>7

(* No acknowledgement, conversion or start-up recovery drops or changes a working draft that
   holds edits, whatever the rep, Office and the connection did before. *)
THEOREM BackgroundSparesDrafts == Spec => DraftSurvivesBackground
<1>1. IInv /\ [Next]_vars
      => [Background /\ working.has /\ HasContent(working.doc) /\ working.doc # working.from
          /\ screen' = screen
          => working'.has /\ working'.doc = working.doc]_vars
  BY BackgroundKeepsDraft
<1> QED BY InitInv, NextInv, <1>1, PTL DEF Spec, DraftSurvivesBackground
-----------------------------------------------------------------------------
(* What the rep has seen *)

(* The Office values of a document are known to the rep. *)
SeenDoc(s, doc) == \A v \in Values(doc) : v < 0 => v \in s

(* A token of a revision stands for content the rep has seen, or is out of date for ever. *)
SeenTok(o, s, r, t) ==
    r # 0 => /\ t =< o[r].tok
             /\ t = o[r].tok => SeenDoc(s, o[r].doc)

(* A copy of a revision shows what Office has under its token, beyond what is seen. *)
Known(o, s, r, d) ==
    r # 0 => /\ d.tok =< o[r].tok
             /\ d.tok = o[r].tok => SeenDoc(s \cup Values(d.doc), o[r].doc)

(* A row's body and token; Office's answer in it. *)
RowSeen(o, s, r, m) ==
    m.state # "none" =>
        /\ SeenDoc(s, m.body) /\ SeenTok(o, s, r, m.tok)
        /\ m.state = "conflict" => Known(o, s, r, m.srv)
        /\ m.state = "synced" => /\ Known(o, s, m.rev, m.srv)
                                 /\ r # 0 => m.rev = r /\ SeenTok(o, s, r, m.srv.tok)

ScreenSeen ==
    /\ SeenDoc(seen, screen.form) /\ SeenDoc(seen, screen.from)
    /\ SeenTok(office, seen, screen.of.rev, screen.of.tok)
    /\ screen.conflict.on => /\ screen.of.rev # 0
                             /\ Known(office, seen, screen.of.rev, screen.conflict.srv)
    /\ screen.step = "queue" => /\ SeenDoc(seen, screen.held.body)
                                /\ SeenTok(office, seen, screen.of.rev, screen.held.tok)
    /\ screen.step = "keep" => screen.conflict.on /\ SeenDoc(seen, screen.held.body)
    /\ screen.step = "office" => Known(office, seen, screen.of.rev, screen.held.srv)
LoadSeen ==
    load.on => /\ Known(office, seen, load.head, load.opt) /\ Known(office, seen, load.head, load.srv)
               /\ RowSeen(office, seen, load.head, load.row) /\ SeenDoc(seen, load.draft.body)
CacheSeen ==
    /\ \A r \in Revs : Known(office, seen, r, detail[r])
    /\ SeenDoc(seen, draft.body) /\ SeenDoc(seen, working.doc)
    /\ SeenTok(office, seen, working.of.rev, working.of.tok)
    /\ \A p \in pulls : Known(office, seen, p.rev, p.srv)
RowsSeen ==
    \A r \in RowIds : /\ RowSeen(office, seen, r, rows[r])
                      /\ RowSeen(office, seen, r, pass.items[r])
                      /\ RowSeen(office, seen, r, rec.rows[r])

(* A create that is saved again while its first body is sent is a new one to Office, so that
   the token its conversion takes over stands for that body. *)
Fresh(m) == SeenTok(office, seen, m.rev, m.srv.tok)
Resaved(m) == SameRow(rows[Create], m) /\ rows[Create].gen # m.gen
ConvertSeen ==
    LET m == pass.items[Create]
    IN  /\ pass.phase = "send" /\ Resaved(m) =>
               /\ Create \in pass.todo => ~ \E k \in keys : k.of = Create /\ k.key = m.key
               /\ m.state = "synced" => Fresh(m)
        /\ Create \in pass.sup /\ m.state = "synced" => Fresh(m)
        /\ m.state = "synced" => keys # {}
        /\ pass.phase = "send" => pass.sup = {}
SeenInv == ScreenSeen /\ LoadSeen /\ CacheSeen /\ RowsSeen /\ ConvertSeen /\ OfficeEditsSeen

(* What is seen stays seen, and a token that goes out of date never comes back. *)
LEMMA SeenKept ==
    ASSUME NEW o \in [Revs -> Revisions], NEW p \in [Revs -> Revisions], NEW s, NEW t,
           s \subseteq t, \A r \in Revs : p[r] = o[r] \/ o[r].tok < p[r].tok
    PROVE  /\ \A doc : SeenDoc(s, doc) => SeenDoc(t, doc)
           /\ \A r \in RevIds, k \in Nat : SeenTok(o, s, r, k) => SeenTok(p, t, r, k)
           /\ \A r \in RevIds, d \in Revisions : Known(o, s, r, d) => Known(p, t, r, d)
           /\ \A r \in RowIds, m \in Rows : RowSeen(o, s, r, m) => RowSeen(p, t, r, m)
<1>1. \A doc : SeenDoc(s, doc) => SeenDoc(t, doc)
  BY DEF SeenDoc
<1>2. \A r \in Revs : o[r].tok \in Nat /\ p[r].tok \in Nat
  BY DEF Revisions
<1>3. ASSUME NEW r \in RevIds, NEW k \in Nat, SeenTok(o, s, r, k)  PROVE SeenTok(p, t, r, k)
  <2>1. CASE r = 0
    BY <2>1 DEF SeenTok
  <2>2. CASE r \in Revs /\ p[r] = o[r]
    BY <1>1, <1>3, <2>2 DEF SeenTok
  <2>3. CASE r \in Revs /\ o[r].tok < p[r].tok
    BY <1>2, <1>3, <2>3, Ids DEF SeenTok
  <2> QED BY <2>1, <2>2, <2>3 DEF RevIds
<1>4. ASSUME NEW r \in RevIds, NEW d \in Revisions, Known(o, s, r, d)  PROVE Known(p, t, r, d)
  <2>1. CASE r = 0
    BY <2>1 DEF Known
  <2>2. CASE r \in Revs /\ p[r] = o[r]
    BY <1>4, <2>2 DEF Known, SeenDoc
  <2>3. CASE r \in Revs /\ o[r].tok < p[r].tok
    <3>1. d.tok \in Nat
      BY DEF Revisions
    <3> QED BY <1>2, <1>4, <2>3, <3>1, Ids DEF Known
  <2> QED BY <2>1, <2>2, <2>3 DEF RevIds
<1>5. ASSUME NEW r \in RowIds, NEW m \in Rows, RowSeen(o, s, r, m)  PROVE RowSeen(p, t, r, m)
  <2>1. /\ m.tok \in Nat /\ m.srv \in Revisions /\ m.srv.tok \in Nat /\ m.rev \in RevIds
        /\ r \in RevIds
    BY Ids DEF Rows, Revisions
  <2> QED BY <1>1, <1>3, <1>4, <1>5, <2>1 DEF RowSeen
<1> QED BY <1>1, <1>3, <1>4, <1>5

(* Showing a copy makes its token one that is seen. *)
LEMMA ShownIsSeen ==
    ASSUME NEW o, NEW s, NEW r, NEW d, Known(o, s, r, d)
    PROVE  /\ SeenTok(o, s \cup Values(d.doc), r, d.tok)
           /\ SeenDoc(s \cup Values(d.doc), d.doc)
BY DEF Known, SeenTok, SeenDoc

LEMMA SeenIsKnown ==
    ASSUME NEW o, NEW s, NEW r, NEW d, SeenTok(o, s, r, d.tok)  PROVE Known(o, s, r, d)
BY DEF Known, SeenTok, SeenDoc

LEMMA NoRevKnown ==
    ASSUME OfficeTyped, NEW r \in RevIds, Named(r)  PROVE Known(office, seen, r, NoRev)
<1>1. r # 0 => office[r].tok > 0 /\ office[r].tok \in Nat
  BY Ids DEF Named, Listed, ListedBy, OfficeTyped, Revisions, RevIds
<1> QED BY <1>1 DEF Known, NoRev

LEMMA OfficeKnown ==
    ASSUME OfficeTyped, NEW r \in RevIds  PROVE r # 0 => Known(office, seen, r, office[r])
<1>1. r # 0 => office[r].tok \in Nat
  BY DEF OfficeTyped, Revisions, RevIds
<1> QED BY <1>1 DEF Known, SeenDoc

LEMMA BlankSeen == ASSUME NEW s PROVE SeenDoc(s, Blank)
BY DEF SeenDoc, Blank, Values

LEMMA NoRowSeen == ASSUME NEW o, NEW s, NEW r PROVE RowSeen(o, s, r, NoRow)
BY DEF RowSeen, NoRow

(* A step of the device or of Office that sees more and turns tokens only forward. *)
Forward == /\ seen \subseteq seen'
           /\ \A r \in Revs : office'[r] = office[r] \/ office[r].tok < office'[r].tok

LEMMA CopiesKept ==
    ASSUME TypeOK, TypeOK', SeenInv, Forward
    PROVE  /\ UNCHANGED screen => ScreenSeen'
           /\ load' = load \/ ~load'.on => LoadSeen'
           /\ \A r \in RowIds : /\ RowSeen(office', seen', r, rows[r])
                                /\ RowSeen(office', seen', r, pass.items[r])
                                /\ RowSeen(office', seen', r, rec.rows[r])
           /\ \A r \in Revs : Known(office', seen', r, detail[r])
           /\ SeenDoc(seen', draft.body) /\ SeenDoc(seen', working.doc)
           /\ SeenTok(office', seen', working.of.rev, working.of.tok)
           /\ \A p \in pulls : Known(office', seen', p.rev, p.srv)
<1>1. office \in [Revs -> Revisions] /\ office' \in [Revs -> Revisions]
  BY DEF TypeOK, OfficeTyped
<1>2. /\ \A doc : SeenDoc(seen, doc) => SeenDoc(seen', doc)
      /\ \A r \in RevIds, k \in Nat : SeenTok(office, seen, r, k) => SeenTok(office', seen', r, k)
      /\ \A r \in RevIds, d \in Revisions : Known(office, seen, r, d) => Known(office', seen', r, d)
      /\ \A r \in RowIds, m \in Rows : RowSeen(office, seen, r, m) => RowSeen(office', seen', r, m)
  BY <1>1, SeenKept DEF Forward
<1>3. /\ screen.of.rev \in RevIds /\ screen.of.tok \in Nat /\ screen.held.tok \in Nat
      /\ screen.held.srv \in Revisions /\ screen.conflict.srv \in Revisions
  BY DEF TypeOK, ScreenTyped, Screens, Bases, Rows, Conflicts
<1>4. UNCHANGED screen => ScreenSeen'
  BY <1>2, <1>3 DEF SeenInv, ScreenSeen
<1>5. /\ load.head \in RowIds /\ load.head \in RevIds /\ load.opt \in Revisions
      /\ load.srv \in Revisions /\ load.row \in Rows
  BY Ids DEF TypeOK, ScreenTyped, Loads
<1>6. load' = load \/ ~load'.on => LoadSeen'
  BY <1>2, <1>5 DEF SeenInv, LoadSeen
<1>7. /\ working.of.rev \in RevIds /\ working.of.tok \in Nat
      /\ \A r \in Revs : r \in RevIds /\ detail[r] \in Revisions
      /\ \A p \in pulls : p.rev \in RevIds /\ p.srv \in Revisions
  BY Ids DEF TypeOK, DeviceTyped, WorkTyped, Workings, Bases
<1>8. \A r \in RowIds : rows[r] \in Rows /\ pass.items[r] \in Rows /\ rec.rows[r] \in Rows
  BY DEF TypeOK, DeviceTyped, WorkTyped, Passes, Recoveries
<1>9. /\ \A r \in Revs : Known(office', seen', r, detail[r])
      /\ SeenDoc(seen', draft.body) /\ SeenDoc(seen', working.doc)
      /\ SeenTok(office', seen', working.of.rev, working.of.tok)
      /\ \A p \in pulls : Known(office', seen', p.rev, p.srv)
  BY <1>2, <1>7 DEF SeenInv, CacheSeen
<1>10. \A r \in RowIds : /\ RowSeen(office', seen', r, rows[r])
                         /\ RowSeen(office', seen', r, pass.items[r])
                         /\ RowSeen(office', seen', r, rec.rows[r])
  BY <1>2, <1>8 DEF SeenInv, RowsSeen
<1> QED BY <1>4, <1>6, <1>9, <1>10

(* The rows, the pass and the recovery are left alone. *)
LEMMA RowsKept ==
    ASSUME TypeOK, TypeOK', SeenInv, Forward, UNCHANGED <<rows, pass, rec, keys>>
    PROVE  RowsSeen' /\ ConvertSeen'
<1>1. RowsSeen'
  BY CopiesKept DEF RowsSeen
<1>2. pass.items[Create].rev \in RevIds /\ pass.items[Create].srv.tok \in Nat
  BY Ids DEF TypeOK, WorkTyped, Passes, Rows, Revisions
<1>3. Fresh(pass.items[Create]) => Fresh(pass.items[Create])'
  <2>1. office \in [Revs -> Revisions] /\ office' \in [Revs -> Revisions]
    BY DEF TypeOK, OfficeTyped
  <2>2. \A r \in RevIds, k \in Nat : SeenTok(office, seen, r, k) => SeenTok(office', seen', r, k)
    BY <2>1, SeenKept DEF Forward
  <2> QED BY <1>2, <2>2 DEF Fresh
<1>4. ConvertSeen'
  BY <1>3 DEF SeenInv, ConvertSeen, Resaved
<1> QED BY <1>1, <1>4

(* The pulls that outlive a screen. *)
LEMMA OrphanedKnown ==
    ASSUME TypeOK, TypeOK', SeenInv, Forward
    PROVE  \A p \in Orphaned : Known(office', seen', p.rev, p.srv)
<1>1. load.on => Known(office', seen', load.head, load.srv)
  <2>1. office \in [Revs -> Revisions] /\ office' \in [Revs -> Revisions]
    BY DEF TypeOK, OfficeTyped
  <2>2. \A r \in RevIds, d \in Revisions : Known(office, seen, r, d) => Known(office', seen', r, d)
    BY <2>1, SeenKept DEF Forward
  <2>3. load.head \in RevIds /\ load.srv \in Revisions
    BY DEF TypeOK, ScreenTyped, Loads
  <2> QED BY <2>2, <2>3 DEF SeenInv, LoadSeen
<1> QED BY <1>1, CopiesKept DEF Orphaned

LEMMA OfficeSeen ==
    ASSUME TypeOK, TypeOK', SeenInv, NEW r \in Revs,
           OfficeTransition(r) \/ (\E g \in Groups : OfficeEdit(r, g))
    PROVE  SeenInv'
<1>1. UNCHANGED <<keys, device, screen, load, pulls, pass, rec, seen, clobbered>>
  BY DEF OfficeTransition, OfficeEdit, history
<1>2. \A q \in Revs : office'[q] = office[q] \/ office[q].tok < office'[q].tok
  <2>1. office \in [Revs -> Revisions] /\ office[r] \in Revisions /\ office[r].tok \in Nat
    BY DEF TypeOK, OfficeTyped, Revisions
  <2>2. /\ office'[r].tok = office[r].tok + 1
        /\ \A q \in Revs : q # r => office'[q] = office[q]
    <3>1. CASE OfficeTransition(r)
      <4>1. office' = [office EXCEPT ![r].ed = ~@, ![r].tok = @ + 1]
        BY <3>1 DEF OfficeTransition
      <4>2. office' = [office EXCEPT ![r] = [office[r] EXCEPT !.ed = ~@, !.tok = @ + 1]]
        BY <2>1, <4>1
      <4> QED BY <2>1, <4>2 DEF Revisions
    <3>2. CASE \E g \in Groups : OfficeEdit(r, g)
      <4>1. PICK g \in Groups : OfficeEdit(r, g)
        BY <3>2
      <4> DEFINE v == -(budget.office + 1)
      <4>2. office' = [office EXCEPT ![r].doc[g] = v, ![r].tok = @ + 1]
        BY <4>1 DEF OfficeEdit
      <4>3. office' = [office EXCEPT ![r] = [office[r] EXCEPT !.doc[g] = v, !.tok = @ + 1]]
        BY <2>1, <4>2
      <4> HIDE DEF v
      <4> QED BY <2>1, <4>3 DEF Revisions
    <3> QED BY <3>1, <3>2
  <2> QED BY <2>1, <2>2
<1>3. Forward
  BY <1>1, <1>2 DEF Forward
<1>4. ScreenSeen' /\ LoadSeen' /\ RowsSeen' /\ ConvertSeen'
  BY <1>1, <1>3, CopiesKept, RowsKept DEF device
<1>5. CacheSeen'
  BY <1>1, <1>3, CopiesKept DEF device, CacheSeen
<1> QED BY <1>1, <1>4, <1>5 DEF SeenInv, OfficeEditsSeen

(* A screen hydrate shows, when it is all seen. *)
LEMMA ShownSeen ==
    ASSUME NEW of \in Bases, NEW form \in Docs, NEW conflict \in Conflicts,
           screen' = Shown(of, form, conflict),
           SeenDoc(seen', form), SeenTok(office', seen', of.rev, of.tok),
           conflict.on => of.rev # 0 /\ Known(office', seen', of.rev, conflict.srv)
    PROVE  ScreenSeen'
<1>1. /\ screen'.of = of /\ screen'.form = form /\ screen'.from = form /\ screen'.step = "idle"
      /\ screen'.conflict = conflict
  BY DEF Shown, NoScreen
<1> QED BY <1>1 DEF ScreenSeen

LEMMA NoScreenSeen == ASSUME screen' = NoScreen PROVE ScreenSeen'
BY BlankSeen DEF ScreenSeen, NoScreen, NoBase, NoConflict, SeenTok

(* A revision that is shown, and its copy was known, is seen. *)
LEMMA FromRevisionSeen ==
    ASSUME NEW r \in Revs, NEW d \in Revisions, NEW conflict \in Conflicts,
           screen' = FromRevision(r, d, conflict), Values(d.doc) \subseteq seen',
           Known(office', seen', r, d), conflict.on => Known(office', seen', r, conflict.srv)
    PROVE  ScreenSeen'
<1> DEFINE of == [NoBase EXCEPT !.rev = r, !.tok = d.tok, !.base = d.doc, !.baseTok = d.tok,
                                !.ed = d.ed]
<1>1. of \in Bases /\ of.rev = r /\ of.tok = d.tok
  <2>1. d.tok \in Nat /\ d.doc \in Docs /\ d.ed \in BOOLEAN /\ r \in RevIds
    BY Ids DEF Revisions
  <2>2. NoBase \in Bases
    BY NoBaseTyped
  <2> QED BY <2>1, <2>2 DEF Bases
<1>2. screen' = Shown(of, d.doc, conflict)
  BY DEF FromRevision
<1> HIDE DEF of
<1>3. SeenDoc(seen', d.doc) /\ SeenTok(office', seen', r, d.tok)
  BY DEF Known, SeenTok, SeenDoc
<1>4. d.doc \in Docs /\ r # 0
  BY Ids DEF Revisions
<1> QED BY <1>1, <1>2, <1>3, <1>4, ShownSeen

LEMMA LoadBeginSeen ==
    ASSUME TypeOK, TypeOK', NamedInv, NamedInv', SeenInv, NEW online \in BOOLEAN, LoadBegin(online)
    PROVE  SeenInv'
<1>1. UNCHANGED <<office, keys, rows, draft, detail, pass, rec, clobbered>> /\ pulls' = Orphaned
  BY DEF LoadBegin, server
<1>2. /\ working' \in {working, NoWorking}
      /\ \/ ShowWorking
         \/ ShowDraft
         \/ /\ load'.on /\ load'.head = Newest(list') /\ load'.head # 0
            /\ load'.opt = detail[load'.head]
            /\ load'.row = rows[load'.head] /\ load'.draft = draft
            /\ load'.srv = IF online THEN office[load'.head] ELSE NoRev
            /\ UNCHANGED <<screen, seen>>
  BY DEF LoadBegin, ShowWorking
<1>3. Forward
  <2>1. seen \subseteq seen'
    BY <1>2 DEF ShowWorking, ShowDraft
  <2> QED BY <1>1, <2>1 DEF Forward
<1>4. CacheSeen'
  <2>1. SeenDoc(seen', working'.doc) /\ SeenTok(office', seen', working'.of.rev, working'.of.tok)
    <3>1. CASE working' = working
      BY <1>3, <3>1, CopiesKept
    <3>2. CASE working' = NoWorking
      BY <3>2, BlankSeen DEF NoWorking, NoBase, SeenTok
    <3> QED BY <1>2, <3>1, <3>2
  <2> QED BY <1>1, <1>3, <2>1, CopiesKept, OrphanedKnown DEF CacheSeen
<1>5. RowsSeen' /\ ConvertSeen'
  BY <1>1, <1>3, RowsKept
<1>6. ScreenSeen' /\ LoadSeen'
  <2>1. CASE ShowWorking
    <3> DEFINE row == rows[working.of.rev]
               conflict == IF working.of.rev # 0 /\ row.state = "conflict"
                           THEN ConflictOf(row, row.srv) ELSE NoConflict
    <3>1. screen' = Shown(working.of, working.doc, conflict) /\ load' = NoLoad
      BY <2>1 DEF ShowWorking
    <3>2. working.of \in Bases /\ working.doc \in Docs /\ working.of.rev \in RowIds
      BY Ids DEF TypeOK, DeviceTyped, Workings, Bases
    <3>3. row \in Rows /\ row.srv \in Revisions
      BY <3>2 DEF TypeOK, DeviceTyped, Rows
    <3>4. conflict \in Conflicts
      BY <3>3, ConflictOfTyped, NoConflictTyped
    <3>5. SeenDoc(seen', working.doc) /\ SeenTok(office', seen', working.of.rev, working.of.tok)
      BY <1>3, CopiesKept
    <3>6. conflict.on => working.of.rev # 0 /\ Known(office', seen', working.of.rev, conflict.srv)
      <4>1. RowSeen(office', seen', working.of.rev, row)
        BY <1>3, <3>2, CopiesKept
      <4> QED BY <4>1 DEF RowSeen, ConflictOf, NoConflict
    <3> HIDE DEF conflict
    <3>7. ScreenSeen'
      BY <3>1, <3>2, <3>4, <3>5, <3>6, ShownSeen
    <3> QED BY <1>3, <3>1, <3>7, NoLoadTyped, CopiesKept
  <2>2. CASE ShowDraft
    <3>1. screen' = Shown([NoBase EXCEPT !.key = draft.key], draft.body, NoConflict) /\ load' = NoLoad
      BY <2>2 DEF ShowDraft
    <3>2. draft.key \in Nat /\ draft.body \in Docs
      BY DEF TypeOK, DeviceTyped, Drafts
    <3>3. /\ SeenDoc(seen', draft.body) /\ ~NoConflict.on
          /\ SeenTok(office', seen', [NoBase EXCEPT !.key = draft.key].rev, [NoBase EXCEPT !.key = draft.key].tok)
      BY <1>3, <3>2, DraftBase, CopiesKept DEF SeenTok, NoConflict
    <3>4. ScreenSeen'
      BY <3>1, <3>2, <3>3, DraftBase, NoConflictTyped, ShownSeen
    <3> QED BY <1>3, <3>1, <3>4, NoLoadTyped, CopiesKept
  <2>3. CASE /\ load'.on /\ load'.head = Newest(list') /\ load'.head # 0
             /\ load'.opt = detail[load'.head]
             /\ load'.row = rows[load'.head] /\ load'.draft = draft
             /\ load'.srv = IF online THEN office[load'.head] ELSE NoRev
             /\ UNCHANGED <<screen, seen>>
    <3> DEFINE r == load'.head
    <3>1. r \in Revs /\ r \in RevIds /\ Named(r)
      BY <1>1, <2>3, Ids DEF NamedInv, NamedScreen, Named, Listed, ListedBy
    <3>2. Known(office', seen', r, load'.opt) /\ RowSeen(office', seen', r, load'.row)
          /\ SeenDoc(seen', load'.draft.body)
      BY <1>3, <2>3, <3>1, Ids, CopiesKept
    <3>3. Known(office, seen, r, load'.srv)
      BY <2>3, <3>1, OfficeKnown, NoRevKnown DEF TypeOK
    <3>4. LoadSeen'
      BY <1>1, <2>3, <3>2, <3>3 DEF LoadSeen
    <3> QED BY <1>3, <2>3, <3>4, CopiesKept
  <2> QED BY <1>2, <2>1, <2>2, <2>3
<1> QED BY <1>1, <1>4, <1>5, <1>6 DEF SeenInv, OfficeEditsSeen

LEMMA LoadEndSeen ==
    ASSUME TypeOK, TypeOK', NamedInv, SeenInv, LoadEnd
    PROVE  SeenInv'
<1> DEFINE r == load.head
           srv == IF load.online THEN load.srv ELSE detail[r]
           view == View(srv)
           local == view \in {"local_update", "conflict"}
           office1 == IF load.row.state = "conflict" /\ load.row.srv.tok > 0 THEN load.row.srv ELSE srv
           conflict == IF view = "conflict" THEN ConflictOf(load.row, office1) ELSE NoConflict
           key == [NoBase EXCEPT !.key = load.draft.key]
<1>1. load.on /\ r \in Revs
  BY DEF LoadEnd, NamedInv, NamedScreen, Named, Listed, ListedBy
<1>2. /\ UNCHANGED <<office, keys, rows, working, pulls, pass, rec, clobbered>> /\ load' = NoLoad
      /\ seen' = seen \cup Values(screen'.form)
      /\ detail' = [detail EXCEPT ![r] = IF local THEN load.opt ELSE srv]
      /\ draft' \in {draft, NoDraft}
  BY DEF LoadEnd, server
<1>3. Forward
  BY <1>2 DEF Forward
<1>4. /\ load.row \in Rows /\ load.srv \in Revisions /\ load.opt \in Revisions /\ load.draft \in Drafts
      /\ load.row.srv \in Revisions /\ load.draft.key \in Nat /\ load.draft.body \in Docs
      /\ srv \in Revisions
  BY <1>1 DEF TypeOK, ScreenTyped, DeviceTyped, Loads, Rows, Drafts
<1>5. /\ Known(office, seen, r, srv) /\ Known(office, seen, r, load.opt)
      /\ Known(office, seen, r, office1) /\ SeenDoc(seen, load.draft.body)
  BY <1>1 DEF SeenInv, LoadSeen, CacheSeen, RowSeen
<1>6. /\ Known(office', seen', r, srv) /\ Known(office', seen', r, load.opt)
      /\ Known(office', seen', r, office1) /\ SeenDoc(seen', load.draft.body)
  <2>1. seen \subseteq seen' /\ office' = office
    BY <1>2
  <2> HIDE DEF srv, office1, r
  <2> QED BY <1>5, <2>1 DEF Known, SeenDoc
<1>7. screen' = CASE local -> FromRevision(r, load.opt, conflict)
                  [] view = "server" -> FromRevision(r, srv, NoConflict)
                  [] view = "local_draft" -> Shown(key, load.draft.body, NoConflict)
                  [] OTHER -> Shown(NoBase, Blank, NoConflict)
  BY Zenon DEF LoadEnd
<1>8. conflict \in Conflicts /\ (conflict.on => Known(office', seen', r, conflict.srv))
  BY <1>4, <1>6, ConflictOfTyped, NoConflictTyped DEF ConflictOf, NoConflict
<1>9. key \in Bases /\ key.rev = 0
  BY <1>4, DraftBase
<1>10. CacheSeen'
  <2>1. \A q \in Revs : Known(office', seen', q, detail'[q])
    BY <1>2, <1>3, <1>6, CopiesKept DEF TypeOK, DeviceTyped
  <2>2. SeenDoc(seen', draft'.body)
    BY <1>2, <1>3, BlankSeen, CopiesKept DEF NoDraft
  <2> QED BY <1>2, <1>3, <2>1, <2>2, CopiesKept DEF CacheSeen
<1>11. RowsSeen' /\ ConvertSeen' /\ LoadSeen'
  BY <1>2, <1>3, RowsKept, CopiesKept, NoLoadTyped
<1>12. ScreenSeen'
  <2> HIDE DEF conflict, key, local, view, srv, r
  <2>1. \/ screen' = FromRevision(r, load.opt, conflict)
        \/ screen' = FromRevision(r, srv, NoConflict)
        \/ screen' = Shown(key, load.draft.body, NoConflict)
        \/ screen' = Shown(NoBase, Blank, NoConflict)
    BY <1>7
  <2>2. ~NoConflict.on
    BY DEF NoConflict
  <2>3. \A d \in Revisions, c \in Conflicts : FromRevision(r, d, c).form = d.doc
    BY DEF FromRevision, Shown, NoScreen
  <2>4. CASE screen' = FromRevision(r, load.opt, conflict)
    <3>1. Values(load.opt.doc) \subseteq seen'
      BY <1>2, <1>4, <1>8, <2>3, <2>4
    <3> QED BY <1>1, <1>4, <1>6, <1>8, <2>4, <3>1, FromRevisionSeen
  <2>5. CASE screen' = FromRevision(r, srv, NoConflict)
    <3>1. Values(srv.doc) \subseteq seen'
      BY <1>2, <1>4, <2>3, <2>5, NoConflictTyped
    <3> QED BY <1>1, <1>4, <1>6, <2>2, <2>5, <3>1, NoConflictTyped, FromRevisionSeen
  <2>6. CASE screen' = Shown(key, load.draft.body, NoConflict)
    <3>1. SeenTok(office', seen', key.rev, key.tok)
      BY <1>9 DEF SeenTok
    <3> QED BY <1>4, <1>6, <1>9, <2>2, <2>6, <3>1, NoConflictTyped, ShownSeen
  <2>7. CASE screen' = Shown(NoBase, Blank, NoConflict)
    <3>1. SeenTok(office', seen', NoBase.rev, NoBase.tok) /\ SeenDoc(seen', Blank)
      BY BlankSeen DEF SeenTok, NoBase
    <3> QED BY <2>2, <2>7, <3>1, NoBaseTyped, BlankTyped, NoConflictTyped, ShownSeen
  <2> QED BY <2>1, <2>4, <2>5, <2>6, <2>7
<1> QED BY <1>2, <1>10, <1>11, <1>12 DEF SeenInv, OfficeEditsSeen

LEMMA PullSeen ==
    ASSUME TypeOK, TypeOK', SeenInv,
           (\E r \in Revs : RefreshLead(r)) \/ (\E p \in pulls : PullEnd(p))
    PROVE  SeenInv'
<1>1. UNCHANGED <<office, keys, rows, draft, working, screen, load, pass, rec, seen, clobbered>>
  BY DEF RefreshLead, PullEnd, server, device, history
<1>2. Forward
  BY <1>1 DEF Forward
<1>3. ScreenSeen' /\ LoadSeen' /\ RowsSeen' /\ ConvertSeen'
  BY <1>1, <1>2, CopiesKept, RowsKept
<1>4. /\ \A r \in Revs : Known(office', seen', r, detail'[r])
      /\ \A p \in pulls' : Known(office', seen', p.rev, p.srv)
  <2>1. CASE \E r \in Revs : RefreshLead(r)
    <3>1. PICK r \in Revs : RefreshLead(r)
      BY <2>1
    <3>2. Known(office, seen, r, office[r])
      BY OfficeKnown, Ids DEF TypeOK, RevIds
    <3> QED BY <1>1, <1>2, <3>1, <3>2, CopiesKept DEF RefreshLead, device
  <2>2. CASE \E p \in pulls : PullEnd(p)
    <3>1. PICK p \in pulls : PullEnd(p)
      BY <2>2
    <3>2. detail' = [detail EXCEPT ![p.rev] = p.srv] /\ pulls' = pulls \ {p}
      BY <3>1 DEF PullEnd
    <3> QED BY <1>2, <3>2, CopiesKept DEF TypeOK, DeviceTyped
  <2> QED BY <2>1, <2>2
<1>5. CacheSeen'
  BY <1>1, <1>2, <1>4, CopiesKept DEF CacheSeen
<1> QED BY <1>1, <1>3, <1>5 DEF SeenInv, OfficeEditsSeen

LEMMA EditSeen ==
    ASSUME TypeOK, TypeOK', SeenInv,
           Open \/ Leave \/ Autosave \/ Revert \/ \E g \in Groups, empties \in BOOLEAN : Type(g, empties)
    PROVE  SeenInv'
<1>1. /\ UNCHANGED <<office, keys, rows, draft, detail, pass, rec, seen, clobbered>>
      /\ load' \in {load, NoLoad} /\ pulls' \in {pulls, Orphaned}
      /\ working' \in {working, NoWorking, AsWorking}
  BY DEF Open, Leave, Autosave, Revert, Type, server, device, history
<1>2. Forward
  BY <1>1 DEF Forward
<1>3. RowsSeen' /\ ConvertSeen' /\ LoadSeen'
  BY <1>1, <1>2, RowsKept, CopiesKept, NoLoadTyped
<1>4. CacheSeen'
  <2>1. /\ SeenDoc(seen, screen.form) /\ SeenTok(office, seen, screen.of.rev, screen.of.tok)
    BY DEF SeenInv, ScreenSeen
  <2>2. /\ SeenDoc(seen', working'.doc) /\ SeenTok(office', seen', working'.of.rev, working'.of.tok)
    <3>1. CASE working' = working
      BY <1>2, <3>1, CopiesKept
    <3>2. CASE working' = NoWorking
      BY <3>2, BlankSeen DEF NoWorking, NoBase, SeenTok
    <3>3. CASE working' = AsWorking
      BY <1>1, <2>1, <3>3 DEF AsWorking
    <3> QED BY <1>1, <3>1, <3>2, <3>3
  <2>3. \A p \in pulls' : Known(office', seen', p.rev, p.srv)
    BY <1>1, <1>2, CopiesKept, OrphanedKnown
  <2> QED BY <1>1, <1>2, <2>2, <2>3, CopiesKept DEF CacheSeen
<1>5. ScreenSeen'
  <2>1. screen \in Screens
    BY DEF TypeOK, ScreenTyped
  <2>2. CASE Leave
    BY <2>2, NoScreenSeen DEF Leave
  <2>3. CASE Autosave
    BY <1>2, <2>3, CopiesKept DEF Autosave
  <2>4. CASE Open
    <3>1. screen' = [NoScreen EXCEPT !.open = TRUE, !.step = "opening"]
      BY <2>4 DEF Open
    <3> QED BY <3>1, BlankSeen DEF NoScreen, NoBase, NoConflict, ScreenSeen, SeenTok
  <2>5. CASE Revert
    <3>1. /\ screen'.form = screen.from /\ screen'.from = screen.from /\ screen'.of = screen.of
          /\ screen'.conflict = screen.conflict /\ screen'.step = "idle"
      BY <2>1, <2>5 DEF Revert, Editable, Screens
    <3> QED BY <1>1, <3>1 DEF SeenInv, ScreenSeen
  <2>6. CASE \E g \in Groups, empties \in BOOLEAN : Type(g, empties)
    <3>1. PICK g \in Groups, empties \in BOOLEAN : Type(g, empties)
      BY <2>6
    <3> DEFINE v == IF empties THEN 0 ELSE budget.edits + 1
    <3>2. screen.form \in Docs /\ v \in Int /\ v >= 0
      BY <2>1 DEF Screens, TypeOK, Budgets
    <3>3. /\ screen'.form = [screen.form EXCEPT ![g] = v]
          /\ screen'.from = screen.from /\ screen'.of = screen.of
          /\ screen'.conflict = screen.conflict /\ screen'.step = "idle"
      BY <2>1, <3>1 DEF Type, Editable, Screens
    <3> HIDE DEF v
    <3>4. SeenDoc(seen, screen'.form)
      <4>1. SeenDoc(seen, screen.form)
        BY DEF SeenInv, ScreenSeen
      <4>2. \A h \in Groups : screen'.form[h] = IF h = g THEN v ELSE screen.form[h]
        BY <3>2, <3>3 DEF Docs
      <4>3. ASSUME NEW h \in Groups, screen'.form[h] < 0  PROVE screen'.form[h] \in seen
        BY <3>2, <4>1, <4>2, <4>3 DEF SeenDoc, Values
      <4> QED BY <4>3 DEF SeenDoc, Values
    <3> QED BY <1>1, <3>3, <3>4 DEF SeenInv, ScreenSeen
  <2> QED BY <2>2, <2>3, <2>4, <2>5, <2>6
<1> QED BY <1>1, <1>3, <1>4, <1>5 DEF SeenInv, OfficeEditsSeen

(* Keys of new revisions, and a create's row that is left alone or removed, say nothing of the
   create a pass holds. *)
LEMMA ConvertKept ==
    ASSUME TypeOK, TypeOK', SeenInv, Forward, UNCHANGED pass,
           rows'[Create] \in {rows[Create], NoRow},
           keys \subseteq keys', \A k \in keys' \ keys : k.of # Create
    PROVE  ConvertSeen'
<1> DEFINE m == pass.items[Create]
<1>1. m.rev \in RevIds /\ m.srv.tok \in Nat
  BY Ids DEF TypeOK, WorkTyped, Passes, Rows, Revisions
<1>2. Fresh(m) => Fresh(m)'
  <2>1. office \in [Revs -> Revisions] /\ office' \in [Revs -> Revisions]
    BY DEF TypeOK, OfficeTyped
  <2>2. \A r \in RevIds, k \in Nat : SeenTok(office, seen, r, k) => SeenTok(office', seen', r, k)
    BY <2>1, SeenKept DEF Forward
  <2> QED BY <1>1, <2>2 DEF Fresh
<1>3. Resaved(m)' => Resaved(m)
  BY DEF Resaved, SameRow, NoRow
<1>4. keys # {} => keys' # {}
  OBVIOUS
<1>5. (\E k \in keys' : k.of = Create /\ k.key = m.key)
        => (\E k \in keys : k.of = Create /\ k.key = m.key)
  OBVIOUS
<1> QED BY <1>2, <1>3, <1>4, <1>5 DEF SeenInv, ConvertSeen

(* One row is written, the pass and the recovery keep theirs. *)
LEMMA RowsFrameSeen ==
    ASSUME TypeOK, TypeOK', SeenInv, Forward, UNCHANGED <<pass, rec>>,
           \A r \in RowIds : rows'[r] = rows[r] \/ RowSeen(office', seen', r, rows'[r])
    PROVE  RowsSeen'
<1>1. \A r \in RowIds : /\ RowSeen(office', seen', r, rows[r])
                        /\ RowSeen(office', seen', r, pass.items[r])
                        /\ RowSeen(office', seen', r, rec.rows[r])
  BY CopiesKept
<1>2. \A r \in RowIds : RowSeen(office', seen', r, rows'[r])
  BY <1>1
<1> QED BY <1>1, <1>2 DEF RowsSeen

LEMMA SaveSeen ==
    ASSUME TypeOK, TypeOK', NamedInv, SeenInv, "replay" \notin Windows,
           SaveBegin \/ SaveQueue \/ SaveClear
    PROVE  SeenInv'
<1> DEFINE r == screen.of.rev
<1>1. /\ UNCHANGED <<office, keys, pass, rec, seen, clobbered>> /\ load' \in {load, NoLoad}
      /\ pulls' \in {pulls, Orphaned}
  BY DEF SaveBegin, SaveQueue, SaveClear, server, history
<1>2. Forward /\ LoadSeen'
  <2>1. Forward
    BY <1>1 DEF Forward
  <2> QED BY <1>1, <2>1, NoLoadTyped, CopiesKept
<1>3. /\ screen \in Screens /\ r \in RevIds /\ r \in RowIds /\ rows[r] \in Rows
      /\ screen.form \in Docs /\ screen.of.tok \in Nat
  BY Ids DEF TypeOK, ScreenTyped, DeviceTyped, Screens, Bases
<1>4. /\ SeenDoc(seen, screen.form) /\ SeenDoc(seen, screen.from)
      /\ SeenTok(office, seen, r, screen.of.tok) /\ RowSeen(office, seen, r, rows[r])
  BY <1>3 DEF SeenInv, ScreenSeen, RowsSeen
<1>5. \A p \in pulls' : Known(office', seen', p.rev, p.srv)
  BY <1>1, <1>2, CopiesKept, OrphanedKnown
<1>6. CASE SaveBegin
  <2>1. /\ screen' = [screen EXCEPT !.step = "queue", !.held = SaveRow] /\ UNCHANGED <<rows, working>>
        /\ \/ r = 0 /\ draft'.body = screen.form /\ detail' = detail
           \/ /\ r # 0 /\ draft' = draft
              /\ detail' = [detail EXCEPT ![r] = [tok |-> screen.of.tok, doc |-> screen.form, ed |-> TRUE]]
    BY <1>6 DEF SaveBegin
  <2>2. /\ screen'.step = "queue" /\ screen'.held = SaveRow /\ screen'.of = screen.of
        /\ screen'.form = screen.form /\ screen'.from = screen.from
        /\ screen'.conflict = screen.conflict
    BY <1>3, <2>1 DEF Screens
  <2>3. SaveRow.body = screen.form
    BY DEF SaveRow, NoRow
  <2>4. SeenTok(office, seen, r, SaveRow.tok)
    <3>1. CASE r = 0
      BY <3>1 DEF SeenTok
    <3>2. CASE r # 0
      <4>1. SaveRow.tok = IF rows[r].state \notin {"none", "synced"} THEN rows[r].tok ELSE screen.of.tok
        BY <3>2 DEF SaveRow, NoRow
      <4> QED BY <1>4, <4>1 DEF RowSeen
    <3> QED BY <3>1, <3>2
  <2>5. ScreenSeen'
    BY <1>1, <1>4, <2>2, <2>3, <2>4 DEF SeenInv, ScreenSeen
  <2>6. \A q \in Revs : Known(office', seen', q, detail'[q])
    <3>1. CASE detail' = detail
      BY <1>2, <3>1, CopiesKept
    <3>2. CASE r # 0 /\ detail' = [detail EXCEPT ![r] = [tok |-> screen.of.tok, doc |-> screen.form, ed |-> TRUE]]
      <4> DEFINE d == [tok |-> screen.of.tok, doc |-> screen.form, ed |-> TRUE]
      <4>1. d.tok = screen.of.tok
        OBVIOUS
      <4> HIDE DEF d
      <4>2. Known(office, seen, r, d)
        BY <1>4, <4>1, SeenIsKnown
      <4>3. detail' = [detail EXCEPT ![r] = d]
        BY <3>2 DEF d
      <4> QED BY <1>1, <1>2, <4>2, <4>3, CopiesKept DEF TypeOK, DeviceTyped
    <3> QED BY <2>1, <3>1, <3>2
  <2>7. SeenDoc(seen', draft'.body)
    BY <1>1, <1>2, <1>4, <2>1, CopiesKept
  <2>8. CacheSeen'
    BY <1>2, <1>5, <2>1, <2>6, <2>7, CopiesKept DEF CacheSeen
  <2>9. RowsSeen' /\ ConvertSeen'
    BY <1>1, <1>2, <2>1, RowsKept
  <2> QED BY <1>1, <1>2, <2>5, <2>8, <2>9 DEF SeenInv, OfficeEditsSeen
<1>7. CASE SaveQueue
  <2> DEFINE gen == rows[r].gen + 1
             row == [screen.held EXCEPT !.state = "pending", !.gen = gen, !.save = budget.saves]
  <2>1. /\ screen.step = "queue" /\ rows' = [rows EXCEPT ![r] = row]
        /\ r = Create /\ InFlight(Create) => keys = {}
        /\ screen' = [screen EXCEPT !.step = "clear"] /\ UNCHANGED <<draft, working, detail>>
        /\ pulls' = pulls
    BY <1>7 DEF SaveQueue
  <2>2. row.state = "pending" /\ row.body = screen.held.body /\ row.tok = screen.held.tok
    BY <1>3 DEF Screens, Rows
  <2>3. RowSeen(office', seen', r, row)
    BY <1>1, <2>1, <2>2 DEF SeenInv, ScreenSeen, RowSeen
  <2> HIDE DEF row
  <2>4. \A q \in RowIds : rows'[q] = rows[q] \/ RowSeen(office', seen', q, rows'[q])
    BY <1>3, <2>1, <2>3 DEF TypeOK, DeviceTyped
  <2>5. RowsSeen'
    BY <1>1, <1>2, <2>4, RowsFrameSeen
  <2>6. ConvertSeen'
    <3>1. CASE r = Create
      <4> DEFINE m == pass.items[Create]
      <4>1. pass.phase = "send" /\ m.state # "none" => keys = {}
        BY <2>1, <3>1 DEF InFlight
      <4>2. Create \in pass.todo => m.state # "none"
        BY DEF NamedInv, NamedRows
      <4>3. Fresh(m)' = Fresh(m)
        BY <1>1 DEF Fresh
      <4> QED BY <1>1, <4>1, <4>2, <4>3 DEF SeenInv, ConvertSeen
    <3>2. CASE r # Create
      <4>1. rows'[Create] = rows[Create]
        BY <2>1, <3>2, Ids DEF TypeOK, DeviceTyped
      <4> QED BY <1>1, <1>2, <4>1, ConvertKept
    <3> QED BY <3>1, <3>2
  <2>7. ScreenSeen'
    <3>1. /\ screen'.step = "clear" /\ screen'.of = screen.of
          /\ screen'.form = screen.form /\ screen'.from = screen.from
          /\ screen'.conflict = screen.conflict
      BY <1>3, <2>1 DEF Screens
    <3> QED BY <1>1, <3>1 DEF SeenInv, ScreenSeen
  <2>8. CacheSeen'
    BY <1>2, <1>5, <2>1, CopiesKept DEF CacheSeen
  <2> QED BY <1>1, <1>2, <2>5, <2>6, <2>7, <2>8 DEF SeenInv, OfficeEditsSeen
<1>8. CASE SaveClear
  <2>1. working' = NoWorking /\ screen' = NoScreen /\ UNCHANGED <<rows, draft, detail>>
    BY <1>8 DEF SaveClear
  <2>2. SeenDoc(seen', working'.doc) /\ SeenTok(office', seen', working'.of.rev, working'.of.tok)
    BY <2>1, BlankSeen DEF NoWorking, NoBase, SeenTok
  <2>3. CacheSeen'
    BY <1>2, <1>5, <2>1, <2>2, CopiesKept DEF CacheSeen
  <2>4. RowsSeen' /\ ConvertSeen'
    BY <1>1, <1>2, <2>1, RowsKept
  <2> QED BY <1>1, <1>2, <2>1, <2>3, <2>4, NoScreenSeen DEF SeenInv, OfficeEditsSeen
<1> QED BY <1>6, <1>7, <1>8

LEMMA ConflictSeen ==
    ASSUME TypeOK, TypeOK', NamedInv, SeenInv,
           KeepMineBegin \/ KeepMineWrite \/ UseOfficeBegin \/ UseOfficeCommit
             \/ UseOfficePreserved \/ RemoveLocal
    PROVE  SeenInv'
<1> DEFINE r == screen.of.rev
<1>1. /\ UNCHANGED <<office, keys, pass, rec, clobbered>> /\ load' \in {load, NoLoad}
      /\ pulls' \in {pulls, Orphaned} /\ seen \subseteq seen'
  BY DEF KeepMineBegin, KeepMineWrite, UseOfficeBegin, UseOfficeCommit, UseOfficePreserved,
         RemoveLocal, server, history
<1>2. Forward /\ LoadSeen'
  <2>1. Forward
    BY <1>1 DEF Forward
  <2> QED BY <1>1, <2>1, NoLoadTyped, CopiesKept
<1>3. /\ screen \in Screens /\ r \in RevIds /\ r \in RowIds /\ rows[r] \in Rows
      /\ screen.conflict \in Conflicts /\ screen.held \in Rows
  BY Ids DEF TypeOK, ScreenTyped, DeviceTyped, Screens, Bases
<1>4. \A p \in pulls' : Known(office', seen', p.rev, p.srv)
  BY <1>1, <1>2, CopiesKept, OrphanedKnown
<1>5. /\ SeenDoc(seen', screen.form) /\ SeenDoc(seen', screen.from)
      /\ SeenTok(office', seen', r, screen.of.tok)
      /\ screen.conflict.on => r # 0 /\ Known(office', seen', r, screen.conflict.srv)
  BY <1>2, CopiesKept, <1>1 DEF SeenInv, ScreenSeen, SeenDoc, SeenTok, Known
<1>6. CASE KeepMineBegin
  <2>1. /\ screen' = [screen EXCEPT !.step = "keep", !.held = rows[r]] /\ rows[r].state # "none"
        /\ screen.conflict.on /\ UNCHANGED <<rows, draft, working, detail>>
    BY <1>6 DEF KeepMineBegin, device
  <2>2. /\ screen'.step = "keep" /\ screen'.held = rows[r] /\ screen'.of = screen.of
        /\ screen'.form = screen.form /\ screen'.from = screen.from
        /\ screen'.conflict = screen.conflict
    BY <1>3, <2>1 DEF Screens
  <2>3. SeenDoc(seen', rows[r].body)
    BY <1>2, <1>3, <2>1, CopiesKept DEF RowSeen
  <2>4. ScreenSeen'
    BY <1>5, <2>1, <2>2, <2>3 DEF ScreenSeen
  <2>5. CacheSeen'
    BY <1>2, <1>4, <2>1, CopiesKept DEF CacheSeen
  <2> QED BY <1>1, <1>2, <2>1, <2>4, <2>5, RowsKept DEF SeenInv, OfficeEditsSeen
<1>7. CASE KeepMineWrite
  <2> DEFINE m == screen.held
             srv == screen.conflict.srv
             body == Merge(m.base, m.body, srv.doc)
             row == [m EXCEPT !.state = "pending", !.tok = srv.tok, !.srv = NoRev,
                              !.body = body, !.base = srv.doc, !.baseTok = srv.tok]
  <2>1. /\ screen.step = "keep" /\ rows' = [rows EXCEPT ![r] = row]
        /\ screen' = [screen EXCEPT !.step = "opening", !.conflict = NoConflict]
        /\ seen' = seen \cup Values(srv.doc) /\ UNCHANGED <<draft, working, detail>>
    BY <1>7 DEF KeepMineWrite
  <2>2. /\ screen.conflict.on /\ r # 0 /\ SeenDoc(seen, m.body) /\ Known(office, seen, r, srv)
    BY <2>1 DEF SeenInv, ScreenSeen
  <2>3. SeenDoc(seen', body)
    <3>1. \A g \in Groups : body[g] = m.body[g] \/ body[g] = srv.doc[g]
      BY DEF Merge
    <3>2. SeenDoc(seen', m.body) /\ SeenDoc(seen', srv.doc)
      BY <2>1, <2>2 DEF SeenDoc
    <3> HIDE DEF body
    <3> QED BY <3>1, <3>2 DEF SeenDoc, Values
  <2>4. SeenTok(office', seen', r, srv.tok)
    BY <1>1, <2>1, <2>2, ShownIsSeen
  <2>5. row.state = "pending" /\ row.body = body /\ row.tok = srv.tok
    <3> HIDE DEF body, srv
    <3> QED BY <1>3 DEF Rows
  <2>6. RowSeen(office', seen', r, row)
    BY <2>3, <2>4, <2>5 DEF RowSeen
  <2> HIDE DEF row
  <2>7. \A q \in RowIds : rows'[q] = rows[q] \/ RowSeen(office', seen', q, rows'[q])
    BY <1>3, <2>1, <2>6 DEF TypeOK, DeviceTyped
  <2>8. rows'[Create] = rows[Create]
    BY <2>1, <2>2, Ids DEF TypeOK, DeviceTyped, Create
  <2>9. RowsSeen' /\ ConvertSeen'
    BY <1>1, <1>2, <2>7, <2>8, RowsFrameSeen, ConvertKept
  <2>10. ScreenSeen'
    <3>1. /\ screen'.step = "opening" /\ screen'.of = screen.of
          /\ screen'.form = screen.form /\ screen'.from = screen.from /\ ~screen'.conflict.on
      BY <1>3, <2>1 DEF Screens, NoConflict
    <3> QED BY <1>5, <3>1 DEF ScreenSeen
  <2>11. CacheSeen'
    BY <1>2, <1>4, <2>1, CopiesKept DEF CacheSeen
  <2> QED BY <1>1, <1>2, <2>9, <2>10, <2>11 DEF SeenInv, OfficeEditsSeen
<1>8. CASE UseOfficeBegin
  <2> DEFINE held == [rows[r] EXCEPT !.srv = office[r]]
  <2>1. /\ screen' = [screen EXCEPT !.step = "office", !.held = held] /\ r # 0
        /\ UNCHANGED <<rows, draft, working, detail>>
    BY <1>8 DEF UseOfficeBegin, device
  <2>2. held.srv = office[r]
    BY <1>3 DEF Rows
  <2> HIDE DEF held
  <2>3. /\ screen'.step = "office" /\ screen'.held.srv = office[r] /\ screen'.of = screen.of
        /\ screen'.form = screen.form /\ screen'.from = screen.from
        /\ screen'.conflict = screen.conflict
    BY <1>3, <2>1, <2>2 DEF Screens
  <2>4. Known(office, seen, r, office[r])
    BY <1>3, <2>1, OfficeKnown DEF TypeOK
  <2>5. UNCHANGED seen
    BY <1>8 DEF UseOfficeBegin, history
  <2>6. ScreenSeen'
    BY <1>1, <1>5, <2>3, <2>4, <2>5 DEF ScreenSeen
  <2>7. CacheSeen'
    BY <1>2, <1>4, <2>1, CopiesKept DEF CacheSeen
  <2> QED BY <1>1, <1>2, <2>1, <2>6, <2>7, RowsKept DEF SeenInv, OfficeEditsSeen
<1>9. CASE UseOfficeCommit
  <2>1. /\ screen.step = "office" /\ rows' = [rows EXCEPT ![r] = NoRow]
        /\ detail' = [detail EXCEPT ![r] = screen.held.srv]
        /\ draft' = NoDraft /\ working' = NoWorking /\ UNCHANGED seen
        /\ screen' = [screen EXCEPT !.step = "opening", !.conflict = NoConflict]
    BY <1>9 DEF UseOfficeCommit
  <2>2. r # 0 /\ Known(office', seen', r, screen.held.srv)
    BY <1>1, <2>1 DEF SeenInv, ScreenSeen, NamedInv, NamedScreen
  <2>3. \A q \in Revs : Known(office', seen', q, detail'[q])
    BY <1>2, <2>1, <2>2, CopiesKept DEF TypeOK, DeviceTyped
  <2>4. /\ SeenDoc(seen', draft'.body) /\ SeenDoc(seen', working'.doc)
        /\ SeenTok(office', seen', working'.of.rev, working'.of.tok)
    BY <2>1, BlankSeen DEF NoDraft, NoWorking, NoBase, SeenTok
  <2>5. CacheSeen'
    BY <1>4, <2>3, <2>4 DEF CacheSeen
  <2>6. \A q \in RowIds : rows'[q] = rows[q] \/ RowSeen(office', seen', q, rows'[q])
    BY <1>3, <2>1, NoRowSeen DEF TypeOK, DeviceTyped
  <2>7. rows'[Create] = rows[Create]
    BY <2>1, <2>2, Ids DEF TypeOK, DeviceTyped, Create
  <2>8. RowsSeen' /\ ConvertSeen'
    BY <1>1, <1>2, <2>6, <2>7, RowsFrameSeen, ConvertKept
  <2>9. ScreenSeen'
    <3>1. /\ screen'.step = "opening" /\ screen'.of = screen.of
          /\ screen'.form = screen.form /\ screen'.from = screen.from /\ ~screen'.conflict.on
      BY <1>3, <2>1 DEF Screens, NoConflict
    <3> QED BY <1>5, <3>1 DEF ScreenSeen
  <2> QED BY <1>1, <1>2, <2>5, <2>8, <2>9 DEF SeenInv, OfficeEditsSeen
<1>10. CASE UseOfficePreserved
  <2>1. screen' = [screen EXCEPT !.step = "opening"] /\ UNCHANGED <<rows, draft, working, detail>>
    BY <1>10 DEF UseOfficePreserved, device
  <2>2. /\ screen'.step = "opening" /\ screen'.of = screen.of
        /\ screen'.form = screen.form /\ screen'.from = screen.from
        /\ screen'.conflict = screen.conflict
    BY <1>3, <2>1 DEF Screens
  <2>3. ScreenSeen'
    BY <1>5, <2>2 DEF ScreenSeen
  <2>4. CacheSeen'
    BY <1>2, <1>4, <2>1, CopiesKept DEF CacheSeen
  <2> QED BY <1>1, <1>2, <2>1, <2>3, <2>4, RowsKept DEF SeenInv, OfficeEditsSeen
<1>11. CASE RemoveLocal
  <2>1. /\ rows' = [rows EXCEPT ![Create] = NoRow] /\ draft' = NoDraft /\ working' = NoWorking
        /\ screen' = NoScreen /\ UNCHANGED detail
    BY <1>11 DEF RemoveLocal
  <2>2. /\ SeenDoc(seen', draft'.body) /\ SeenDoc(seen', working'.doc)
        /\ SeenTok(office', seen', working'.of.rev, working'.of.tok)
    BY <2>1, BlankSeen DEF NoDraft, NoWorking, NoBase, SeenTok
  <2>3. CacheSeen'
    BY <1>2, <1>4, <2>1, <2>2, CopiesKept DEF CacheSeen
  <2>4. \A q \in RowIds : rows'[q] = rows[q] \/ RowSeen(office', seen', q, rows'[q])
    BY <2>1, Ids, NoRowSeen DEF TypeOK, DeviceTyped
  <2>5. rows'[Create] = NoRow
    BY <2>1, Ids DEF TypeOK, DeviceTyped
  <2>6. RowsSeen' /\ ConvertSeen'
    BY <1>1, <1>2, <2>4, <2>5, RowsFrameSeen, ConvertKept
  <2> QED BY <1>1, <1>2, <2>1, <2>3, <2>6, NoScreenSeen DEF SeenInv, OfficeEditsSeen
<1> QED BY <1>6, <1>7, <1>8, <1>9, <1>10, <1>11

LEMMA CloneSeen ==
    ASSUME TypeOK, TypeOK', NamedInv, CloneInv, SeenInv,
           NewRevisionKey \/ NewRevisionFails \/ (\E lost \in BOOLEAN : NewRevision(lost))
    PROVE  SeenInv'
<1>1. UNCHANGED <<rows, draft, working, pass, rec, clobbered>>
  BY DEF NewRevisionKey, NewRevisionFails, NewRevision, device, history
<1>2. screen \in Screens
  BY DEF TypeOK, ScreenTyped
<1>3. CASE NewRevisionKey \/ NewRevisionFails
  <2>1. /\ UNCHANGED <<office, keys, detail, load, pulls, seen>>
        /\ \/ screen' = [screen EXCEPT !.step = "clone"]
           \/ screen' = [screen EXCEPT !.step = "idle"]
    BY <1>3 DEF NewRevisionKey, NewRevisionFails, server, device, history
  <2>2. Forward
    BY <2>1 DEF Forward
  <2>3. ScreenSeen'
    <3>1. /\ screen'.step \in {"clone", "idle"} /\ screen'.of = screen.of
          /\ screen'.form = screen.form /\ screen'.from = screen.from
          /\ screen'.conflict = screen.conflict
      BY <1>2, <2>1 DEF Screens
    <3> QED BY <2>1, <3>1 DEF SeenInv, ScreenSeen
  <2>4. CacheSeen'
    BY <1>1, <2>1, <2>2, CopiesKept DEF CacheSeen
  <2> QED BY <1>1, <2>1, <2>2, <2>3, <2>4, CopiesKept, RowsKept DEF SeenInv, OfficeEditsSeen
<1>4. CASE \E lost \in BOOLEAN : NewRevision(lost)
  <2>1. PICK lost \in BOOLEAN : NewRevision(lost)
    BY <1>4
  <2> DEFINE r == screen.of.rev
             made == {k \in keys : k.of = r /\ k.key = opkey[r]}
             new == IF made # {} THEN (CHOOSE k \in made : TRUE).rev
                    ELSE Cardinality(ListedBy(office)) + 1
             key == [of |-> r, key |-> opkey[r], rev |-> new, body |-> Blank]
             d == [tok |-> 1, doc |-> office[r].doc, ed |-> TRUE]
  <2>2. /\ new \in Revs /\ screen.step = "clone"
        /\ IF made # {} THEN UNCHANGED server
           ELSE office' = [office EXCEPT ![new] = d] /\ keys' = keys \cup {key}
        /\ IF lost
           THEN screen' = [screen EXCEPT !.step = "idle"] /\ UNCHANGED <<detail, seen, load, pulls>>
           ELSE /\ detail' = [detail EXCEPT ![new] = office'[new]]
                /\ screen' = FromRevision(new, office'[new], NoConflict)
                /\ seen' = seen \cup Values(office'[new].doc)
                /\ load' = NoLoad /\ pulls' = Orphaned
    BY <2>1, Zenon DEF NewRevision
  <2>3. r \in Revs /\ office \in [Revs -> Revisions] /\ office' \in [Revs -> Revisions]
    BY <2>2 DEF CloneInv, TypeOK, OfficeTyped
  <2>4. made = {} => new \notin Listed
    <3>1. PICK n \in 0..MaxRevs : Listed = 1..n
      BY DEF NamedInv, NamedOffice, Numbered
    <3>2. made = {} => new = n + 1
      BY <3>1, CountListed, MeasurementAssumption DEF Listed
    <3> HIDE DEF new, made
    <3> QED BY <3>1, <3>2
  <2>5. /\ \A q \in Revs : office'[q] = office[q] \/ office[q].tok < office'[q].tok
        /\ keys \subseteq keys' /\ \A k \in keys' \ keys : k.of # Create
    <3>1. CASE made # {}
      BY <2>2, <3>1 DEF server
    <3>2. CASE made = {}
      <4>1. office[new].tok \in Nat /\ ~(office[new].tok > 0)
        <5> HIDE DEF new, made
        <5> QED BY <2>2, <2>3, <2>4, <3>2 DEF Listed, ListedBy, Revisions
      <4>2. office' = [office EXCEPT ![new] = d] /\ keys' = keys \cup {key}
        BY <2>2, <3>2
      <4>3. d.tok = 1 /\ key.of = r
        OBVIOUS
      <4> HIDE DEF d, key, new, made
      <4> QED BY <2>2, <2>3, <4>1, <4>2, <4>3, Ids DEF Create
    <3> QED BY <3>1, <3>2
  <2> HIDE DEF made, new, key, d
  <2>6. Forward
    BY <2>2, <2>5 DEF Forward
  <2>7. RowsSeen' /\ ConvertSeen'
    BY <1>1, <2>5, <2>6, RowsFrameSeen, ConvertKept
  <2>8. LoadSeen'
    BY <2>2, <2>6, NoLoadTyped, CopiesKept
  <2>9. Known(office', seen', new, office'[new]) /\ office'[new] \in Revisions
    <3>1. office'[new] \in Revisions /\ office'[new].tok \in Nat
      BY <2>2, <2>3 DEF Revisions
    <3> QED BY <3>1 DEF Known, SeenDoc
  <2>10. ScreenSeen'
    <3>1. CASE lost
      <4>1. /\ screen'.step = "idle" /\ screen'.of = screen.of /\ r \in RevIds
            /\ screen'.form = screen.form /\ screen'.from = screen.from
            /\ screen'.conflict = screen.conflict /\ screen.of.tok \in Nat
            /\ screen.conflict.srv \in Revisions
        BY <1>2, <2>2, <3>1 DEF Screens, Bases, Conflicts
      <4>2. /\ SeenDoc(seen', screen.form) /\ SeenDoc(seen', screen.from)
            /\ SeenTok(office', seen', r, screen.of.tok)
            /\ screen.conflict.on => r # 0 /\ Known(office', seen', r, screen.conflict.srv)
        <5>1. /\ \A doc : SeenDoc(seen, doc) => SeenDoc(seen', doc)
              /\ \A q \in RevIds, k \in Nat : SeenTok(office, seen, q, k) => SeenTok(office', seen', q, k)
              /\ \A q \in RevIds, c \in Revisions : Known(office, seen, q, c) => Known(office', seen', q, c)
          BY <2>3, <2>6, SeenKept DEF Forward
        <5> QED BY <4>1, <5>1 DEF SeenInv, ScreenSeen
      <4> QED BY <4>1, <4>2 DEF ScreenSeen
    <3>2. CASE ~lost
      <4>1. screen' = FromRevision(new, office'[new], NoConflict)
            /\ Values(office'[new].doc) \subseteq seen' /\ ~NoConflict.on
        BY <2>2, <3>2 DEF NoConflict
      <4> QED BY <2>2, <2>9, <4>1, NoConflictTyped, FromRevisionSeen
    <3> QED BY <3>1, <3>2
  <2>11. CacheSeen'
    <3>1. \A q \in Revs : Known(office', seen', q, detail'[q])
      BY <2>2, <2>6, <2>9, CopiesKept DEF TypeOK, DeviceTyped
    <3>2. \A p \in pulls' : Known(office', seen', p.rev, p.srv)
      BY <2>2, <2>6, CopiesKept, OrphanedKnown
    <3> QED BY <1>1, <2>6, <3>1, <3>2, CopiesKept DEF CacheSeen
  <2> QED BY <1>1, <2>7, <2>8, <2>10, <2>11 DEF SeenInv, OfficeEditsSeen
<1> QED BY <1>3, <1>4

LEMMA PassSeen ==
    ASSUME TypeOK, TypeOK', NamedInv, SeenInv, PassStart \/ PassWriteback \/ PassEnd
    PROVE  SeenInv'
<1>1. UNCHANGED <<office, keys, draft, working, detail, screen, load, pulls, rec, seen, clobbered>>
  BY DEF PassStart, PassWriteback, PassEnd, server, device, history
<1>2. Forward
  BY <1>1 DEF Forward
<1>3. ScreenSeen' /\ LoadSeen'
  BY <1>1, <1>2, CopiesKept
<1>4. CacheSeen'
  BY <1>1, <1>2, CopiesKept DEF CacheSeen
<1>5. \A r \in RowIds : /\ RowSeen(office', seen', r, rows[r])
                        /\ RowSeen(office', seen', r, pass.items[r])
                        /\ RowSeen(office', seen', r, rec'.rows[r])
  BY <1>1, <1>2, CopiesKept
<1>6. CASE PassStart
  <2> DEFINE items == [r \in RowIds |-> IF Active(rows[r]) THEN rows[r] ELSE NoRow]
             todo == {r \in RowIds : rows[r].state \in {"pending", "failed"}}
  <2>1. UNCHANGED rows /\ pass' = [NoPass EXCEPT !.phase = "send", !.todo = todo, !.items = items]
    BY <1>6 DEF PassStart, device
  <2> HIDE DEF items, todo
  <2>2. pass'.items = items /\ pass'.sup = {} /\ pass'.todo = todo
    BY <2>1 DEF NoPass
  <2>3. \A r \in RowIds : items[r] = IF Active(rows[r]) THEN rows[r] ELSE NoRow
    BY DEF items
  <2>4. \A r \in RowIds : RowSeen(office', seen', r, items[r])
    BY <1>5, <2>3, NoRowSeen
  <2>5. RowsSeen'
    BY <1>5, <2>1, <2>2, <2>4 DEF RowsSeen
  <2>6. ConvertSeen'
    <3>1. items[Create].state # "synced"
      BY <2>3, Ids DEF Active, NoRow
    <3>2. Create \in todo => items[Create] = rows[Create]
      BY <2>3, Ids DEF Active, todo
    <3>3. Create \in todo => rows'[Create].gen = pass'.items[Create].gen
      BY <2>1, <2>2, <3>2
    <3>4. pass'.items[Create].state # "synced"
      BY <2>2, <3>1
    <3> QED BY <2>2, <3>3, <3>4 DEF ConvertSeen, Resaved
  <2> QED BY <1>1, <1>3, <1>4, <2>5, <2>6 DEF SeenInv, OfficeEditsSeen
<1>7. CASE PassWriteback
  <2> DEFINE m == pass.items[Create]
             acks == {r \in RowIds : pass.items[r].state = "synced"}
             sup == {r \in acks : SameRow(rows'[r], pass.items[r])
                                  /\ rows'[r].gen # pass.items[r].gen}
  <2>1. /\ pass.phase = "send"
        /\ \A r \in RowIds : rows'[r] = rows[r] \/ rows'[r] = pass.items[r]
        /\ pass' = [pass EXCEPT !.phase = "ack", !.acks = acks, !.sup = sup]
    BY <1>7 DEF PassWriteback
  <2> HIDE DEF acks
  <2>2. pass'.items = pass.items /\ pass'.phase = "ack" /\ pass'.sup = sup
    BY <2>1 DEF TypeOK, WorkTyped, Passes
  <2>3. RowsSeen'
    BY <1>5, <2>1, <2>2 DEF RowsSeen
  <2>4. Create \in sup => Resaved(m)
    BY <2>1, Ids DEF Resaved
  <2>5. Fresh(m)' = Fresh(m)
    BY <1>1, <2>2 DEF Fresh
  <2>6. ConvertSeen'
    BY <1>1, <2>1, <2>2, <2>4, <2>5 DEF SeenInv, ConvertSeen
  <2> QED BY <1>1, <1>3, <1>4, <2>3, <2>6 DEF SeenInv, OfficeEditsSeen
<1>8. CASE PassEnd
  <2>1. UNCHANGED rows /\ pass' = NoPass
    BY <1>8 DEF PassEnd, device
  <2>2. \A r \in RowIds : RowSeen(office', seen', r, NoPass.items[r])
    BY NoPassTyped DEF RowSeen
  <2>3. RowsSeen'
    BY <1>5, <2>1, <2>2 DEF RowsSeen
  <2>4. NoPass.items[Create].state = "none" /\ NoPass.sup = {} /\ NoPass.phase = "idle"
    BY NoPassTyped, Ids DEF NoPass
  <2>5. ConvertSeen'
    BY <2>1, <2>4 DEF ConvertSeen
  <2> QED BY <1>1, <1>3, <1>4, <2>3, <2>5 DEF SeenInv, OfficeEditsSeen
<1> QED BY <1>6, <1>7, <1>8

(* What Office makes of a row the rep made in view of its revision, and its answer. *)
AnswerSeen(a, m, r) ==
    /\ \A q \in Revs : a.office[q] = office[q] \/ office[q].tok < a.office[q].tok
    /\ a.row.body = m.body /\ a.row.tok = m.tok /\ a.row.gen = m.gen /\ a.row.key = m.key
    /\ RowSeen(a.office, seen, r, a.row)
    /\ a.row.state = "synced" /\ r # Create => SeenDoc(seen, office[r].doc)
    /\ r # Create => a.keys = keys
    /\ a.row.state = "synced" /\ r = Create =>
          /\ a.keys # {}
          /\ ~ (\E k \in keys : k.of = Create /\ k.key = m.key)
                => SeenTok(a.office, seen, a.row.rev, a.row.srv.tok)

LEMMA RefusedSeen ==
    ASSUME TypeOK, NEW r \in RowIds, NEW m \in Rows, m.state # "none",
           RowSeen(office, seen, r, m), NEW srv \in Revisions, Known(office, seen, r, srv)
    PROVE  AnswerSeen(Refused(m, srv), m, r)
<1> DEFINE row == [m EXCEPT !.state = "conflict", !.srv = srv]
<1>1. /\ row.state = "conflict" /\ row.srv = srv
      /\ row.body = m.body /\ row.tok = m.tok /\ row.gen = m.gen /\ row.key = m.key
  BY DEF Rows
<1>2. /\ Refused(m, srv).office = office /\ Refused(m, srv).keys = keys
      /\ Refused(m, srv).row = row
  BY DEF Refused
<1> HIDE DEF row
<1>3. RowSeen(office, seen, r, row)
  BY <1>1 DEF RowSeen
<1> QED BY <1>1, <1>2, <1>3 DEF AnswerSeen

LEMMA DoneFields ==
    ASSUME NEW m \in Rows, NEW revs \in [Revs -> Revisions], NEW ks, NEW r \in Revs
    PROVE  LET a == Done(m, revs, ks, r)
           IN  /\ a.office = revs /\ a.keys = ks /\ a.row.state = "synced" /\ a.row.rev = r
               /\ a.row.srv = revs[r] /\ a.row.body = m.body /\ a.row.tok = m.tok
               /\ a.row.gen = m.gen /\ a.row.key = m.key
<1> DEFINE srv == revs[r]
           row == [m EXCEPT !.state = "synced", !.srv = srv, !.rev = r]
<1> HIDE DEF srv
<1>1. /\ row.state = "synced" /\ row.rev = r /\ row.srv = srv /\ row.body = m.body
      /\ row.tok = m.tok /\ row.gen = m.gen /\ row.key = m.key
  BY DEF Rows
<1>2. /\ Done(m, revs, ks, r).row = row /\ Done(m, revs, ks, r).office = revs
      /\ Done(m, revs, ks, r).keys = ks
  BY DEF Done, srv
<1> HIDE DEF row
<1> QED BY <1>1, <1>2 DEF srv

LEMMA UpdateSeen ==
    ASSUME TypeOK, NEW r \in Revs, NEW m \in Rows, m.state # "none", Named(r),
           RowSeen(office, seen, r, m)
    PROVE  AnswerSeen(HandleUpdate(m, r), m, r)
<1>1. /\ office[r] \in Revisions /\ NoRev \in Revisions /\ office[r].tok \in Nat /\ r # 0
      /\ r \in RowIds /\ r \in RevIds /\ r # Create /\ m.tok \in Nat /\ m.body \in Docs
      /\ office \in [Revs -> Revisions]
  BY NoRevTyped, Ids DEF TypeOK, OfficeTyped, Revisions, Rows, Create
<1>2. Known(office, seen, r, office[r]) /\ Known(office, seen, r, NoRev)
  BY <1>1, OfficeKnown, NoRevKnown DEF TypeOK
<1>3. CASE TokenConflict(r, m.tok)
  <2>1. HandleUpdate(m, r) = Refused(m, office[r])
    BY <1>3 DEF HandleUpdate
  <2> QED BY <1>1, <1>2, <2>1, RefusedSeen
<1>4. CASE ~TokenConflict(r, m.tok) /\ ~office[r].ed
  <2>1. HandleUpdate(m, r) = Refused(m, NoRev)
    BY <1>4 DEF HandleUpdate
  <2> QED BY <1>1, <1>2, <2>1, RefusedSeen
<1>5. CASE ~TokenConflict(r, m.tok) /\ office[r].ed
  <2> DEFINE next == [office EXCEPT ![r].doc = m.body, ![r].tok = @ + 1]
             a == HandleUpdate(m, r)
  <2>1. /\ next \in [Revs -> Revisions]
        /\ \A q \in Revs : q # r => next[q] = office[q]
        /\ next[r].tok = office[r].tok + 1 /\ next[r].doc = m.body
    <3>1. next = [office EXCEPT ![r] = [office[r] EXCEPT !.doc = m.body, !.tok = office[r].tok + 1]]
      BY <1>1 DEF Revisions
    <3>2. /\ [office[r] EXCEPT !.doc = m.body, !.tok = office[r].tok + 1].tok = office[r].tok + 1
          /\ [office[r] EXCEPT !.doc = m.body, !.tok = office[r].tok + 1].doc = m.body
      BY <1>1 DEF Revisions
    <3>3. office[r].tok + 1 \in Nat
      BY <1>1
    <3>4. ASSUME NEW t \in Nat  PROVE [office[r] EXCEPT !.doc = m.body, !.tok = t] \in Revisions
      BY <1>1 DEF Revisions
    <3>5. [office[r] EXCEPT !.doc = m.body, !.tok = office[r].tok + 1] \in Revisions
      BY <3>3, <3>4
    <3> HIDE DEF next
    <3> QED BY <1>1, <3>1, <3>2, <3>5
  <2> HIDE DEF next
  <2>2. a = Done(m, next, keys, r)
    BY <1>5 DEF HandleUpdate, next
  <2>3. /\ a.office = next /\ a.keys = keys /\ a.row.state = "synced" /\ a.row.rev = r
        /\ a.row.srv = next[r] /\ a.row.body = m.body /\ a.row.tok = m.tok
        /\ a.row.gen = m.gen /\ a.row.key = m.key
    BY <2>1, <2>2, DoneFields
  <2> HIDE DEF a
  <2>4. m.tok = office[r].tok
    BY <1>5 DEF TokenConflict
  <2>5. SeenDoc(seen, m.body) /\ SeenDoc(seen, office[r].doc)
    BY <1>1, <2>4 DEF RowSeen, SeenTok
  <2>6. SeenTok(next, seen, r, m.tok) /\ SeenTok(next, seen, r, next[r].tok)
    BY <1>1, <2>1, <2>4, <2>5 DEF SeenTok
  <2>7. Known(next, seen, r, next[r])
    BY <1>1, <2>1, <2>6, SeenIsKnown
  <2>8. RowSeen(next, seen, r, a.row)
    BY <2>3, <2>5, <2>6, <2>7 DEF RowSeen
  <2>9. \A q \in Revs : next[q] = office[q] \/ office[q].tok < next[q].tok
    BY <1>1, <2>1
  <2>10. AnswerSeen(a, m, r)
    BY <1>1, <2>3, <2>5, <2>8, <2>9 DEF AnswerSeen
  <2> QED BY <2>10 DEF a
<1> QED BY <1>3, <1>4, <1>5

LEMMA CreateSeen ==
    ASSUME TypeOK, NamedInv, NEW m \in Rows, m.state # "none",
           RowSeen(office, seen, Create, m), CreateFits(m)
    PROVE  AnswerSeen(HandleCreate(m), m, Create)
<1> DEFINE made == {k \in keys : k.of = Create /\ k.key = m.key}
           new == Cardinality(ListedBy(office)) + 1
           key == [of |-> Create, key |-> m.key, rev |-> new, body |-> m.body]
           d == [tok |-> 1, doc |-> m.body, ed |-> TRUE]
           a == HandleCreate(m)
<1>1. office \in [Revs -> Revisions] /\ NoRev \in Revisions /\ m.body \in Docs /\ Create \in RowIds
  BY NoRevTyped, Ids DEF TypeOK, OfficeTyped, Rows
<1>2. SeenDoc(seen, m.body) /\ \A o, t : SeenTok(o, seen, Create, t)
  BY DEF RowSeen, SeenTok, Create
<1>3. \A o, q : Known(o, seen, Create, q)
  BY DEF Known, Create
<1>4. CASE \E k \in made : k.body = m.body
  <2> DEFINE q == (CHOOSE k \in made : TRUE).rev
  <2>1. (CHOOSE k \in made : TRUE) \in keys
    BY <1>4
  <2>2. q \in Revs
    BY <2>1 DEF TypeOK, OfficeTyped, Keys
  <2>3. a = Done(m, office, keys, q)
    BY <1>4 DEF HandleCreate
  <2>4. keys # {} /\ \E k \in keys : k.of = Create /\ k.key = m.key
    BY <1>4
  <2> HIDE DEF q, made
  <2>5. /\ a.office = office /\ a.keys = keys /\ a.row.state = "synced" /\ a.row.rev = q
        /\ a.row.srv = office[q] /\ a.row.body = m.body /\ a.row.tok = m.tok
        /\ a.row.gen = m.gen /\ a.row.key = m.key
    BY <1>1, <2>2, <2>3, DoneFields
  <2> HIDE DEF a
  <2>6. Known(office, seen, q, office[q])
    BY <2>2, Ids, OfficeKnown DEF TypeOK, RevIds
  <2>7. RowSeen(office, seen, Create, a.row)
    BY <1>2, <2>5, <2>6 DEF RowSeen, Create
  <2>8. AnswerSeen(a, m, Create)
    BY <2>4, <2>5, <2>7 DEF AnswerSeen
  <2> QED BY <2>8 DEF a
<1>5. CASE ~(\E k \in made : k.body = m.body) /\ made # {}
  <2>1. a = Refused(m, NoRev)
    BY <1>5 DEF HandleCreate
  <2> QED BY <1>1, <1>3, <2>1, RefusedSeen
<1>6. CASE made = {}
  <2> DEFINE next == [office EXCEPT ![new] = d]
             ks == keys \cup {key}
  <2>1. PICK n \in 0..MaxRevs : Listed = 1..n
    BY DEF NamedInv, NamedOffice, Numbered
  <2>2. new = n + 1
    BY <2>1, CountListed, MeasurementAssumption DEF Listed
  <2>3. new \in Revs /\ new \notin Listed
    <3>1. Cardinality(ListedBy(office)) < MaxRevs
      BY <1>6 DEF CreateFits
    <3>2. n < MaxRevs /\ n \in Nat
      BY <2>2, <3>1, <2>1, CountListed, MeasurementAssumption DEF Listed
    <3> HIDE DEF new
    <3> QED BY <2>1, <2>2, <3>2, MeasurementAssumption DEF Revs
  <2>4. a = Done(m, next, ks, new)
    BY <1>6 DEF HandleCreate
  <2>5. d \in Revisions /\ d.tok = 1 /\ d.doc = m.body
    BY <1>1 DEF Revisions
  <2>6. office[new].tok \in Nat /\ ~(office[new].tok > 0)
    <3> HIDE DEF new
    <3> QED BY <1>1, <2>3 DEF Listed, ListedBy, Revisions
  <2> HIDE DEF d, made, new, key, a
  <2>7. next \in [Revs -> Revisions] /\ next[new] = d
        /\ \A q \in Revs : q # new => next[q] = office[q]
    BY <1>1, <2>3, <2>5
  <2> HIDE DEF next
  <2>8. /\ a.office = next /\ a.keys = ks /\ a.row.state = "synced" /\ a.row.rev = new
        /\ a.row.srv = d /\ a.row.body = m.body /\ a.row.tok = m.tok
        /\ a.row.gen = m.gen /\ a.row.key = m.key
    BY <2>3, <2>4, <2>7, DoneFields
  <2>9. SeenTok(next, seen, new, d.tok)
    BY <1>2, <2>5, <2>7 DEF SeenTok
  <2>10. Known(next, seen, new, d)
    BY <2>9, SeenIsKnown
  <2>11. RowSeen(next, seen, Create, a.row)
    BY <1>2, <2>8, <2>10 DEF RowSeen, Create
  <2>12. \A q \in Revs : next[q] = office[q] \/ office[q].tok < next[q].tok
    BY <2>5, <2>6, <2>7
  <2>13. AnswerSeen(a, m, Create)
    BY <2>8, <2>9, <2>11, <2>12 DEF AnswerSeen
  <2> QED BY <2>13 DEF a
<1> QED BY <1>4, <1>5, <1>6

LEMMA PassSendSeen ==
    ASSUME TypeOK, TypeOK', NamedInv, SeenInv, NEW r \in RowIds, PassSend(r)
    PROVE  SeenInv'
<1> DEFINE m == pass.items[r]
           a == Handle(m, r)
<1>1. /\ r \in pass.todo /\ pass.phase = "send" /\ m \in Rows /\ pass.items \in [RowIds -> Rows]
      /\ UNCHANGED <<rows, draft, working, detail, screen, load, pulls, rec, seen>>
      /\ pass \in Passes
  BY DEF PassSend, TypeOK, WorkTyped, Passes, device
<1>2. m.state # "none" /\ Named(r) /\ RowSeen(office, seen, r, m)
  <2>1. m.state # "none"
    BY <1>1 DEF NamedInv, NamedRows
  <2> QED BY <1>1, <2>1 DEF NamedInv, NamedRows, RowNamed, SeenInv, RowsSeen
<1>3. Answered(r, m) => AnswerSeen(a, m, r)
  <2>1. CASE r = Create
    <3>1. Answered(r, m) => CreateFits(m)
      BY <2>1 DEF Answered
    <3>2. a = HandleCreate(m)
      BY <2>1 DEF Handle
    <3> QED BY <1>1, <1>2, <2>1, <3>1, <3>2, CreateSeen
  <2>2. CASE r # Create
    <3>1. r \in Revs /\ a = HandleUpdate(m, r)
      BY <2>2 DEF Handle, RowIds
    <3> QED BY <1>1, <1>2, <3>1, UpdateSeen
  <2> QED BY <2>1, <2>2
<1>4. Answered(r, m) => /\ office' = a.office /\ keys' = a.keys
                        /\ r # Create /\ a.row.state = "synced" =>
                             clobbered' = clobbered \cup {v \in Values(office[r].doc) :
                                             v < 0 /\ v \notin Values(m.body) /\ v \notin seen}
                        /\ ~(r # Create /\ a.row.state = "synced") => clobbered' = clobbered
  BY DEF Answered
<1> HIDE DEF a
<1>5. Answered(r, m) => clobbered' = clobbered
  <2>1. CASE Answered(r, m) /\ r # Create /\ a.row.state = "synced"
    <3>1. SeenDoc(seen, office[r].doc)
      BY <1>3, <2>1 DEF AnswerSeen
    <3>2. {v \in Values(office[r].doc) : v < 0 /\ v \notin Values(m.body) /\ v \notin seen} = {}
      BY <3>1 DEF SeenDoc
    <3> QED BY <1>4, <2>1, <3>2
  <2> QED BY <1>4, <2>1
<1>6. \E row :
         /\ pass' = [pass EXCEPT !.todo = @ \ {r}, !.items = [@ EXCEPT ![r] = row]]
         /\ row.body = m.body /\ row.tok = m.tok /\ row.gen = m.gen /\ row.key = m.key
         /\ \/ UNCHANGED <<office, keys, clobbered>> /\ row.state = "failed"
            \/ /\ Answered(r, m)
               /\ row = a.row \/ row.state = "pending"
  <2>1. CASE /\ Answered(r, m)
             /\ pass' = [pass EXCEPT !.todo = @ \ {r}, !.items[r] = Handle(@, r).row]
    <3>1. pass' = [pass EXCEPT !.todo = @ \ {r}, !.items = [@ EXCEPT ![r] = a.row]]
      BY <2>1 DEF a
    <3> QED BY <1>3, <2>1, <3>1 DEF AnswerSeen
  <2>2. CASE /\ Answered(r, m)
             /\ pass' = [pass EXCEPT !.todo = @ \ {r}, !.items[r].state = "pending"]
    <3> DEFINE row == [m EXCEPT !.state = "pending"]
    <3>1. pass' = [pass EXCEPT !.todo = @ \ {r}, !.items = [@ EXCEPT ![r] = row]]
      BY <2>2
    <3>2. /\ row.state = "pending"
          /\ row.body = m.body /\ row.tok = m.tok /\ row.gen = m.gen /\ row.key = m.key
      BY <1>1 DEF Rows
    <3> HIDE DEF row
    <3> QED BY <2>2, <3>1, <3>2
  <2>3. CASE /\ pass' = [pass EXCEPT !.todo = @ \ {r}, !.items[r].state = "failed"]
             /\ UNCHANGED <<office, keys, clobbered>>
    <3> DEFINE row == [m EXCEPT !.state = "failed"]
    <3>1. pass' = [pass EXCEPT !.todo = @ \ {r}, !.items = [@ EXCEPT ![r] = row]]
      BY <2>3
    <3>2. /\ row.state = "failed"
          /\ row.body = m.body /\ row.tok = m.tok /\ row.gen = m.gen /\ row.key = m.key
      BY <1>1 DEF Rows
    <3> HIDE DEF row
    <3> QED BY <2>3, <3>1, <3>2
  <2> QED BY <2>1, <2>2, <2>3 DEF PassSend, server
<1>7. PICK row :
         /\ pass' = [pass EXCEPT !.todo = @ \ {r}, !.items = [@ EXCEPT ![r] = row]]
         /\ row.body = m.body /\ row.tok = m.tok /\ row.gen = m.gen /\ row.key = m.key
         /\ \/ UNCHANGED <<office, keys, clobbered>> /\ row.state = "failed"
            \/ /\ Answered(r, m)
               /\ row = a.row \/ row.state = "pending"
  BY <1>6
<1>8. /\ pass'.todo = pass.todo \ {r} /\ pass'.phase = "send" /\ pass'.sup = pass.sup
      /\ pass'.items[r] = row /\ \A q \in RowIds : q # r => pass'.items[q] = pass.items[q]
  BY <1>1, <1>7 DEF Passes
<1>9. Forward /\ clobbered' = clobbered
  <2>1. \A q \in Revs : office'[q] = office[q] \/ office[q].tok < office'[q].tok
    BY <1>3, <1>4, <1>7 DEF AnswerSeen
  <2> QED BY <1>1, <1>5, <1>7, <2>1 DEF Forward
<1>10. ScreenSeen' /\ LoadSeen' /\ CacheSeen'
  <2>1. CacheSeen'
    BY <1>1, <1>9, CopiesKept DEF CacheSeen
  <2> QED BY <1>1, <1>9, <2>1, CopiesKept
<1>11. RowSeen(office', seen', r, row)
  <2>1. CASE row.state \in {"pending", "failed"}
    <3>1. RowSeen(office', seen', r, m)
      BY <1>9, CopiesKept
    <3> QED BY <1>2, <1>7, <2>1, <3>1 DEF RowSeen
  <2>2. CASE Answered(r, m) /\ row = a.row
    BY <1>1, <1>3, <1>4, <2>2 DEF AnswerSeen
  <2> QED BY <1>7, <2>1, <2>2
<1>12. RowsSeen'
  <2>1. \A q \in RowIds : /\ RowSeen(office', seen', q, rows[q])
                          /\ RowSeen(office', seen', q, pass.items[q])
                          /\ RowSeen(office', seen', q, rec.rows[q])
    BY <1>9, CopiesKept
  <2>2. \A q \in RowIds : RowSeen(office', seen', q, pass'.items[q])
    BY <1>8, <1>11, <2>1
  <2> QED BY <1>1, <2>1, <2>2 DEF RowsSeen
<1>13. ConvertSeen'
  <2>1. pass'.sup = {}
    BY <1>1, <1>8 DEF SeenInv, ConvertSeen
  <2>2. CASE r # Create
    <3> DEFINE c == pass.items[Create]
    <3>1. pass'.items[Create] = c
      BY <1>8, <2>2, Ids
    <3>2. keys' = keys
      BY <1>3, <1>4, <1>7, <2>2 DEF AnswerSeen
    <3>3. Fresh(c) => SeenTok(office', seen', c.rev, c.srv.tok)
      <4>1. c.rev \in RevIds /\ c.srv.tok \in Nat
        BY Ids DEF TypeOK, WorkTyped, Passes, Rows, Revisions
      <4>2. office \in [Revs -> Revisions] /\ office' \in [Revs -> Revisions]
        BY DEF TypeOK, OfficeTyped
      <4>3. \A q \in RevIds, k \in Nat : SeenTok(office, seen, q, k) => SeenTok(office', seen', q, k)
        BY <1>9, <4>2, SeenKept DEF Forward
      <4> QED BY <4>1, <4>3 DEF Fresh
    <3>4. pass'.todo \subseteq pass.todo
      BY <1>8
    <3> HIDE DEF c
    <3>5. /\ Resaved(c) /\ Create \in pass.todo => ~ \E k \in keys : k.of = Create /\ k.key = c.key
          /\ Resaved(c) /\ c.state = "synced" => Fresh(c)
          /\ c.state = "synced" => keys # {}
      BY <1>1 DEF SeenInv, ConvertSeen, c
    <3> QED BY <1>1, <1>8, <2>1, <3>1, <3>2, <3>3, <3>4, <3>5 DEF ConvertSeen, Fresh, Resaved, SameRow
  <2>3. CASE r = Create
    <3>1. Create \notin pass'.todo /\ pass'.items[Create] = row
      BY <1>8, <2>3
    <3>2. ASSUME row.state = "synced"  PROVE Answered(r, m) /\ row = a.row /\ keys' # {}
      BY <1>3, <1>4, <1>7, <2>3, <3>2 DEF AnswerSeen
    <3>3. ASSUME row.state = "synced", SameRow(rows[Create], row), rows[Create].gen # row.gen
          PROVE  SeenTok(office', seen', row.rev, row.srv.tok)
      <4>1. Resaved(m)
        BY <1>7, <2>3, <3>3 DEF Resaved, SameRow
      <4>2. ~ \E k \in keys : k.of = Create /\ k.key = m.key
        BY <1>1, <2>3, <4>1 DEF SeenInv, ConvertSeen
      <4> QED BY <1>1, <1>3, <1>4, <2>3, <3>2, <3>3, <4>2 DEF AnswerSeen
    <3> QED BY <1>1, <1>8, <2>1, <3>1, <3>2, <3>3 DEF ConvertSeen, Fresh, Resaved
  <2> QED BY <2>2, <2>3
<1> QED BY <1>9, <1>10, <1>12, <1>13 DEF SeenInv, OfficeEditsSeen

LEMMA AckSeen ==
    ASSUME TypeOK, TypeOK', NamedInv, SeenInv, NEW r \in RowIds, AckDetail(r) \/ AckDrafts(r)
    PROVE  SeenInv'
<1> DEFINE m == pass.items[r]
<1>1. /\ UNCHANGED <<office, keys, screen, load, pulls, rec, seen, clobbered>>
      /\ pass.phase = "ack" /\ pass \in Passes
  BY DEF AckDetail, AckDrafts, server, history, TypeOK, WorkTyped
<1>2. Forward /\ ScreenSeen' /\ LoadSeen'
  <2>1. Forward
    BY <1>1 DEF Forward
  <2> QED BY <1>1, <2>1, CopiesKept
<1>3. /\ pass'.items = pass.items /\ pass'.phase = "ack" /\ pass'.sup = pass.sup
      /\ pass'.todo = pass.todo
  BY <1>1 DEF AckDetail, AckDrafts, Passes
<1>4. ConvertSeen'
  <2>1. Fresh(pass.items[Create])' = Fresh(pass.items[Create])
    BY <1>1, <1>3 DEF Fresh
  <2> QED BY <1>1, <1>3, <2>1 DEF SeenInv, ConvertSeen
<1>5. \A q \in RowIds : /\ RowSeen(office', seen', q, rows[q])
                        /\ RowSeen(office', seen', q, pass'.items[q])
                        /\ RowSeen(office', seen', q, rec'.rows[q])
  BY <1>1, <1>2, <1>3, CopiesKept
<1>6. /\ m.state = "synced" /\ RowSeen(office, seen, r, m) /\ m \in Rows
      /\ m.rev \in Revs /\ m.srv \in Revisions
  BY AckTypes DEF AckDetail, AckDrafts, NamedInv, NamedRows, SeenInv, RowsSeen,
                  TypeOK, WorkTyped, Passes, Rows
<1>7. CASE AckDetail(r)
  <2>1. UNCHANGED <<rows, draft, working>> /\ detail' = [detail EXCEPT ![m.rev] = m.srv]
    BY <1>7 DEF AckDetail
  <2>2. Known(office', seen', m.rev, m.srv)
    BY <1>1, <1>6 DEF RowSeen
  <2>3. \A q \in Revs : Known(office', seen', q, detail'[q])
    BY <1>2, <2>1, <2>2, CopiesKept DEF TypeOK, DeviceTyped
  <2>4. CacheSeen'
    BY <1>1, <1>2, <2>1, <2>3, CopiesKept DEF CacheSeen
  <2>5. RowsSeen'
    BY <1>5, <2>1 DEF RowsSeen
  <2> QED BY <1>1, <1>2, <1>4, <2>4, <2>5 DEF SeenInv, OfficeEditsSeen
<1>8. CASE AckDrafts(r)
  <2>1. draft' \in {draft, NoDraft} /\ detail' = detail
    BY <1>8 DEF AckDrafts, RetireDraft
  <2>2. /\ \A q \in RowIds : rows'[q] = rows[q] \/ RowSeen(office', seen', q, rows'[q])
        /\ SeenDoc(seen', working'.doc) /\ SeenTok(office', seen', working'.of.rev, working'.of.tok)
    <3>1. /\ SeenDoc(seen', working.doc) /\ SeenTok(office', seen', working.of.rev, working.of.tok)
      BY <1>2, CopiesKept
    <3>2. /\ SeenDoc(seen', NoWorking.doc)
          /\ SeenTok(office', seen', NoWorking.of.rev, NoWorking.of.tok)
      BY BlankSeen DEF NoWorking, NoBase, SeenTok
    <3>3. CASE r \notin pass.sup
      <4>1. rows' = rows /\ working' \in {working, NoWorking}
        BY <1>8, <3>3 DEF AckDrafts, RetireWorking
      <4> QED BY <3>1, <3>2, <4>1
    <3>4. CASE r \in pass.sup /\ r # Create
      <4>1. rows' = [rows EXCEPT ![r] = RebaseRow(@, m.srv)] /\ working' = working
        BY <1>8, <3>4 DEF AckDrafts
      <4>2. SeenTok(office', seen', r, m.srv.tok)
        BY <1>1, <1>6, <3>4 DEF RowSeen, Create
      <4>3. RowSeen(office', seen', r, RebaseRow(rows[r], m.srv))
        <5>1. CASE rows[r].state = "pending"
          <6> DEFINE srv == m.srv
                     row == [rows[r] EXCEPT !.tok = srv.tok, !.base = srv.doc, !.baseTok = srv.tok]
          <6>1. RebaseRow(rows[r], m.srv) = row
            BY <5>1 DEF RebaseRow
          <6> HIDE DEF srv
          <6>2. row.state = "pending" /\ row.body = rows[r].body /\ row.tok = srv.tok
            BY <5>1 DEF TypeOK, DeviceTyped, Rows
          <6> HIDE DEF row
          <6>3. SeenDoc(seen', rows[r].body)
            BY <1>5, <5>1 DEF RowSeen
          <6> QED BY <4>2, <6>1, <6>2, <6>3 DEF RowSeen, srv
        <5>2. CASE rows[r].state # "pending"
          BY <1>5, <5>2 DEF RebaseRow
        <5> QED BY <5>1, <5>2
      <4>4. \A q \in RowIds : rows'[q] = rows[q] \/ RowSeen(office', seen', q, rows'[q])
        BY <4>1, <4>3 DEF TypeOK, DeviceTyped
      <4> QED BY <3>1, <4>1, <4>4
    <3>5. CASE r \in pass.sup /\ r = Create /\ rows[Create].state = "pending" /\ SameRow(rows[Create], m)
      <4> DEFINE row == ConvertedRow(m)
                 wd == RebasedWorking(m)
      <4>1. rows' = [rows EXCEPT ![m.rev] = row, ![Create] = NoRow] /\ working' = wd
        BY <1>8, <3>5 DEF AckDrafts, ConvertCreate
      <4>2. SeenTok(office', seen', m.rev, m.srv.tok)
        BY <1>1, <1>6, <3>5 DEF SeenInv, ConvertSeen, Fresh
      <4>3. row.state = "pending" /\ row.body = rows[Create].body /\ row.tok = m.srv.tok
        <5> DEFINE srv == m.srv
        <5>1. row = [rows[Create] EXCEPT !.key = 0, !.tok = srv.tok, !.base = srv.doc,
                                         !.baseTok = srv.tok, !.rev = m.rev]
          BY DEF ConvertedRow
        <5>2. rows[Create] \in Rows
          BY Ids DEF TypeOK, DeviceTyped
        <5> HIDE DEF srv
        <5>3. row.state = rows[Create].state /\ row.body = rows[Create].body /\ row.tok = srv.tok
          BY <5>1, <5>2 DEF Rows
        <5> QED BY <3>5, <5>3 DEF srv
      <4> HIDE DEF row
      <4>4. SeenDoc(seen', rows[Create].body)
        BY <1>5, <3>5, Ids DEF RowSeen
      <4>5. RowSeen(office', seen', m.rev, row)
        BY <4>2, <4>3, <4>4 DEF RowSeen
      <4>6. \A q \in RowIds : rows'[q] = rows[q] \/ RowSeen(office', seen', q, rows'[q])
        BY <4>1, <4>5, NoRowSeen DEF TypeOK, DeviceTyped
      <4>7. wd.doc = working.doc
        BY <1>6, RebasedWorkingTyped DEF TypeOK
      <4>8. wd = working \/ (wd.of.rev = m.rev /\ wd.of.tok = m.srv.tok)
        <5> DEFINE t == m.srv.tok
                   of == [NoBase EXCEPT !.rev = m.rev, !.tok = t, !.ed = FALSE]
        <5>1. wd = working \/ wd = [working EXCEPT !.of = of]
          BY DEF RebasedWorking
        <5>2. of.rev = m.rev /\ of.tok = t
          BY DEF NoBase
        <5> HIDE DEF of, t, wd
        <5>3. wd = working \/ wd.of = of
          BY <5>1 DEF TypeOK, DeviceTyped, Workings
        <5>4. wd = working \/ (wd.of.rev = m.rev /\ wd.of.tok = t)
          BY <5>2, <5>3
        <5> QED BY <5>4 DEF t
      <4> HIDE DEF wd
      <4> QED BY <3>1, <4>1, <4>2, <4>6, <4>7, <4>8
    <3>6. CASE r \in pass.sup /\ r = Create /\ ~(rows[Create].state = "pending" /\ SameRow(rows[Create], m))
      <4>1. rows' = rows /\ working' = working
        BY <1>8, <3>6 DEF AckDrafts, ConvertCreate
      <4> QED BY <3>1, <4>1
    <3> QED BY <3>3, <3>4, <3>5, <3>6
  <2>3. RowsSeen'
    BY <1>5, <2>2 DEF RowsSeen
  <2>4. SeenDoc(seen', draft'.body)
    BY <1>2, <2>1, BlankSeen, CopiesKept DEF NoDraft
  <2>5. CacheSeen'
    BY <1>1, <1>2, <2>1, <2>2, <2>4, CopiesKept DEF CacheSeen
  <2> QED BY <1>1, <1>2, <1>4, <2>3, <2>5 DEF SeenInv, OfficeEditsSeen
<1> QED BY <1>7, <1>8

LEMMA RecoverSeen ==
    ASSUME TypeOK, TypeOK', NamedInv, SeenInv,
           Crash \/ RecoverEnd \/ \E r \in RowIds : RecoverSettle(r) \/ RecoverRemove(r)
    PROVE  SeenInv'
<1>1. UNCHANGED <<office, keys, seen, clobbered>>
  BY DEF Crash, RecoverEnd, RecoverSettle, RecoverRemove, server, history
<1>2. Forward
  BY <1>1 DEF Forward
<1>3. \A r \in RowIds : /\ RowSeen(office', seen', r, rows[r])
                        /\ RowSeen(office', seen', r, pass.items[r])
                        /\ RowSeen(office', seen', r, rec.rows[r])
  BY <1>2, CopiesKept
<1>4. CASE Crash
  <2>1. /\ UNCHANGED <<rows, draft, working, detail>> /\ screen' = NoScreen /\ load' = NoLoad
        /\ pulls' = {} /\ pass' = NoPass /\ rec'.rows = rows
    BY <1>4 DEF Crash, device, NoRec
  <2>2. ScreenSeen' /\ LoadSeen'
    BY <1>2, <2>1, NoLoadTyped, NoScreenSeen, CopiesKept
  <2>3. CacheSeen'
    BY <1>2, <2>1, CopiesKept DEF CacheSeen
  <2>4. \A r \in RowIds : RowSeen(office', seen', r, NoPass.items[r])
    BY NoPassTyped DEF RowSeen
  <2>5. RowsSeen'
    BY <1>3, <2>1, <2>4 DEF RowsSeen
  <2>6. NoPass.items[Create].state = "none" /\ NoPass.sup = {} /\ NoPass.phase = "idle"
    BY NoPassTyped, Ids DEF NoPass
  <2>7. ConvertSeen'
    BY <2>1, <2>6 DEF ConvertSeen
  <2> QED BY <1>1, <2>2, <2>3, <2>5, <2>7 DEF SeenInv, OfficeEditsSeen
<1>5. CASE RecoverEnd
  <2>1. /\ UNCHANGED <<rows, draft, detail, screen, load, pulls, pass>>
        /\ working' \in {working, NoWorking} /\ rec' = NoRec
    BY <1>5 DEF RecoverEnd
  <2>2. SeenDoc(seen', working'.doc) /\ SeenTok(office', seen', working'.of.rev, working'.of.tok)
    BY <1>2, <2>1, BlankSeen, CopiesKept DEF NoWorking, NoBase, SeenTok
  <2>3. CacheSeen'
    BY <1>2, <2>1, <2>2, CopiesKept DEF CacheSeen
  <2>4. \A r \in RowIds : RowSeen(office', seen', r, NoRec.rows[r])
    BY NoRecTyped DEF RowSeen
  <2>5. RowsSeen'
    BY <1>3, <2>1, <2>4 DEF RowsSeen
  <2>6. ConvertSeen'
    BY <1>1, <1>2, <2>1, ConvertKept
  <2> QED BY <1>1, <1>2, <2>1, <2>3, <2>5, <2>6, CopiesKept DEF SeenInv, OfficeEditsSeen
<1>6. CASE \E r \in RowIds : RecoverSettle(r)
  <2>1. PICK r \in RowIds : RecoverSettle(r)
    BY <1>6
  <2> DEFINE m == rec.rows[r]
  <2>2. /\ UNCHANGED <<rows, screen, load, pulls, pass>> /\ r \in rec.todo
        /\ detail' = [detail EXCEPT ![m.rev] = m.srv]
        /\ draft' \in {draft, NoDraft} /\ working' \in {working, NoWorking}
        /\ rec' = [rec EXCEPT !.half = @ \cup {r}]
    BY <2>1 DEF RecoverSettle, RetireDraft, RetireWorking
  <2>3. Known(office', seen', m.rev, m.srv) /\ m.state = "synced"
    BY <1>3, <2>2 DEF RowSeen, NamedInv, NamedRows
  <2>4. \A q \in Revs : Known(office', seen', q, detail'[q])
    BY <1>2, <2>2, <2>3, CopiesKept DEF TypeOK, DeviceTyped
  <2>5. /\ SeenDoc(seen', draft'.body) /\ SeenDoc(seen', working'.doc)
        /\ SeenTok(office', seen', working'.of.rev, working'.of.tok)
    BY <1>2, <2>2, BlankSeen, CopiesKept DEF NoDraft, NoWorking, NoBase, SeenTok
  <2>6. CacheSeen'
    BY <1>2, <2>2, <2>4, <2>5, CopiesKept DEF CacheSeen
  <2>7. rec'.rows = rec.rows
    BY <2>2 DEF TypeOK, WorkTyped, Recoveries
  <2>8. RowsSeen'
    BY <1>3, <2>2, <2>7 DEF RowsSeen
  <2>9. ConvertSeen'
    BY <1>1, <1>2, <2>2, ConvertKept
  <2> QED BY <1>1, <1>2, <2>2, <2>6, <2>8, <2>9, CopiesKept DEF SeenInv, OfficeEditsSeen
<1>7. CASE \E r \in RowIds : RecoverRemove(r)
  <2>1. PICK r \in RowIds : RecoverRemove(r)
    BY <1>7
  <2>2. /\ UNCHANGED <<draft, working, detail, screen, load, pulls, pass>>
        /\ rows' = [rows EXCEPT ![r] = IF SameRow(@, rec.rows[r]) THEN NoRow ELSE @]
        /\ rec'.rows = rec.rows
    BY <2>1 DEF RecoverRemove, TypeOK, WorkTyped, Recoveries
  <2>3. \A q \in RowIds : rows'[q] \in {rows[q], NoRow}
    BY <2>2 DEF TypeOK, DeviceTyped
  <2>4. RowsSeen'
    BY <1>3, <2>2, <2>3, NoRowSeen DEF RowsSeen
  <2>5. ConvertSeen'
    BY <1>1, <1>2, <2>2, <2>3, Ids, ConvertKept
  <2>6. CacheSeen'
    BY <1>2, <2>2, CopiesKept DEF CacheSeen
  <2> QED BY <1>1, <1>2, <2>2, <2>4, <2>5, <2>6, CopiesKept DEF SeenInv, OfficeEditsSeen
<1> QED BY <1>4, <1>5, <1>6, <1>7

LEMMA InitSeen == ASSUME Init, TypeOK PROVE SeenInv
<1>1. ScreenSeen
  BY BlankSeen DEF Init, NoScreen, NoBase, NoConflict, ScreenSeen, SeenTok
<1>2. LoadSeen
  BY NoLoadTyped DEF Init, LoadSeen
<1>3. CacheSeen
  <2>1. \A r \in Revs : Known(office, seen, r, NoRev)
    <3>1. \A r \in Revs : office[r].doc = Blank /\ office[r].tok \in Nat
      BY DEF Init, NoRev
    <3> QED BY <3>1, BlankSeen DEF Known, NoRev, SeenDoc
  <2> QED BY <2>1, BlankSeen DEF Init, CacheSeen, NoDraft, NoWorking, NoBase, SeenTok
<1>4. RowsSeen
  BY NoRowSeen, NoPassTyped, NoRecTyped DEF Init, RowsSeen, RowSeen
<1>5. ConvertSeen
  <2>1. NoPass.items[Create].state = "none" /\ NoPass.sup = {} /\ NoPass.phase = "idle"
    BY NoPassTyped, Ids DEF NoPass
  <2> QED BY <2>1 DEF Init, ConvertSeen
<1> QED BY <1>1, <1>2, <1>3, <1>4, <1>5 DEF Init, SeenInv, OfficeEditsSeen

LEMMA NextSeen ==
    ASSUME "replay" \notin Windows, IInv, IInv', SeenInv, [Next]_vars
    PROVE  SeenInv'
<1> USE DEF IInv
<1>1. CASE \E r \in Revs : OfficeTransition(r) \/ (\E g \in Groups : OfficeEdit(r, g))
  BY <1>1, OfficeSeen
<1>2. CASE \E online \in BOOLEAN : LoadBegin(online)
  BY <1>2, LoadBeginSeen
<1>3. CASE LoadEnd
  BY <1>3, LoadEndSeen
<1>4. CASE (\E r \in Revs : RefreshLead(r)) \/ (\E p \in pulls : PullEnd(p))
  BY <1>4, PullSeen
<1>5. CASE Open \/ Leave \/ Autosave \/ Revert \/ \E g \in Groups, empties \in BOOLEAN : Type(g, empties)
  BY <1>5, EditSeen
<1>6. CASE SaveBegin \/ SaveQueue \/ SaveClear
  BY <1>6, SaveSeen
<1>7. CASE KeepMineBegin \/ KeepMineWrite \/ UseOfficeBegin \/ UseOfficeCommit
             \/ UseOfficePreserved \/ RemoveLocal
  BY <1>7, ConflictSeen
<1>8. CASE NewRevisionKey \/ NewRevisionFails \/ (\E lost \in BOOLEAN : NewRevision(lost))
  BY <1>8, CloneSeen
<1>9. CASE PassStart \/ PassWriteback \/ PassEnd
  BY <1>9, PassSeen
<1>10. CASE \E r \in RowIds : PassSend(r)
  BY <1>10, PassSendSeen
<1>11. CASE \E r \in RowIds : AckDetail(r) \/ AckDrafts(r)
  BY <1>11, AckSeen
<1>12. CASE Crash \/ RecoverEnd \/ \E r \in RowIds : RecoverSettle(r) \/ RecoverRemove(r)
  BY <1>12, RecoverSeen
<1>13. CASE UNCHANGED vars
  BY <1>13 DEF vars, server, device, history, SeenInv, ScreenSeen, LoadSeen, CacheSeen, RowsSeen,
     ConvertSeen, Fresh, Resaved, OfficeEditsSeen
<1> QED BY <1>1, <1>2, <1>3, <1>4, <1>5, <1>6, <1>7, <1>8, <1>9, <1>10, <1>11, <1>12, <1>13 DEF Next

(* No Field save replaces an Office edit the rep has not had on the screen, through coalesced
   saves, lost answers, rebases, Keep-mine merges, conversions of a create and restarts, unless
   the rep taps Save while a create is being replayed. *)
THEOREM NoOfficeEditReplacedUnseen ==
    ASSUME "replay" \notin Windows  PROVE Spec => []OfficeEditsSeen
<1> DEFINE Inv == IInv /\ SeenInv
<1>1. Init => Inv
  BY InitInv, InitSeen DEF IInv
<1>2. Inv /\ [Next]_vars => Inv'
  <2>1. ASSUME Inv, [Next]_vars  PROVE Inv'
    <3>1. IInv'
      BY <2>1, NextInv
    <3>2. SeenInv'
      BY <2>1, <3>1, NextSeen
    <3> QED BY <3>1, <3>2
  <2> QED BY <2>1
<1>3. Inv => OfficeEditsSeen
  BY DEF SeenInv
<1> QED BY <1>1, <1>2, <1>3, PTL DEF Spec
-----------------------------------------------------------------------------
(* The newest save.  With no known window open, a row in the hands of a pass keeps its save
   unless its generation moves on, and what the start-up recovery removes is stored. *)
Sent == pass.items[Create]
Queued == screen.step = "queue" /\ screen.of.rev = 0

(* The create being acknowledged has been saved again since the pass read it. *)
Superseding ==
    \/ InFlight(Create) /\ SameRow(rows[Create], Sent) /\ rows[Create].gen # Sent.gen
    \/ pass.phase = "ack" /\ Create \in pass.acks \cap pass.sup

StoredSaves ==
    /\ 0 \in stored
    /\ \A r \in RowIds : /\ rows[r].state = "synced" => rows[r].save \in stored
                         /\ pass.items[r].state = "synced" => pass.items[r].save \in stored
    /\ \A r \in rec.todo : rows[r].save \in stored
    /\ rec.todo # {} => rec.on
    /\ rec.on => pass.phase = "idle"

(* The keys a create may still be queued under. *)
KeySources == {draft.key, working.of.key, screen.of.key, load.draft.key}
              \cup (IF Queued THEN {screen.held.key} ELSE {})
KeyBounds ==
    /\ rows[Create].state # "none" => rows[Create].key \in 1..budget.saves
    /\ Sent.state # "none" => Sent.key \in 1..budget.saves
    /\ KeySources \subseteq 0..budget.saves
    /\ Queued => screen.held.key # 0

(* What a pass has read is the row, or an older save of it; a create dropped meanwhile
   never comes back under its key. *)
SameSave(row, m) == m.gen =< row.gen /\ (m.gen = row.gen => m.save = row.save)
FlightSaves ==
    /\ \A r \in Revs : InFlight(r) => rows[r].state # "none" /\ SameSave(rows[r], pass.items[r])
    /\ InFlight(Create) => IF SameRow(rows[Create], Sent) THEN SameSave(rows[Create], Sent)
                           ELSE keys = {} => Sent.key \notin KeySources

(* The row Keep mine read is still the one it writes back. *)
KeptRow(r) ==
    \/ rows[r].state = "none" /\ r \notin rec.todo
    \/ screen.held.gen = rows[r].gen /\ screen.held.save = rows[r].save
HeldSave ==
    /\ screen.open \/ screen.step = "none"
    /\ screen.conflict.on \/ screen.step \in {"keep", "office", "clone"} => screen.of.rev # 0
    /\ screen.step = "keep" => KeptRow(screen.of.rev)

(* Before Office has made anything for the device, its create is never acknowledged ... *)
UnmadeCreate ==
    keys = {} => /\ rows[Create].state # "synced" /\ Sent.state # "synced" /\ Create \notin rec.todo
                 /\ Queued => draft.has /\ draft.key = screen.held.key

(* ... and while its row is active, or superseded in a pass, the screen shows nothing else. *)
DraftedAs(k) ==
    /\ draft.has /\ draft.key = k
    /\ screen.step \notin {"none", "opening"}
          => screen.of.rev = 0 /\ (screen.step # "clear" => screen.of.key = k)
    /\ screen.step = "queue" => screen.held.key = k
    /\ screen.step # "clear" =>
          /\ working.has => working.of.rev = 0 /\ working.of.key = k
          /\ load.on => load.draft.has /\ load.draft.key = k /\ Active(load.create)
Drafting == Superseding \/ (keys = {} /\ Active(rows[Create]))
DraftKept ==
    /\ Superseding => /\ rows[Create].state = "pending" /\ rows[Create].key = Sent.key
                      /\ rows[Create].save = newest
    /\ Drafting => DraftedAs(rows[Create].key)
SaveInv == /\ NewestSaveKept /\ StoredSaves /\ KeyBounds /\ FlightSaves /\ HeldSave
           /\ UnmadeCreate /\ DraftKept

LEMMA InitSave == ASSUME Init, TypeOK PROVE SaveInv
<1>1. /\ rows = [r \in RowIds |-> NoRow] /\ pass = NoPass /\ rec = NoRec /\ screen = NoScreen
      /\ load = NoLoad /\ draft = NoDraft /\ working = NoWorking /\ newest = 0 /\ stored = {0}
      /\ budget.saves = 0 /\ keys = {}
  BY DEF Init
<1>2. /\ \A r \in RowIds : rows[r].state = "none" /\ pass.items[r].state = "none"
      /\ pass.phase = "idle" /\ rec.todo = {} /\ ~rec.on
      /\ screen.step = "none" /\ screen.of.key = 0 /\ ~screen.conflict.on
      /\ load.draft.key = 0 /\ draft.key = 0 /\ working.of.key = 0
  BY <1>1 DEF NoRow, NoPass, NoRec, NoScreen, NoBase, NoConflict, NoLoad, NoDraft, NoWorking
<1>3. NewestSaveKept /\ StoredSaves /\ HeldSave
  BY <1>1, <1>2 DEF NewestSaveKept, StoredSaves, HeldSave
<1>4. KeySources = {0} /\ ~Queued
  BY <1>2 DEF KeySources, Queued
<1>5. KeyBounds /\ FlightSaves
  <2>1. rows[Create].state = "none" /\ Sent.state = "none" /\ \A r : ~InFlight(r)
    BY <1>2, Ids DEF InFlight, Sent
  <2>2. KeySources \subseteq 0..budget.saves
    BY <1>1, <1>4
  <2> QED BY <1>4, <2>1, <2>2 DEF KeyBounds, FlightSaves
<1>6. UnmadeCreate
  BY <1>2, <1>4, Ids DEF UnmadeCreate, Sent
<1>7. DraftKept
  BY <1>2, Ids DEF DraftKept, Drafting, Superseding, InFlight, Active
<1> QED BY <1>3, <1>5, <1>6, <1>7 DEF SaveInv

(* The steps of the screen leave the rows, and what a pass and the recovery have read. *)
FrontStep ==
    /\ UNCHANGED <<rows, newest, stored>>
    /\ keys' = {} => keys = {}
    /\ pass'.phase = pass.phase /\ pass'.items = pass.items
    /\ pass'.acks = pass.acks /\ pass'.sup = pass.sup
    /\ rec'.todo \subseteq rec.todo /\ (rec'.on => rec.on) /\ (rec'.on \/ ~rec.on \/ rec'.todo = {})
    /\ budget.saves =< budget'.saves

(* Such a step keeps the invariant if it invents no key but the one of a new save. *)
LEMMA FrontKept ==
    ASSUME TypeOK, TypeOK', SaveInv, FrontStep,
           KeySources' \subseteq KeySources \cup {0} \cup ((budget.saves + 1)..budget'.saves),
           Queued' => /\ screen'.held.key # 0
                      /\ keys = {} => draft'.has /\ draft'.key = screen'.held.key,
           HeldSave',
           Drafting /\ rows[Create].key # 0 /\ Active(rows[Create]) /\ DraftedAs(rows[Create].key)
              => DraftedAs(rows[Create].key)'
    PROVE  SaveInv'
<1>1. /\ rows' = rows /\ newest' = newest /\ stored' = stored /\ (keys' = {} => keys = {})
      /\ pass'.phase = pass.phase /\ pass'.items = pass.items /\ pass'.acks = pass.acks
      /\ pass'.sup = pass.sup
      /\ rec'.todo \subseteq rec.todo /\ (rec'.on => rec.on) /\ (rec'.on \/ ~rec.on \/ rec'.todo = {})
  BY DEF FrontStep
<1>2. NewestSaveKept'
  BY <1>1 DEF SaveInv, NewestSaveKept
<1>3. StoredSaves'
  BY <1>1 DEF SaveInv, StoredSaves
<1>4. budget.saves \in Nat /\ budget'.saves \in Nat /\ budget.saves =< budget'.saves
  BY DEF TypeOK, Budgets, FrontStep
<1>5. Sent' = Sent /\ Superseding' = Superseding /\ \A r \in RowIds : InFlight(r)' = InFlight(r)
  BY <1>1 DEF Sent, Superseding, InFlight
<1>6. KeyBounds'
  BY <1>1, <1>4, <1>5 DEF SaveInv, KeyBounds
<1>7. FlightSaves'
  <2>1. \A r \in Revs : InFlight(r)' => rows[r]'.state # "none" /\ SameSave(rows[r], pass.items[r])'
    BY <1>1, <1>5, Ids DEF SaveInv, FlightSaves
  <2>2. ASSUME InFlight(Create)', ~SameRow(rows[Create], Sent)', keys' = {}
        PROVE  Sent'.key \notin KeySources'
    <3>1. Sent.key \notin KeySources /\ Sent.state # "none" /\ keys = {}
      BY <1>1, <1>5, <2>2, Ids DEF SaveInv, FlightSaves, InFlight, Sent
    <3>2. Sent.key \in 1..budget.saves
      BY <3>1 DEF SaveInv, KeyBounds
    <3>3. Sent.key # 0 /\ Sent.key \notin (budget.saves + 1)..budget'.saves
      BY <1>4, <3>2
    <3> QED BY <1>5, <3>1, <3>3
  <2>3. InFlight(Create)' /\ SameRow(rows[Create], Sent)' => SameSave(rows[Create], Sent)'
    BY <1>1, <1>5, Ids DEF SaveInv, FlightSaves
  <2> QED BY <2>1, <2>2, <2>3 DEF FlightSaves
<1>8. UnmadeCreate'
  BY <1>1, <1>5 DEF SaveInv, UnmadeCreate
<1>9. DraftKept'
  <2>1. Superseding => Active(rows[Create]) /\ rows[Create].state # "none"
    BY DEF SaveInv, DraftKept, Active
  <2>2. Drafting' => Drafting /\ Active(rows[Create]) /\ rows[Create].state # "none"
    BY <1>1, <1>5, <2>1 DEF Drafting, Active
  <2>3. Drafting' => rows[Create].key # 0 /\ DraftedAs(rows[Create].key)
    BY <2>2 DEF SaveInv, DraftKept, KeyBounds
  <2>4. Drafting' => DraftedAs(rows[Create].key)'
    BY <2>2, <2>3
  <2> QED BY <1>1, <1>5, <2>4 DEF SaveInv, DraftKept
<1> QED BY <1>2, <1>3, <1>6, <1>7, <1>8, <1>9 DEF SaveInv

(* Only a tap on Save counts as a save. *)
LEMMA SpendSaves ==
    ASSUME budget \in Budgets, NEW w \in {"edits", "office", "loads", "faults"}, Spend(w)
    PROVE  budget'.saves = budget.saves /\ budget.saves \in Nat
BY DEF Spend, Budgets

LEMMA SpendSave ==
    ASSUME budget \in Budgets, Spend("saves")
    PROVE  budget'.saves = budget.saves + 1 /\ budget.saves \in Nat
BY DEF Spend, Budgets

(* A step that leaves the screen, the load and the drafts alone. *)
LEMMA StillKept ==
    ASSUME TypeOK, TypeOK', SaveInv, FrontStep, budget'.saves = budget.saves,
           UNCHANGED <<screen, load, draft, working>>
    PROVE  SaveInv'
<1>1. KeySources' = KeySources /\ Queued' = Queued
  BY DEF KeySources, Queued
<1>2. HeldSave'
  BY DEF SaveInv, HeldSave, KeptRow, FrontStep
<1>3. \A k : DraftedAs(k) => DraftedAs(k)'
  BY DEF DraftedAs
<1>4. Queued => screen.held.key # 0 /\ (keys = {} => draft.has /\ draft.key = screen.held.key)
  BY DEF SaveInv, KeyBounds, UnmadeCreate
<1>5. rows' = rows
  BY DEF FrontStep
<1> QED BY <1>1, <1>2, <1>3, <1>4, <1>5, FrontKept

LEMMA OfficeSave ==
    ASSUME TypeOK, TypeOK', SaveInv, NEW r \in Revs,
           OfficeTransition(r) \/ (\E g \in Groups : OfficeEdit(r, g))
    PROVE  SaveInv'
<1>1. /\ UNCHANGED <<keys, device, screen, load, pulls, pass, rec, history>> /\ Spend("office")
  BY DEF OfficeTransition, OfficeEdit
<1>2. budget'.saves = budget.saves /\ budget.saves \in Nat
  BY <1>1, SpendSaves DEF TypeOK
<1>3. FrontStep /\ UNCHANGED <<screen, load, draft, working>>
  BY <1>1, <1>2 DEF FrontStep, device, history
<1> QED BY <1>2, <1>3, StillKept

LEMMA PullSave ==
    ASSUME TypeOK, TypeOK', SaveInv, (\E p \in pulls : PullEnd(p)) \/ (\E r \in Revs : RefreshLead(r))
    PROVE  SaveInv'
<1>1. /\ UNCHANGED <<keys, rows, draft, working, screen, load, pass, rec, budget, history>>
  BY DEF PullEnd, RefreshLead, server, device
<1>2. budget'.saves = budget.saves /\ budget.saves \in Nat
  BY <1>1 DEF TypeOK, Budgets
<1>3. FrontStep /\ UNCHANGED <<screen, load, draft, working>>
  BY <1>1, <1>2 DEF FrontStep, history
<1> QED BY <1>2, <1>3, StillKept

(* A screen that shows a revision or a draft anew waits for nothing. *)
LEMMA ShownFields ==
    ASSUME NEW of, NEW form, NEW conflict
    PROVE  LET s == Shown(of, form, conflict)
           IN  s.open /\ s.step = "idle" /\ s.of = of /\ s.conflict = conflict
BY DEF Shown, NoScreen

LEMMA FromRevisionFields ==
    ASSUME NEW r, NEW d, NEW conflict
    PROVE  LET s == FromRevision(r, d, conflict)
           IN  s.open /\ s.step = "idle" /\ s.of.rev = r /\ s.of.key = 0 /\ s.conflict = conflict
<1> DEFINE of == [NoBase EXCEPT !.rev = r, !.tok = d.tok, !.base = d.doc, !.baseTok = d.tok,
                                !.ed = d.ed]
<1>1. of.rev = r /\ of.key = 0
  BY DEF NoBase
<1>2. FromRevision(r, d, conflict) = Shown(of, d.doc, conflict)
  BY DEF FromRevision
<1> HIDE DEF of
<1> QED BY <1>1, <1>2, ShownFields

LEMMA LoadBeginSave ==
    ASSUME TypeOK, TypeOK', SaveInv, NEW online \in BOOLEAN, LoadBegin(online)
    PROVE  SaveInv'
<1>1. /\ UNCHANGED <<server, rows, draft, pass, rec, newest, stored>>
      /\ screen.step \in {"opening", "idle"} /\ Spend("loads")
      /\ \/ working.has /\ ShowWorking
         \/ /\ working' = NoWorking
            /\ \/ ShowDraft
               \/ /\ load'.draft = draft /\ UNCHANGED screen
                  /\ load'.create = IF draft.has /\ rows[Create].key = draft.key THEN rows[Create]
                                    ELSE NoRow
  BY DEF LoadBegin
<1>2. budget'.saves = budget.saves /\ budget.saves \in Nat
  BY <1>1, SpendSaves DEF TypeOK
<1>3. FrontStep
  BY <1>1, <1>2 DEF FrontStep, server
<1>4. NoWorking.of.key = 0 /\ ~NoWorking.has /\ NoLoad.draft.key = 0 /\ ~NoLoad.on
  BY DEF NoWorking, NoBase, NoLoad, NoDraft
<1>5. CASE working.has /\ ShowWorking
  <2> DEFINE conflict == IF working.of.rev # 0 /\ rows[working.of.rev].state = "conflict"
                         THEN ConflictOf(rows[working.of.rev], rows[working.of.rev].srv)
                         ELSE NoConflict
  <2>1. /\ screen' = Shown(working.of, working.doc, conflict) /\ load' = NoLoad
        /\ working' = working
    BY <1>5 DEF ShowWorking
  <2>2. conflict.on => working.of.rev # 0
    BY DEF NoConflict
  <2> HIDE DEF conflict
  <2>3. /\ screen'.open /\ screen'.step = "idle" /\ screen'.of = working.of /\ screen'.conflict = conflict
    BY <2>1, ShownFields
  <2>4. HeldSave'
    BY <2>2, <2>3 DEF HeldSave
  <2>5. ~Queued' /\ KeySources' \subseteq KeySources \cup {0}
    BY <1>1, <1>4, <2>1, <2>3 DEF KeySources, Queued
  <2>6. working.has
    BY <1>5
  <2>7. \A k : DraftedAs(k) => DraftedAs(k)'
    BY <1>1, <1>4, <2>1, <2>3, <2>6 DEF DraftedAs
  <2>8. rows' = rows
    BY <1>1
  <2> QED BY <1>3, <2>4, <2>5, <2>7, <2>8, FrontKept
<1>6. CASE working' = NoWorking /\ ShowDraft
  <2> DEFINE of == [NoBase EXCEPT !.key = draft.key]
  <2>1. screen' = Shown(of, draft.body, NoConflict) /\ load' = NoLoad
    BY <1>6 DEF ShowDraft
  <2>2. of.key = draft.key /\ of.rev = 0 /\ ~NoConflict.on
    BY DEF NoBase, NoConflict
  <2> HIDE DEF of
  <2>3. /\ screen'.open /\ screen'.step = "idle" /\ screen'.of = of /\ screen'.conflict = NoConflict
    BY <2>1, ShownFields
  <2>4. HeldSave'
    BY <2>2, <2>3 DEF HeldSave
  <2>5. ~Queued' /\ KeySources' \subseteq KeySources \cup {0}
    BY <1>1, <1>4, <1>6, <2>1, <2>2, <2>3 DEF KeySources, Queued
  <2>7. \A k : DraftedAs(k) => DraftedAs(k)'
    BY <1>1, <1>4, <1>6, <2>1, <2>2, <2>3 DEF DraftedAs
  <2>8. rows' = rows
    BY <1>1
  <2> QED BY <1>3, <2>4, <2>5, <2>7, <2>8, FrontKept
<1>7. CASE /\ working' = NoWorking /\ load'.draft = draft /\ UNCHANGED screen
           /\ load'.create = IF draft.has /\ rows[Create].key = draft.key THEN rows[Create] ELSE NoRow
  <2>1. HeldSave'
    BY <1>1, <1>7 DEF SaveInv, HeldSave, KeptRow
  <2>2. ~Queued' /\ KeySources' \subseteq KeySources \cup {0}
    BY <1>1, <1>4, <1>7 DEF KeySources, Queued
  <2>3. Active(rows[Create]) /\ DraftedAs(rows[Create].key) => DraftedAs(rows[Create].key)'
    BY <1>1, <1>4, <1>7 DEF DraftedAs
  <2>4. rows' = rows
    BY <1>1
  <2> QED BY <1>3, <2>1, <2>2, <2>3, <2>4, FrontKept
<1> QED BY <1>1, <1>5, <1>6, <1>7

LEMMA LoadEndSave == ASSUME TypeOK, TypeOK', NamedInv, SaveInv, LoadEnd PROVE SaveInv'
<1> DEFINE r == load.head
           srv == IF load.online THEN load.srv ELSE detail[r]
           view == View(srv)
           local == view \in {"local_update", "conflict"}
           office1 == IF load.row.state = "conflict" /\ load.row.srv.tok > 0 THEN load.row.srv ELSE srv
           conflict == IF view = "conflict" THEN ConflictOf(load.row, office1) ELSE NoConflict
           of == [NoBase EXCEPT !.key = load.draft.key]
<1>1. /\ load.on /\ screen.step \in {"idle", "opening"} /\ load' = NoLoad
      /\ UNCHANGED <<server, rows, working, pass, rec, budget, newest, stored>>
      /\ draft' \in {draft, NoDraft}
  BY DEF LoadEnd
<1>2. r # 0
  BY <1>1 DEF NamedInv, NamedScreen
<1>3. \/ screen' = FromRevision(r, load.opt, conflict)
      \/ screen' = FromRevision(r, srv, NoConflict)
      \/ screen' = Shown(of, load.draft.body, NoConflict)
      \/ screen' = Shown(NoBase, Blank, NoConflict)
  BY DEF LoadEnd
<1>4. load.draft.has /\ Active(load.create) =>
         /\ draft' = draft /\ screen' = Shown(of, load.draft.body, NoConflict)
  <2>1. load.draft.has /\ Active(load.create) => view = "local_draft"
    BY DEF View, Active
  <2> HIDE DEF view
  <2>2. view = "local_draft" => draft' = draft /\ screen' = Shown(of, load.draft.body, NoConflict)
    BY DEF LoadEnd, view
  <2> QED BY <2>1, <2>2
<1>5. of.key = load.draft.key /\ of.rev = 0 /\ ~NoConflict.on /\ NoBase.key = 0 /\ NoDraft.key = 0
      /\ NoLoad.draft.key = 0 /\ ~NoLoad.on
  BY DEF NoBase, NoConflict, NoDraft, NoLoad
<1> HIDE DEF srv, view, of, conflict
<1>6. /\ screen'.open /\ screen'.step = "idle" /\ screen'.of.key \in {0, load.draft.key}
      /\ screen'.conflict.on => screen'.of.rev # 0
  BY <1>2, <1>3, <1>5, ShownFields, FromRevisionFields
<1>7. HeldSave' /\ ~Queued'
  BY <1>6 DEF HeldSave, Queued
<1>8. KeySources' \subseteq KeySources \cup {0}
  BY <1>1, <1>5, <1>6, <1>7 DEF KeySources
<1>9. budget'.saves \in Nat /\ budget.saves = budget'.saves
  BY <1>1 DEF TypeOK, Budgets
<1>10. FrontStep
  BY <1>1, <1>9 DEF FrontStep, server
<1>11. ASSUME NEW k, DraftedAs(k)  PROVE DraftedAs(k)'
  <2>1. load.draft.has /\ load.draft.key = k /\ Active(load.create)
    BY <1>1, <1>11 DEF DraftedAs
  <2>2. draft' = draft /\ screen'.of = of /\ screen'.step = "idle"
    BY <1>4, <2>1, ShownFields
  <2> QED BY <1>1, <1>5, <1>11, <2>1, <2>2 DEF DraftedAs
<1>12. rows' = rows
  BY <1>1
<1> QED BY <1>7, <1>8, <1>10, <1>11, <1>12, FrontKept

(* Steps of the screen that queue nothing. *)
Opening == [NoScreen EXCEPT !.open = TRUE, !.step = "opening"]
LEMMA ScreenKept ==
    ASSUME TypeOK, TypeOK', SaveInv, FrontStep, UNCHANGED draft, HeldSave',
           screen'.of = screen.of \/ screen' \in {NoScreen, Opening},
           screen'.step # "queue",
           screen.step \in {"queue", "clear"} => screen' = NoScreen /\ working' = NoWorking /\ load' = NoLoad,
           screen'.step \notin {"clear", "none", "opening"} => screen.step \notin {"clear", "none", "opening"},
           screen'.step # "clear",
           load' \in {load, NoLoad},
           working' \in {working, NoWorking}
             \/ (working'.of = screen.of /\ screen.step \notin {"none", "opening", "queue", "clear"})
    PROVE  SaveInv'
<1>1. /\ NoScreen.step = "none" /\ NoScreen.of.key = 0 /\ NoScreen.of.rev = 0
      /\ Opening.step = "opening" /\ Opening.of.key = 0
      /\ NoWorking.of.key = 0 /\ ~NoWorking.has /\ NoLoad.draft.key = 0 /\ ~NoLoad.on
  BY DEF Opening, NoScreen, NoBase, NoWorking, NoLoad, NoDraft
<1>2. ~Queued'
  BY DEF Queued
<1>3. KeySources' \subseteq KeySources \cup {0}
  BY <1>1, <1>2 DEF KeySources
<1>4. ASSUME NEW k, DraftedAs(k)  PROVE DraftedAs(k)'
  <2>1. draft'.has /\ draft'.key = k
    BY <1>4 DEF DraftedAs
  <2>2. screen'.step \notin {"none", "opening"} =>
           screen'.of.rev = 0 /\ (screen'.step # "clear" => screen'.of.key = k)
    BY <1>1, <1>4 DEF DraftedAs
  <2>3. working'.has => working'.of.rev = 0 /\ working'.of.key = k
    BY <1>1, <1>4 DEF DraftedAs
  <2>4. load'.on => load'.draft.has /\ load'.draft.key = k /\ Active(load'.create)
    BY <1>1, <1>4 DEF DraftedAs
  <2> QED BY <2>1, <2>2, <2>3, <2>4 DEF DraftedAs
<1>5. rows' = rows
  BY DEF FrontStep
<1> QED BY <1>2, <1>3, <1>4, <1>5, FrontKept

LEMMA EditSave ==
    ASSUME TypeOK, TypeOK', SaveInv,
           Open \/ Leave \/ Autosave \/ Revert \/ (\E g \in Groups, empties \in BOOLEAN : Type(g, empties))
    PROVE  SaveInv'
<1>1. UNCHANGED <<keys, rows, draft, pass, rec, newest, stored>> /\ load' \in {load, NoLoad}
  BY DEF Open, Leave, Autosave, Revert, Type, server, device, history
<1>2. budget'.saves = budget.saves /\ budget.saves \in Nat
  <2>1. budget' = budget \/ Spend("edits")
    BY DEF Open, Leave, Autosave, Revert, Type
  <2>2. budget' = budget => budget'.saves = budget.saves /\ budget.saves \in Nat
    BY DEF TypeOK, Budgets
  <2> QED BY <2>1, <2>2, SpendSaves DEF TypeOK
<1>3. FrontStep
  BY <1>1, <1>2 DEF FrontStep
<1>4. \/ screen' = NoScreen \/ screen' = Opening
      \/ /\ screen'.of = screen.of /\ screen'.step = screen.step
         /\ screen'.conflict = screen.conflict /\ screen'.held = screen.held
         /\ screen.step = "idle" /\ screen'.open = screen.open
  <2>1. screen \in Screens
    BY DEF TypeOK, ScreenTyped
  <2>2. CASE Open \/ Leave
    BY <2>2 DEF Open, Leave, Opening
  <2>3. CASE Autosave \/ Revert \/ (\E g \in Groups, empties \in BOOLEAN : Type(g, empties))
    <3>1. screen.step = "idle" /\ \E form : screen' = [screen EXCEPT !.form = form]
      <4>1. CASE Autosave
        <5>1. screen' = [screen EXCEPT !.form = screen.form]
          BY <2>1, <4>1 DEF Autosave, Screens
        <5> QED BY <4>1, <5>1 DEF Autosave, Editable
      <4>2. CASE Revert
        BY <4>2 DEF Revert, Editable
      <4>3. CASE \E g \in Groups, empties \in BOOLEAN : Type(g, empties)
        <5>1. PICK g \in Groups : \E empties \in BOOLEAN : Type(g, empties)
          BY <4>3
        <5>2. PICK empties \in BOOLEAN : Type(g, empties)
          BY <5>1
        <5>3. screen' = [screen EXCEPT !.form = [screen.form EXCEPT ![g] = IF empties THEN 0 ELSE budget.edits + 1]]
          BY <2>1, <5>2 DEF Type, Screens
        <5> QED BY <5>2, <5>3 DEF Type, Editable
      <4> QED BY <2>3, <4>1, <4>2, <4>3
    <3> QED BY <2>1, <3>1 DEF Screens
  <2> QED BY <2>2, <2>3
<1>5. \/ working' \in {working, NoWorking}
      \/ working'.of = screen.of /\ screen.step = "idle"
  BY DEF Open, Leave, Autosave, Revert, Type, device, AsWorking, Editable
<1>6. screen.step \in {"queue", "clear"} => FALSE
  BY DEF Open, Leave, Autosave, Revert, Type, Editable, SaveInv, HeldSave
<1>7. NoScreen.step = "none" /\ Opening.step = "opening" /\ Opening.open /\ ~NoScreen.conflict.on /\ ~Opening.conflict.on
  BY DEF NoScreen, Opening, NoConflict
<1>8. HeldSave'
  BY <1>3, <1>4, <1>7 DEF SaveInv, HeldSave, KeptRow, FrontStep
<1> QED BY <1>1, <1>3, <1>4, <1>5, <1>6, <1>7, <1>8, ScreenKept

LEMMA SaveClearSave == ASSUME TypeOK, TypeOK', SaveInv, SaveClear PROVE SaveInv'
<1>1. /\ UNCHANGED <<keys, rows, draft, pass, rec, newest, stored, budget>>
      /\ load' = NoLoad /\ working' = NoWorking /\ screen' = NoScreen
  BY DEF SaveClear, server, history
<1>2. FrontStep
  BY <1>1 DEF FrontStep, TypeOK, Budgets
<1>3. NoScreen.step = "none" /\ ~NoScreen.conflict.on
  BY DEF NoScreen, NoConflict
<1>4. HeldSave'
  BY <1>1, <1>3 DEF HeldSave
<1> QED BY <1>1, <1>2, <1>3, <1>4, ScreenKept

LEMMA TapSave ==
    ASSUME TypeOK, TypeOK', NamedInv, CloneInv, SaveInv,
           KeepMineBegin \/ UseOfficeBegin \/ UseOfficePreserved \/ NewRevisionKey \/ NewRevisionFails
    PROVE  SaveInv'
<1>1. UNCHANGED <<keys, rows, draft, working, load, pass, rec, newest, stored, budget>>
  BY DEF KeepMineBegin, UseOfficeBegin, UseOfficePreserved, NewRevisionKey, NewRevisionFails,
     server, device, history
<1>2. FrontStep
  BY <1>1 DEF FrontStep, TypeOK, Budgets
<1>3. screen \in Screens
  BY DEF TypeOK, ScreenTyped
<1>4. /\ screen'.of = screen.of /\ screen'.conflict = screen.conflict
      /\ screen'.open = screen.open
      /\ screen.step \in {"idle", "office", "clone"} /\ screen'.step \in {"keep", "office", "opening", "clone", "idle"}
      /\ screen'.step = "office" => screen.of.rev # 0
      /\ screen'.step = "clone" => screen.of.rev # 0
      /\ screen'.step = "keep" => screen.conflict.on /\ screen'.held = rows[screen.of.rev]
  <2>1. CASE KeepMineBegin
    BY <1>3, <2>1 DEF KeepMineBegin, Screens
  <2>2. CASE UseOfficeBegin
    BY <1>3, <2>2 DEF UseOfficeBegin, Screens
  <2>3. CASE UseOfficePreserved
    BY <1>3, <2>3 DEF UseOfficePreserved, Screens
  <2>4. CASE NewRevisionKey
    BY <1>3, <2>4 DEF NewRevisionKey, Screens
  <2>5. CASE NewRevisionFails
    BY <1>3, <2>5 DEF NewRevisionFails, Screens
  <2> QED BY <2>1, <2>2, <2>3, <2>4, <2>5
<1>5. HeldSave'
  BY <1>1, <1>4 DEF SaveInv, HeldSave, KeptRow
<1> QED BY <1>1, <1>2, <1>4, <1>5, ScreenKept

(* A create is saved under its draft's key, or under a new one. *)
LEMMA SaveBeginSave == ASSUME TypeOK, TypeOK', SaveInv, SaveBegin PROVE SaveInv'
<1> DEFINE key == IF screen.of.key # 0 THEN screen.of.key ELSE budget.saves + 1
<1>1. /\ UNCHANGED <<keys, rows, working, load, pass, rec, newest, stored>>
      /\ screen.step = "idle" /\ screen' = [screen EXCEPT !.step = "queue", !.held = SaveRow]
      /\ screen.of.rev = 0 => draft' = [has |-> TRUE, body |-> screen.form, key |-> SaveRow.key]
      /\ screen.of.rev # 0 => draft' = draft
  BY DEF SaveBegin, Editable, server, history
<1>2. budget'.saves = budget.saves + 1 /\ budget.saves \in Nat
  BY SpendSave DEF SaveBegin, TypeOK
<1>3. FrontStep
  BY <1>1, <1>2 DEF FrontStep
<1>4. screen \in Screens /\ screen.of.key \in Nat
  BY DEF TypeOK, ScreenTyped, Screens, Bases
<1>5. /\ screen'.step = "queue" /\ screen'.held = SaveRow /\ screen'.of = screen.of
      /\ screen'.conflict = screen.conflict /\ screen'.open = screen.open
  BY <1>1, <1>4 DEF Screens
<1>6. screen.of.rev = 0 => SaveRow.key = key
  BY DEF SaveRow, NoRow
<1>7. key # 0 /\ key \in {screen.of.key} \cup {budget.saves + 1}
  BY <1>2, <1>4
<1> HIDE DEF key
<1>8. Queued' = (screen.of.rev = 0)
  BY <1>5 DEF Queued
<1>9. draft'.key \in {draft.key, key} /\ (Queued' => screen'.held.key = key /\ draft'.key = key /\ draft'.has)
  <2>1. CASE screen.of.rev = 0
    BY <1>1, <1>5, <1>6, <2>1
  <2>2. CASE screen.of.rev # 0
    BY <1>1, <1>8, <2>2
  <2> QED BY <2>1, <2>2
<1>10. KeySources' \subseteq KeySources \cup {0} \cup ((budget.saves + 1)..budget'.saves)
  <2>1. KeySources' \subseteq KeySources \cup {key}
    BY <1>1, <1>5, <1>9 DEF KeySources
  <2>2. key \in KeySources \cup ((budget.saves + 1)..budget'.saves)
    BY <1>2, <1>7 DEF KeySources
  <2> QED BY <2>1, <2>2
<1>11. Queued' => screen'.held.key # 0 /\ draft'.has /\ draft'.key = screen'.held.key
  BY <1>7, <1>9
<1>12. HeldSave'
  BY <1>1, <1>5 DEF SaveInv, HeldSave
<1>13. ASSUME NEW k, k # 0, DraftedAs(k)  PROVE DraftedAs(k)'
  <2>1. screen.of.rev = 0 /\ screen.of.key = k
    BY <1>1, <1>13 DEF DraftedAs
  <2>2. SaveRow.key = k
    BY <1>6, <1>13, <2>1 DEF key
  <2>3. draft'.has /\ draft'.key = k
    BY <1>1, <2>1, <2>2
  <2> QED BY <1>1, <1>5, <1>13, <2>1, <2>2, <2>3 DEF DraftedAs
<1>14. rows' = rows
  BY <1>1
<1> QED BY <1>3, <1>10, <1>11, <1>12, <1>13, <1>14, FrontKept

LEMMA NewRevisionSave ==
    ASSUME TypeOK, TypeOK', CloneInv, SaveInv, NEW lost \in BOOLEAN, NewRevision(lost)
    PROVE  SaveInv'
<1> DEFINE r == screen.of.rev
           made == {k \in keys : k.of = r /\ k.key = opkey[r]}
           new == IF made # {} THEN (CHOOSE k \in made : TRUE).rev
                  ELSE Cardinality(ListedBy(office)) + 1
<1>1. /\ UNCHANGED <<rows, draft, working, pass, rec, newest, stored>>
      /\ screen.step = "clone" /\ new \in Revs /\ (keys' = {} => keys = {})
      /\ \/ Spend("faults") /\ screen' = [screen EXCEPT !.step = "idle"] /\ load' = load
         \/ budget' = budget /\ screen' = FromRevision(new, office'[new], NoConflict) /\ load' = NoLoad
  <2>1. keys' = {} => keys = {}
    BY DEF NewRevision, server
  <2> QED BY <2>1 DEF NewRevision
<1> HIDE DEF new, made
<1>2. budget'.saves = budget.saves /\ budget.saves \in Nat
  <2>1. budget' = budget => budget'.saves = budget.saves /\ budget.saves \in Nat
    BY DEF TypeOK, Budgets
  <2> QED BY <1>1, <2>1, SpendSaves DEF TypeOK
<1>3. FrontStep
  BY <1>1, <1>2 DEF FrontStep
<1>4. screen \in Screens /\ r # 0
  BY <1>1, Ids DEF TypeOK, ScreenTyped, CloneInv
<1>5. /\ screen'.step = "idle" /\ screen'.of.key \in {0, screen.of.key} /\ screen'.open
      /\ screen'.conflict.on => screen'.of.rev # 0
  <2>1. CASE screen' = [screen EXCEPT !.step = "idle"]
    BY <1>1, <1>4, <2>1 DEF Screens, SaveInv, HeldSave
  <2>2. CASE screen' = FromRevision(new, office'[new], NoConflict)
    <3>1. ~NoConflict.on
      BY DEF NoConflict
    <3> QED BY <2>2, <3>1, FromRevisionFields
  <2> QED BY <1>1, <2>1, <2>2
<1>6. HeldSave' /\ ~Queued'
  BY <1>5 DEF HeldSave, Queued
<1>7. NoLoad.draft.key = 0
  BY DEF NoLoad, NoDraft
<1>8. KeySources' \subseteq KeySources \cup {0}
  BY <1>1, <1>5, <1>6, <1>7 DEF KeySources
<1>9. \A k : ~DraftedAs(k)
  BY <1>1, <1>4 DEF DraftedAs
<1> QED BY <1>3, <1>6, <1>8, <1>9, FrontKept

(* What the recovery settles has been acknowledged: Office has made something. *)
LEMMA SettleSave ==
    ASSUME TypeOK, TypeOK', SaveInv,
           RecoverEnd \/ \E r \in RowIds : RecoverSettle(r)
    PROVE  SaveInv'
<1>1. /\ UNCHANGED <<keys, rows, screen, load, pass, budget, newest, stored>>
      /\ rec.on /\ working' \in {working, NoWorking}
  BY DEF RecoverEnd, RecoverSettle, RetireWorking, server, history
<1>2. /\ rec'.todo \subseteq rec.todo /\ (rec'.on \/ rec'.todo = {})
      /\ draft' # draft => draft' = NoDraft /\ Create \in rec.todo
  <2>1. CASE RecoverEnd
    BY <2>1 DEF RecoverEnd, NoRec
  <2>2. CASE \E r \in RowIds : RecoverSettle(r)
    <3>1. PICK r \in RowIds : RecoverSettle(r)
      BY <2>2
    <3>2. rec'.todo = rec.todo /\ rec'.on = rec.on
      BY <3>1 DEF RecoverSettle, TypeOK, WorkTyped, Recoveries
    <3> QED BY <1>1, <3>1, <3>2 DEF RecoverSettle, RetireDraft
  <2> QED BY <2>1, <2>2
<1>3. FrontStep
  BY <1>1, <1>2 DEF FrontStep, TypeOK, Budgets
<1>4. NoDraft.key = 0 /\ NoWorking.of.key = 0 /\ ~NoWorking.has
  BY DEF NoDraft, NoWorking, NoBase
<1>5. KeySources' \subseteq KeySources \cup {0} /\ Queued' = Queued
  BY <1>1, <1>2, <1>4 DEF KeySources, Queued
<1>6. draft' = draft \/ (keys # {} /\ ~Drafting)
  <2>1. pass.phase = "idle"
    BY <1>1 DEF SaveInv, StoredSaves
  <2>2. ~Superseding
    BY <2>1 DEF Superseding, InFlight
  <2>3. Create \in rec.todo => keys # {}
    BY DEF SaveInv, UnmadeCreate
  <2> QED BY <1>2, <2>2, <2>3 DEF Drafting
<1>7. draft' = draft => \A k : DraftedAs(k) => DraftedAs(k)'
  BY <1>1, <1>4 DEF DraftedAs
<1>8. HeldSave'
  BY <1>1, <1>2 DEF SaveInv, HeldSave, KeptRow
<1>9. Queued => screen.held.key # 0 /\ (keys = {} => draft.has /\ draft.key = screen.held.key)
  BY DEF SaveInv, KeyBounds, UnmadeCreate
<1> QED BY <1>1, <1>3, <1>5, <1>6, <1>7, <1>8, <1>9, FrontKept

LEMMA AckDetailSave == ASSUME TypeOK, TypeOK', SaveInv, NEW r \in RowIds, AckDetail(r) PROVE SaveInv'
<1>1. UNCHANGED <<keys, rows, draft, working, screen, load, rec, budget, newest, stored>>
  BY DEF AckDetail, server, history
<1>2. /\ pass'.phase = pass.phase /\ pass'.items = pass.items /\ pass'.acks = pass.acks
      /\ pass'.sup = pass.sup
  BY DEF AckDetail, TypeOK, WorkTyped, Passes
<1>3. FrontStep
  BY <1>1, <1>2 DEF FrontStep, TypeOK, Budgets
<1> QED BY <1>1, <1>3, StillKept

(* A save makes a newer generation of its row: of a create a pass holds, only before Office
   has made anything, and then under the key the pass has. *)
LEMMA SaveQueueSave == ASSUME Windows = {}, TypeOK, TypeOK', SaveInv, SaveQueue PROVE SaveInv'
<1> DEFINE r == screen.of.rev
           gen == rows[r].gen + 1
           row == [screen.held EXCEPT !.state = "pending", !.gen = gen, !.save = budget.saves]
<1>1. /\ UNCHANGED <<keys, draft, working, load, pass, rec, budget, stored>>
      /\ screen.step = "queue" /\ ~rec.on /\ (r = Create /\ InFlight(Create) => keys = {})
      /\ rows' = [rows EXCEPT ![r] = row] /\ newest' = budget.saves
      /\ screen' = [screen EXCEPT !.step = "clear"]
  BY DEF SaveQueue, server
<1>2. /\ screen \in Screens /\ r \in RowIds /\ rows \in [RowIds -> Rows] /\ screen.held \in Rows
      /\ rows[r].gen \in Nat
  BY Ids DEF TypeOK, ScreenTyped, DeviceTyped, Screens, Bases, Rows
<1>3. row.state = "pending" /\ row.gen = gen /\ row.save = budget.saves /\ row.key = screen.held.key
  BY <1>2 DEF Rows
<1>4. /\ screen'.step = "clear" /\ screen'.of = screen.of /\ screen'.conflict = screen.conflict
      /\ screen'.open = screen.open
  BY <1>1, <1>2 DEF Screens
<1>5. rows'[r] = row /\ \A q \in RowIds : q # r => rows'[q] = rows[q]
  BY <1>1, <1>2
<1>6. Create \in RowIds /\ 0 = Create /\ Create \notin Revs /\ Revs \subseteq RowIds
  BY Ids DEF Create
<1> HIDE DEF row, gen
<1>7. NewestSaveKept'
  BY <1>1, <1>2, <1>3, <1>5 DEF NewestSaveKept, Active
<1>8. rec.todo = {}
  BY <1>1 DEF SaveInv, StoredSaves
<1>9. StoredSaves'
  BY <1>1, <1>3, <1>5, <1>8 DEF SaveInv, StoredSaves
<1>10. Queued = (r = 0) /\ ~Queued' /\ KeySources' \subseteq KeySources
  BY <1>1, <1>4 DEF Queued, KeySources
<1>11. r = Create => screen.held.key \in KeySources /\ screen.held.key \in 1..budget.saves
  <2>1. r = Create => screen.held.key \in KeySources /\ screen.held.key # 0
    BY <1>6, <1>10 DEF KeySources, SaveInv, KeyBounds
  <2>2. KeySources \subseteq 0..budget.saves /\ budget.saves \in Nat
    BY DEF SaveInv, KeyBounds, TypeOK, Budgets
  <2>3. \A k \in 0..budget.saves : k # 0 => k \in 1..budget.saves
    BY <2>2
  <2> HIDE DEF r
  <2> QED BY Zenon, <2>1, <2>2, <2>3
<1>12. Sent' = Sent /\ \A q \in RowIds : InFlight(q)' = InFlight(q)
  BY <1>1 DEF Sent, InFlight
<1>13. KeyBounds'
  <2>1. rows'[Create].state # "none" => rows'[Create].key \in 1..budget.saves
    BY <1>3, <1>5, <1>6, <1>11 DEF SaveInv, KeyBounds
  <2> QED BY <1>1, <1>10, <1>12, <2>1 DEF SaveInv, KeyBounds
<1>14. r = Create /\ Drafting => screen.held.key = rows[Create].key /\ draft.has /\ draft.key = rows[Create].key
  BY <1>1 DEF SaveInv, DraftKept, DraftedAs
<1>15. FlightSaves'
  <2>1. ASSUME NEW q \in Revs, InFlight(q)
        PROVE  rows'[q].state # "none" /\ SameSave(rows'[q], pass.items[q])
    <3>1. rows[q].state # "none" /\ SameSave(rows[q], pass.items[q])
      BY <2>1 DEF SaveInv, FlightSaves
    <3>2. CASE q = r
      <4>1. pass.items[q].gen \in Nat
        BY <1>6 DEF TypeOK, WorkTyped, Passes, Rows
      <4>2. pass.items[q].gen < row.gen
        BY <1>2, <1>3, <3>1, <3>2, <4>1 DEF SameSave, gen
      <4> QED BY <1>2, <1>3, <1>5, <3>2, <4>1, <4>2 DEF SameSave, gen
    <3>3. CASE q # r
      BY <1>5, <1>6, <3>1, <3>3
    <3> QED BY <3>2, <3>3
  <2>2. ASSUME InFlight(Create)
        PROVE  IF SameRow(rows'[Create], Sent) THEN SameSave(rows'[Create], Sent)
               ELSE keys = {} => Sent.key \notin KeySources'
    <3>1. IF SameRow(rows[Create], Sent) THEN SameSave(rows[Create], Sent)
          ELSE keys = {} => Sent.key \notin KeySources
      BY <2>2 DEF SaveInv, FlightSaves
    <3>2. CASE r # Create
      BY <1>5, <1>6, <1>10, <3>1, <3>2
    <3>3. CASE r = Create /\ SameRow(rows[Create], Sent)
      <4>1. keys = {}
        BY <1>1, <2>2, <3>3
      <4>2. Active(rows[Create])
        BY <1>2, <1>6, <3>3, <4>1 DEF SaveInv, UnmadeCreate, SameRow, Active, Rows, States
      <4>3. screen.held.key = Sent.key
        BY <1>14, <3>3, <4>1, <4>2 DEF Drafting, SameRow
      <4>4. SameRow(rows'[Create], Sent)
        BY <1>3, <1>5, <3>3, <4>3 DEF SameRow
      <4>5. Sent.gen \in Nat
        BY <1>6 DEF Sent, TypeOK, WorkTyped, Passes, Rows
      <4>6. Sent.gen < row.gen
        BY <1>2, <1>3, <3>1, <3>3, <4>5 DEF SameSave, gen
      <4> QED BY <1>2, <1>3, <1>5, <3>3, <4>4, <4>5, <4>6 DEF SameSave, gen
    <3>4. CASE r = Create /\ ~SameRow(rows[Create], Sent)
      <4>1. keys = {} /\ Sent.key \notin KeySources
        BY <1>1, <2>2, <3>1, <3>4
      <4>2. ~SameRow(rows'[Create], Sent)
        BY <1>3, <1>5, <1>11, <3>4, <4>1 DEF SameRow
      <4> QED BY <1>10, <4>1, <4>2
    <3> QED BY <3>2, <3>3, <3>4
  <2> QED BY <1>1, <1>6, <1>12, <2>1, <2>2 DEF FlightSaves
<1>16. HeldSave'
  BY <1>1, <1>4 DEF SaveInv, HeldSave
<1>17. UnmadeCreate'
  BY <1>1, <1>3, <1>5, <1>6, <1>10, <1>12 DEF SaveInv, UnmadeCreate
<1>18. DraftKept'
  <2>1. CASE r # Create
    <3>1. ~Drafting
      BY <1>1, <1>6, <2>1 DEF SaveInv, DraftKept, DraftedAs
    <3>2. Superseding' = Superseding /\ Drafting' = Drafting
      BY <1>1, <1>5, <1>6, <1>12, <2>1 DEF Superseding, Drafting
    <3> QED BY <3>1, <3>2 DEF DraftKept, Drafting
  <2>2. CASE r = Create
    <3>1. pass.phase = "ack" /\ Create \in pass.acks \cap pass.sup => Superseding
      BY DEF Superseding
    <3>2. Superseding' => Superseding \/ (InFlight(Create) /\ SameRow(rows'[Create], Sent))
      BY <1>1, <1>6, <1>12 DEF Superseding
    <3>3. Superseding' => rows'[Create].key = Sent.key
      <4>1. CASE InFlight(Create) /\ SameRow(rows'[Create], Sent)
        BY <4>1 DEF SameRow
      <4>2. CASE Superseding
        BY <1>3, <1>5, <1>14, <2>2, <4>2 DEF SaveInv, DraftKept, Drafting
      <4> QED BY <3>2, <4>1, <4>2
    <3>4. Drafting' => draft.has /\ draft.key = screen.held.key
      <4>1. CASE keys = {}
        BY <1>6, <1>10, <2>2, <4>1 DEF SaveInv, UnmadeCreate
      <4>2. CASE keys # {}
        <5>1. Drafting' => Superseding
          BY <1>1, <2>2, <3>2, <4>2 DEF Drafting
        <5> QED BY <1>14, <2>2, <5>1 DEF Drafting
      <4> QED BY <4>1, <4>2
    <3>5. Drafting' => DraftedAs(rows[Create].key)'
      BY <1>1, <1>3, <1>4, <1>5, <1>6, <2>2, <3>4 DEF DraftedAs
    <3> QED BY <1>1, <1>3, <1>5, <1>12, <2>2, <3>3, <3>5 DEF DraftKept
  <2> QED BY <2>1, <2>2
<1> QED BY <1>7, <1>9, <1>13, <1>15, <1>16, <1>17, <1>18 DEF SaveInv

(* Keep mine writes the save it has read back: on a row that still holds it, or is gone. *)
LEMMA KeepMineSave == ASSUME TypeOK, TypeOK', SaveInv, KeepMineWrite PROVE SaveInv'
<1> DEFINE r == screen.of.rev
           srv == screen.conflict.srv
           row == [screen.held EXCEPT !.state = "pending", !.tok = srv.tok, !.srv = NoRev,
                                      !.body = Merge(screen.held.base, screen.held.body, srv.doc),
                                      !.base = srv.doc, !.baseTok = srv.tok]
<1>1. /\ UNCHANGED <<keys, draft, working, load, pass, rec, budget, stored, newest>>
      /\ screen.step = "keep" /\ rows' = [rows EXCEPT ![r] = row]
      /\ screen' = [screen EXCEPT !.step = "opening", !.conflict = NoConflict]
  BY DEF KeepMineWrite, server
<1>2. /\ screen \in Screens /\ r \in RevIds /\ r # 0 /\ rows \in [RowIds -> Rows] /\ screen.held \in Rows
  BY <1>1, Ids DEF TypeOK, ScreenTyped, DeviceTyped, Screens, Bases, SaveInv, HeldSave
<1>3. row.state = "pending" /\ row.gen = screen.held.gen /\ row.save = screen.held.save
  BY <1>2 DEF Rows
<1>4. r \in Revs /\ r \in RowIds /\ r # Create /\ Create \in RowIds /\ Revs \subseteq RowIds
  BY <1>2, Ids DEF RevIds, Create
<1>5. rows'[r] = row /\ \A q \in RowIds : q # r => rows'[q] = rows[q]
  BY <1>1, <1>2, <1>4
<1>6. /\ screen'.step = "opening" /\ screen'.of = screen.of /\ ~screen'.conflict.on
      /\ screen'.open = screen.open
  BY <1>1, <1>2 DEF Screens, NoConflict
<1> HIDE DEF row
<1>7. KeptRow(r)
  BY <1>1 DEF SaveInv, HeldSave
<1>8. NewestSaveKept'
  BY <1>1, <1>3, <1>4, <1>5, <1>7 DEF SaveInv, NewestSaveKept, KeptRow, Active
<1>9. StoredSaves'
  BY <1>1, <1>3, <1>4, <1>5, <1>7 DEF SaveInv, StoredSaves, KeptRow
<1>10. ~Queued' /\ KeySources' \subseteq KeySources /\ rows'[Create] = rows[Create] /\ Sent' = Sent
       /\ \A q \in RowIds : InFlight(q)' = InFlight(q)
  BY <1>1, <1>4, <1>5, <1>6 DEF Queued, KeySources, Sent, InFlight
<1>11. KeyBounds'
  BY <1>1, <1>10 DEF SaveInv, KeyBounds
<1>12. FlightSaves'
  <2>1. ASSUME NEW q \in Revs, InFlight(q)
        PROVE  rows'[q].state # "none" /\ SameSave(rows'[q], pass.items[q])
    <3>1. rows[q].state # "none" /\ SameSave(rows[q], pass.items[q])
      BY <2>1 DEF SaveInv, FlightSaves
    <3> QED BY <1>3, <1>4, <1>5, <1>7, <3>1 DEF KeptRow, SameSave
  <2>2. InFlight(Create) => IF SameRow(rows'[Create], Sent) THEN SameSave(rows'[Create], Sent)
                            ELSE keys = {} => Sent.key \notin KeySources'
    BY <1>10 DEF SaveInv, FlightSaves
  <2> QED BY <1>1, <1>4, <1>10, <2>1, <2>2 DEF FlightSaves
<1>13. HeldSave'
  BY <1>1, <1>6 DEF SaveInv, HeldSave
<1>14. UnmadeCreate'
  BY <1>1, <1>10 DEF SaveInv, UnmadeCreate
<1>15. DraftKept'
  <2>1. ~Drafting
    BY <1>1, <1>2 DEF SaveInv, DraftKept, DraftedAs
  <2>2. Superseding' = Superseding /\ Drafting' = Drafting
    BY <1>1, <1>4, <1>10 DEF Superseding, Drafting
  <2> QED BY <2>1, <2>2 DEF DraftKept, Drafting
<1> QED BY <1>8, <1>9, <1>11, <1>12, <1>13, <1>14, <1>15 DEF SaveInv

(* Use Office discards a row no pass holds. *)
LEMMA UseOfficeSave == ASSUME Windows = {}, TypeOK, TypeOK', SaveInv, UseOfficeCommit PROVE SaveInv'
<1> DEFINE r == screen.of.rev
<1>1. /\ UNCHANGED <<keys, load, pass, rec, budget, stored>>
      /\ screen.step = "office" /\ ~InFlight(r) /\ rows' = [rows EXCEPT ![r] = NoRow]
      /\ draft' = NoDraft /\ working' = NoWorking /\ newest' = 0
      /\ screen' = [screen EXCEPT !.step = "opening", !.conflict = NoConflict]
  BY DEF UseOfficeCommit, server
<1>2. /\ screen \in Screens /\ r \in RevIds /\ r # 0 /\ rows \in [RowIds -> Rows]
  BY <1>1, Ids DEF TypeOK, ScreenTyped, DeviceTyped, Screens, Bases, SaveInv, HeldSave
<1>3. NoRow.state = "none" /\ NoRow.save = 0 /\ NoDraft.key = 0 /\ NoWorking.of.key = 0
  BY DEF NoRow, NoDraft, NoWorking, NoBase
<1>4. r \in Revs /\ r \in RowIds /\ r # Create /\ Create \in RowIds /\ Revs \subseteq RowIds
  BY <1>2, Ids DEF RevIds, Create
<1>5. rows'[r] = NoRow /\ \A q \in RowIds : q # r => rows'[q] = rows[q]
  BY <1>1, <1>2, <1>4
<1>6. /\ screen'.step = "opening" /\ screen'.of = screen.of /\ ~screen'.conflict.on
      /\ screen'.open = screen.open
  BY <1>1, <1>2 DEF Screens, NoConflict
<1>7. NewestSaveKept' /\ StoredSaves'
  BY <1>1, <1>3, <1>4, <1>5 DEF SaveInv, NewestSaveKept, StoredSaves
<1>8. ~Queued' /\ KeySources' \subseteq KeySources \cup {0} /\ rows'[Create] = rows[Create] /\ Sent' = Sent
      /\ \A q \in RowIds : InFlight(q)' = InFlight(q)
  BY <1>1, <1>3, <1>4, <1>5, <1>6 DEF Queued, KeySources, Sent, InFlight
<1>9. budget.saves \in Nat
  BY DEF TypeOK, Budgets
<1>10. KeyBounds'
  BY <1>1, <1>8, <1>9 DEF SaveInv, KeyBounds
<1>11. FlightSaves'
  <2>1. ASSUME NEW q \in Revs, InFlight(q)
        PROVE  rows'[q].state # "none" /\ SameSave(rows'[q], pass.items[q])
    BY <1>1, <1>4, <1>5, <2>1 DEF SaveInv, FlightSaves
  <2>2. InFlight(Create) => Sent.key # 0
    BY <1>9 DEF SaveInv, KeyBounds, InFlight, Sent
  <2>3. InFlight(Create) => IF SameRow(rows'[Create], Sent) THEN SameSave(rows'[Create], Sent)
                            ELSE keys = {} => Sent.key \notin KeySources'
    BY <1>8, <2>2 DEF SaveInv, FlightSaves
  <2> QED BY <1>1, <1>4, <1>8, <2>1, <2>3 DEF FlightSaves
<1>12. HeldSave'
  BY <1>1, <1>6 DEF SaveInv, HeldSave
<1>13. UnmadeCreate'
  BY <1>1, <1>8 DEF SaveInv, UnmadeCreate
<1>14. DraftKept'
  <2>1. ~Drafting
    BY <1>1, <1>2 DEF SaveInv, DraftKept, DraftedAs
  <2>2. Superseding' = Superseding /\ Drafting' = Drafting
    BY <1>1, <1>4, <1>8 DEF Superseding, Drafting
  <2> QED BY <2>1, <2>2 DEF DraftKept, Drafting
<1> QED BY <1>7, <1>10, <1>11, <1>12, <1>13, <1>14 DEF SaveInv

(* A create removed while a pass holds it leaves nothing behind that has its key. *)
LEMMA RemoveLocalSave == ASSUME TypeOK, TypeOK', SaveInv, RemoveLocal PROVE SaveInv'
<1>1. /\ UNCHANGED <<keys, pass, rec, budget, stored>> /\ rows[Create].state = "failed"
      /\ rows' = [rows EXCEPT ![Create] = NoRow]
      /\ draft' = NoDraft /\ working' = NoWorking /\ newest' = 0
      /\ screen' = NoScreen /\ load' = NoLoad
  BY DEF RemoveLocal, server
<1>2. /\ NoRow.state = "none" /\ NoRow.save = 0 /\ NoDraft.key = 0 /\ NoWorking.of.key = 0
      /\ NoScreen.step = "none" /\ ~NoScreen.conflict.on /\ NoScreen.of.key = 0 /\ NoLoad.draft.key = 0
  BY DEF NoRow, NoDraft, NoWorking, NoBase, NoScreen, NoConflict, NoLoad
<1>3. Create \in RowIds /\ Create \notin Revs /\ rows \in [RowIds -> Rows]
  BY Ids DEF Create, TypeOK, DeviceTyped
<1>4. rows'[Create] = NoRow /\ \A q \in RowIds : q # Create => rows'[q] = rows[q]
  BY <1>1, <1>3
<1>5. NewestSaveKept' /\ StoredSaves'
  BY <1>1, <1>2, <1>4 DEF SaveInv, NewestSaveKept, StoredSaves
<1>6. ~Queued' /\ KeySources' = {0} /\ Sent' = Sent /\ \A q \in RowIds : InFlight(q)' = InFlight(q)
  BY <1>1, <1>2 DEF Queued, KeySources, Sent, InFlight
<1>7. budget.saves \in Nat
  BY DEF TypeOK, Budgets
<1>8. KeyBounds'
  BY <1>1, <1>2, <1>4, <1>6, <1>7 DEF SaveInv, KeyBounds
<1>9. FlightSaves'
  <2>1. InFlight(Create) => Sent.key # 0
    BY <1>7 DEF SaveInv, KeyBounds, InFlight, Sent
  <2>2. ~SameRow(rows'[Create], Sent)
    BY <1>2, <1>4 DEF SameRow
  <2> QED BY <1>1, <1>3, <1>4, <1>6, <2>1, <2>2, Ids DEF SaveInv, FlightSaves
<1>10. HeldSave'
  BY <1>1, <1>2 DEF HeldSave
<1>11. UnmadeCreate'
  BY <1>1, <1>2, <1>4, <1>6 DEF SaveInv, UnmadeCreate
<1>12. DraftKept'
  <2>1. ~Superseding
    BY <1>1 DEF SaveInv, DraftKept
  <2>2. ~Superseding'
    BY <1>1, <1>2, <1>4, <1>6, <2>1 DEF Superseding, SameRow
  <2> QED BY <1>2, <1>4, <2>2 DEF DraftKept, Drafting, Active
<1> QED BY <1>5, <1>8, <1>9, <1>10, <1>11, <1>12 DEF SaveInv

(* The steps of a pass leave the screen and the drafts. *)
LEMMA DraftedSame ==
    ASSUME UNCHANGED <<screen, load, draft, working>>
    PROVE  /\ KeySources' = KeySources /\ Queued' = Queued
           /\ \A k : DraftedAs(k) => DraftedAs(k)'
BY DEF KeySources, Queued, DraftedAs

LEMMA PassStartSave == ASSUME TypeOK, TypeOK', SaveInv, PassStart PROVE SaveInv'
<1> DEFINE items == [r \in RowIds |-> IF Active(rows[r]) THEN rows[r] ELSE NoRow]
           todo == {r \in RowIds : rows[r].state \in {"pending", "failed"}}
<1>1. /\ UNCHANGED <<keys, rows, draft, working, screen, load, rec, budget, newest, stored>>
      /\ ~rec.on
      /\ pass' = [NoPass EXCEPT !.phase = "send", !.todo = todo, !.items = items]
  BY DEF PassStart, server, device, history
<1>2. pass'.phase = "send" /\ pass'.items = items
  BY <1>1 DEF NoPass
<1>3. \A r \in RowIds : pass'.items[r] = IF Active(rows[r]) THEN rows[r] ELSE NoRow
  BY <1>2
<1> HIDE DEF items, todo
<1>4. NoRow.state = "none" /\ Create \in RowIds /\ Revs \subseteq RowIds
  BY Ids DEF NoRow
<1>5. /\ KeySources' = KeySources /\ Queued' = Queued
      /\ \A k : DraftedAs(k) => DraftedAs(k)'
  BY <1>1, DraftedSame
<1>6. NewestSaveKept'
  BY <1>1 DEF SaveInv, NewestSaveKept
<1>7. StoredSaves'
  BY <1>1, <1>3, <1>4 DEF SaveInv, StoredSaves, Active
<1>8. Sent' = IF Active(rows[Create]) THEN rows[Create] ELSE NoRow
  BY <1>3, <1>4 DEF Sent
<1>9. KeyBounds'
  BY <1>1, <1>4, <1>5, <1>8 DEF SaveInv, KeyBounds, Active
<1>10. \A r \in RowIds : InFlight(r)' => Active(rows[r]) /\ pass'.items[r] = rows[r] /\ rows[r].gen \in Nat
  BY <1>3, <1>4 DEF InFlight, TypeOK, DeviceTyped, Rows
<1>11. FlightSaves'
  BY <1>1, <1>4, <1>8, <1>10 DEF FlightSaves, SameSave, SameRow, Active
<1>12. HeldSave'
  BY <1>1 DEF SaveInv, HeldSave, KeptRow
<1>13. UnmadeCreate'
  BY <1>1, <1>4, <1>5, <1>8 DEF SaveInv, UnmadeCreate, Active
<1>14. ~Superseding'
  BY <1>1, <1>2, <1>4, <1>8, <1>10 DEF Superseding
<1>15. Drafting' => Drafting
  BY <1>1, <1>14 DEF Drafting
<1>16. DraftKept'
  BY <1>1, <1>5, <1>14, <1>15 DEF SaveInv, DraftKept
<1> QED BY <1>6, <1>7, <1>9, <1>11, <1>12, <1>13, <1>16 DEF SaveInv

LEMMA PassEndSave == ASSUME TypeOK, TypeOK', SaveInv, PassEnd PROVE SaveInv'
<1>1. /\ UNCHANGED <<keys, rows, draft, working, screen, load, rec, budget, newest, stored>>
      /\ pass' = NoPass
  BY DEF PassEnd, server, device, history
<1>2. pass'.phase = "idle" /\ \A r \in RowIds : pass'.items[r].state = "none"
  BY <1>1, NoPassTyped DEF NoPass
<1>3. Create \in RowIds /\ Revs \subseteq RowIds
  BY Ids
<1>4. /\ KeySources' = KeySources /\ Queued' = Queued
      /\ \A k : DraftedAs(k) => DraftedAs(k)'
  BY <1>1, DraftedSame
<1>5. NewestSaveKept' /\ StoredSaves'
  BY <1>1, <1>2 DEF SaveInv, NewestSaveKept, StoredSaves
<1>6. Sent'.state = "none" /\ ~Superseding' /\ \A r : ~InFlight(r)'
  BY <1>2, <1>3 DEF Sent, Superseding, InFlight
<1>7. KeyBounds' /\ FlightSaves'
  BY <1>1, <1>4, <1>6 DEF SaveInv, KeyBounds, FlightSaves
<1>8. HeldSave'
  BY <1>1 DEF SaveInv, HeldSave, KeptRow
<1>9. UnmadeCreate'
  BY <1>1, <1>4, <1>6 DEF SaveInv, UnmadeCreate
<1>10. Drafting' => Drafting
  BY <1>1, <1>6 DEF Drafting
<1>11. DraftKept'
  BY <1>1, <1>4, <1>6, <1>10 DEF SaveInv, DraftKept
<1> QED BY <1>5, <1>7, <1>8, <1>9, <1>11 DEF SaveInv

(* An answer keeps the save, the key and the generation of the row it is for; a create that
   is acknowledged leaves a key in Office. *)
LEMMA AnswerSaves ==
    ASSUME NEW m \in Rows, NEW r \in RowIds
    PROVE  LET a == Handle(m, r)
           IN  /\ a.row.state \in {"conflict", "synced"}
               /\ a.row.gen = m.gen /\ a.row.save = m.save /\ a.row.key = m.key
               /\ keys \subseteq a.keys
               /\ r = Create /\ a.row.state = "synced" => a.keys # {}
<1>1. ASSUME NEW srv
      PROVE  LET a == Refused(m, srv)
             IN  /\ a.row.state = "conflict" /\ a.row.gen = m.gen /\ a.row.save = m.save
                 /\ a.row.key = m.key /\ a.keys = keys
  BY DEF Refused, Rows
<1>2. ASSUME NEW revs, NEW ks, NEW q
      PROVE  LET a == Done(m, revs, ks, q)
             IN  /\ a.row.state = "synced" /\ a.row.gen = m.gen /\ a.row.save = m.save
                 /\ a.row.key = m.key /\ a.keys = ks
  BY DEF Done, Rows
<1>3. CASE r # Create
  <2>1. Handle(m, r) = HandleUpdate(m, r)
    BY <1>3 DEF Handle
  <2>2. \/ \E srv : HandleUpdate(m, r) = Refused(m, srv)
        \/ \E revs : HandleUpdate(m, r) = Done(m, revs, keys, r)
    BY DEF HandleUpdate
  <2> QED BY <1>1, <1>2, <1>3, <2>1, <2>2
<1>4. CASE r = Create
  <2> DEFINE made == {k \in keys : k.of = Create /\ k.key = m.key}
  <2>1. Handle(m, r) = HandleCreate(m)
    BY <1>4 DEF Handle
  <2>2. \/ made # {} /\ \E q : HandleCreate(m) = Done(m, office, keys, q)
        \/ \E srv : HandleCreate(m) = Refused(m, srv)
        \/ \E revs, q, k : HandleCreate(m) = Done(m, revs, keys \cup {k}, q)
    BY DEF HandleCreate
  <2>3. made # {} => keys # {}
    OBVIOUS
  <2> HIDE DEF made
  <2>4. CASE made # {} /\ \E q : HandleCreate(m) = Done(m, office, keys, q)
    <3>1. PICK q : HandleCreate(m) = Done(m, office, keys, q)
      BY <2>4
    <3> QED BY <1>2, <2>1, <2>3, <2>4, <3>1
  <2>5. CASE \E srv : HandleCreate(m) = Refused(m, srv)
    <3>1. PICK srv : HandleCreate(m) = Refused(m, srv)
      BY <2>5
    <3> QED BY <1>1, <2>1, <3>1
  <2>6. CASE \E revs, q, k : HandleCreate(m) = Done(m, revs, keys \cup {k}, q)
    <3>1. PICK revs, q, k : HandleCreate(m) = Done(m, revs, keys \cup {k}, q)
      BY <2>6
    <3> QED BY <1>2, <2>1, <3>1
  <2> QED BY <2>2, <2>4, <2>5, <2>6
<1> QED BY <1>3, <1>4

LEMMA PassSendSave == ASSUME TypeOK, TypeOK', NamedInv, SaveInv, NEW r \in RowIds, PassSend(r) PROVE SaveInv'
<1> DEFINE m == pass.items[r]
<1>1. /\ UNCHANGED <<rows, draft, working, screen, load, rec, newest>>
      /\ pass.phase = "send" /\ r \in pass.todo
      /\ budget' = budget \/ Spend("faults")
  BY DEF PassSend, device
<1>2. m \in Rows /\ m.state # "none" /\ pass \in Passes /\ pass.items \in [RowIds -> Rows]
  BY <1>1 DEF TypeOK, WorkTyped, Passes, NamedInv, NamedRows
<1>3. budget'.saves = budget.saves /\ budget.saves \in Nat
  <2>1. budget' = budget => budget'.saves = budget.saves /\ budget.saves \in Nat
    BY DEF TypeOK, Budgets
  <2> QED BY <1>1, <2>1, SpendSaves DEF TypeOK
<1>4. Answered(r, m) => /\ keys' = Handle(m, r).keys
                        /\ stored' = IF Handle(m, r).row.state = "synced" THEN stored \cup {m.save} ELSE stored
  BY DEF Answered
<1>5. PICK row \in {Handle(m, r).row, [m EXCEPT !.state = "pending"], [m EXCEPT !.state = "failed"]} :
         /\ pass' = [pass EXCEPT !.todo = @ \ {r}, !.items[r] = row]
         /\ (row = Handle(m, r).row /\ Answered(r, m)) \/ row.state \in {"pending", "failed"}
         /\ Answered(r, m) \/ UNCHANGED <<keys, stored>>
  <2>1. /\ [m EXCEPT !.state = "pending"].state = "pending" /\ [m EXCEPT !.state = "failed"].state = "failed"
    BY <1>2 DEF Rows
  <2>2. CASE Answered(r, m) /\ pass' = [pass EXCEPT !.todo = @ \ {r}, !.items[r] = Handle(@, r).row]
    <3>1. pass' = [pass EXCEPT !.todo = @ \ {r}, !.items[r] = Handle(m, r).row]
      BY <1>2, <2>2 DEF Passes
    <3> QED BY <2>2, <3>1
  <2>3. CASE Answered(r, m) /\ pass' = [pass EXCEPT !.todo = @ \ {r}, !.items[r].state = "pending"]
    <3>1. pass' = [pass EXCEPT !.todo = @ \ {r}, !.items[r] = [m EXCEPT !.state = "pending"]]
      BY <1>2, <2>3 DEF Passes
    <3> QED BY <2>1, <2>3, <3>1
  <2>4. CASE /\ pass' = [pass EXCEPT !.todo = @ \ {r}, !.items[r].state = "failed"]
             /\ UNCHANGED <<keys, stored>>
    <3>1. pass' = [pass EXCEPT !.todo = @ \ {r}, !.items[r] = [m EXCEPT !.state = "failed"]]
      BY <1>2, <2>4 DEF Passes
    <3> QED BY <2>1, <2>4, <3>1
  <2> QED BY <2>2, <2>3, <2>4 DEF PassSend, server
<1>6. /\ pass'.phase = "send" /\ pass'.acks = pass.acks /\ pass'.sup = pass.sup
      /\ pass'.items = [pass.items EXCEPT ![r] = row]
  BY <1>1, <1>2, <1>5 DEF Passes
<1>7. pass'.items[r] = row /\ \A q \in RowIds : q # r => pass'.items[q] = pass.items[q]
  BY <1>2, <1>6
<1>8. row.state # "none" /\ row.gen = m.gen /\ row.save = m.save /\ row.key = m.key
  BY <1>2, <1>5, AnswerSaves DEF Rows
<1>9. /\ keys \subseteq keys' /\ stored \subseteq stored'
      /\ row.state = "synced" => row.save \in stored' /\ (r = Create => keys' # {})
  BY <1>2, <1>4, <1>5, <1>8, AnswerSaves
<1> HIDE DEF m
<1>10. /\ KeySources' = KeySources /\ Queued' = Queued
       /\ \A k : DraftedAs(k) => DraftedAs(k)'
  BY <1>1, DraftedSame
<1>11. NewestSaveKept'
  BY <1>1, <1>9 DEF SaveInv, NewestSaveKept
<1>12. StoredSaves'
  BY <1>1, <1>6, <1>7, <1>9 DEF SaveInv, StoredSaves
<1>13. Create \in RowIds /\ Revs \subseteq RowIds
  BY Ids
<1>14. \A q \in RowIds : /\ InFlight(q)' = InFlight(q)
                         /\ pass'.items[q].gen = pass.items[q].gen /\ pass'.items[q].key = pass.items[q].key
                         /\ pass'.items[q].save = pass.items[q].save
                         /\ (pass'.items[q].state = "none") = (pass.items[q].state = "none")
  BY <1>1, <1>2, <1>6, <1>7, <1>8 DEF InFlight, m
<1>15. /\ Sent'.gen = Sent.gen /\ Sent'.key = Sent.key /\ Sent'.save = Sent.save
       /\ (Sent'.state = "none") = (Sent.state = "none")
       /\ Sent'.state = "synced" => keys' # {} \/ Sent.state = "synced"
  BY <1>7, <1>9, <1>13, <1>14 DEF Sent
<1>16. KeyBounds'
  BY <1>1, <1>3, <1>10, <1>15 DEF SaveInv, KeyBounds
<1>17. FlightSaves'
  BY <1>1, <1>9, <1>10, <1>13, <1>14, <1>15 DEF SaveInv, FlightSaves, SameSave, SameRow
<1>18. HeldSave'
  BY <1>1 DEF SaveInv, HeldSave, KeptRow
<1>19. UnmadeCreate'
  BY <1>1, <1>9, <1>10, <1>15 DEF SaveInv, UnmadeCreate
<1>20. Superseding' = Superseding
  BY <1>1, <1>6, <1>13, <1>14, <1>15 DEF Superseding, SameRow
<1>21. DraftKept'
  BY <1>1, <1>9, <1>10, <1>15, <1>20 DEF SaveInv, DraftKept, Drafting
<1> QED BY <1>11, <1>12, <1>16, <1>17, <1>18, <1>19, <1>21 DEF SaveInv

(* What a pass writes back is the row as it read it, unless the row has been saved since. *)
LEMMA WritebackSave == ASSUME TypeOK, TypeOK', NamedInv, SaveInv, PassWriteback PROVE SaveInv'
<1> DEFINE items == pass.items
           next == [r \in RowIds |-> IF items[r].state # "none" /\ SameRow(rows[r], items[r])
                                        /\ rows[r].gen = items[r].gen
                                     THEN items[r] ELSE rows[r]]
           acks == {r \in RowIds : items[r].state = "synced"}
           sup == {r \in acks : SameRow(next[r], items[r]) /\ next[r].gen # items[r].gen}
<1>1. /\ UNCHANGED <<keys, draft, working, screen, load, rec, budget, newest, stored>>
      /\ pass.phase = "send" /\ rows' = next
      /\ pass' = [pass EXCEPT !.phase = "ack", !.acks = acks, !.sup = sup]
  BY DEF PassWriteback, server, history
<1>2. /\ pass'.phase = "ack" /\ pass'.items = pass.items /\ pass'.acks = acks /\ pass'.sup = sup
  BY <1>1 DEF TypeOK, WorkTyped, Passes
<1>3. \A r \in RowIds : \/ rows'[r] = rows[r]
                        \/ /\ rows'[r] = items[r] /\ InFlight(r) /\ SameRow(rows[r], items[r])
                           /\ rows[r].gen = items[r].gen
  BY <1>1 DEF InFlight
<1>4. Create \in RowIds /\ Revs \subseteq RowIds /\ RowIds = {Create} \cup Revs
  BY Ids DEF RowIds
<1>5. ASSUME NEW r \in RowIds
      PROVE  /\ rows'[r].save = rows[r].save /\ rows'[r].gen = rows[r].gen
             /\ (rows'[r].state # "none" /\ rows[r].state # "none") \/ rows'[r] = rows[r]
  <2>1. CASE rows'[r] = rows[r]
    BY <2>1
  <2>2. CASE /\ rows'[r] = items[r] /\ InFlight(r) /\ SameRow(rows[r], items[r])
             /\ rows[r].gen = items[r].gen
    <3>1. SameSave(rows[r], items[r])
      BY <1>4, <2>2 DEF SaveInv, FlightSaves, Sent
    <3> QED BY <2>2, <3>1 DEF SameSave, SameRow, InFlight
  <2> QED BY <1>3, <2>1, <2>2
<1>6. /\ KeySources' = KeySources /\ Queued' = Queued
      /\ \A k : DraftedAs(k) => DraftedAs(k)'
  BY <1>1, DraftedSame
<1>7. Sent' = Sent
  BY <1>2 DEF Sent
<1>8. rows'[Create].key = rows[Create].key
  BY <1>3, <1>4 DEF SameRow
<1>9. Create \in acks \cap sup => Superseding /\ rows'[Create] = rows[Create]
  <2>1. Create \in acks \cap sup => SameRow(rows'[Create], Sent) /\ rows'[Create].gen # Sent.gen /\ Sent.state # "none"
    BY <1>1, <1>4 DEF Sent
  <2>2. SameRow(rows'[Create], Sent) /\ rows'[Create].gen # Sent.gen => rows'[Create] = rows[Create]
    BY <1>3, <1>4 DEF Sent
  <2> QED BY <1>1, <2>1, <2>2 DEF Superseding, InFlight, Sent
<1>10. \A r \in RowIds : rows'[r].state = "synced" => rows'[r].save \in stored
  BY <1>3 DEF SaveInv, StoredSaves
<1> HIDE DEF next, sup, acks
<1>11. NewestSaveKept'
  <2>1. CASE newest \in stored
    BY <1>1, <2>1 DEF NewestSaveKept
  <2>2. CASE \E r \in RowIds : Active(rows[r]) /\ rows[r].save = newest
    <3>1. PICK r \in RowIds : Active(rows[r]) /\ rows[r].save = newest
      BY <2>2
    <3>2. rows'[r].save = newest /\ rows'[r].state # "none"
      BY <1>5, <3>1 DEF Active
    <3>3. rows'[r].state \in States
      BY DEF TypeOK, DeviceTyped, Rows
    <3>4. CASE rows'[r].state = "synced"
      BY <1>1, <1>10, <3>2, <3>4 DEF NewestSaveKept
    <3>5. CASE rows'[r].state # "synced"
      BY <1>1, <3>2, <3>3, <3>5 DEF NewestSaveKept, Active, States
    <3> QED BY <3>4, <3>5
  <2> QED BY <2>1, <2>2 DEF SaveInv, NewestSaveKept
<1>12. StoredSaves'
  <2>1. ~rec.on /\ rec.todo = {}
    BY <1>1 DEF SaveInv, StoredSaves
  <2> QED BY <1>1, <1>2, <1>10, <2>1 DEF SaveInv, StoredSaves
<1>13. rows'[Create].state # "none" => rows[Create].state # "none"
  BY <1>4, <1>5
<1>14. KeyBounds'
  BY <1>1, <1>6, <1>7, <1>8, <1>13 DEF SaveInv, KeyBounds
<1>15. FlightSaves'
  BY <1>2 DEF FlightSaves, InFlight
<1>16. HeldSave'
  <2>1. screen.step = "keep" => screen.of.rev \in RowIds
    BY Ids DEF TypeOK, ScreenTyped, Screens, Bases
  <2> QED BY <1>1, <1>5, <2>1 DEF SaveInv, HeldSave, KeptRow
<1>17. keys = {} => rows'[Create].state # "synced"
  BY <1>3, <1>4 DEF SaveInv, UnmadeCreate, Sent
<1>18. UnmadeCreate'
  BY <1>1, <1>6, <1>7, <1>17 DEF SaveInv, UnmadeCreate
<1>19. DraftKept'
  <2>1. Superseding' => Superseding /\ rows'[Create] = rows[Create]
    BY <1>2, <1>9 DEF Superseding, InFlight
  <2>2. keys = {} /\ Active(rows'[Create]) => Active(rows[Create])
    <3>1. rows[Create].state \in States
      BY <1>4 DEF TypeOK, DeviceTyped, Rows
    <3> QED BY <1>13, <3>1 DEF SaveInv, UnmadeCreate, Active, States
  <2>3. Drafting' => Drafting
    BY <1>1, <2>1, <2>2 DEF Drafting
  <2> QED BY <1>1, <1>6, <1>7, <1>8, <2>1, <2>3 DEF SaveInv, DraftKept
<1> QED BY <1>11, <1>12, <1>14, <1>15, <1>16, <1>18, <1>19 DEF SaveInv

(* The newer save of a create that is acknowledged becomes the row of its revision. *)
LEMMA ConvertSave ==
    ASSUME TypeOK, TypeOK', NamedInv, SaveInv, AckDrafts(Create), Create \in pass.sup
    PROVE  SaveInv'
<1> DEFINE m == Sent
           row == ConvertedRow(m)
<1>1. /\ UNCHANGED <<keys, draft, screen, load, rec, budget, newest, stored>>
      /\ pass.phase = "ack" /\ Create \in pass.acks /\ ConvertCreate(m)
      /\ pass' = [pass EXCEPT !.acks = @ \ {Create}, !.half = @ \ {Create}]
  BY DEF AckDrafts, Sent, server, history
<1>2. Superseding /\ Drafting
  BY <1>1 DEF Superseding, Drafting
<1>3. /\ rows[Create].state = "pending" /\ rows[Create].key = m.key /\ rows[Create].save = newest
      /\ DraftedAs(rows[Create].key)
  BY <1>2 DEF SaveInv, DraftKept
<1>4. m.state = "synced" /\ m.rev \in Listed
  BY <1>1, Ids DEF NamedInv, NamedRows, RowNamed, Sent
<1>5. m.rev \in Revs /\ m.rev # Create /\ Create \in RowIds /\ Revs \subseteq RowIds
  BY <1>4, Ids DEF Listed, ListedBy, Create
<1>6. /\ rows' = [rows EXCEPT ![m.rev] = row, ![Create] = NoRow] /\ working' = RebasedWorking(m)
  BY <1>1, <1>3 DEF ConvertCreate, SameRow
<1>7. rows \in [RowIds -> Rows] /\ working \in Workings
  BY DEF TypeOK, DeviceTyped
<1>8. row.state = "pending" /\ row.save = newest
  BY <1>3, <1>5, <1>7 DEF ConvertedRow, Rows
<1> HIDE DEF row, m
<1>9. /\ rows'[m.rev] = row /\ rows'[Create] = NoRow
      /\ \A q \in RowIds : q # m.rev /\ q # Create => rows'[q] = rows[q]
  BY <1>5, <1>6, <1>7
<1>10. pass'.phase = "ack" /\ pass'.items = pass.items /\ Create \notin pass'.acks
  BY <1>1 DEF TypeOK, WorkTyped, Passes
<1>11. working'.of.key \in {working.of.key, 0}
  <2>1. [working EXCEPT !.of = [NoBase EXCEPT !.rev = m.rev, !.tok = m.srv.tok, !.ed = FALSE]].of.key = 0
    BY <1>7 DEF Workings, NoBase
  <2> QED BY <1>6, <2>1 DEF RebasedWorking
<1>12. NewestSaveKept'
  BY <1>1, <1>5, <1>8, <1>9 DEF NewestSaveKept, Active
<1>13. ~rec.on /\ rec.todo = {} /\ NoRow.state = "none"
  BY <1>1 DEF SaveInv, StoredSaves, NoRow
<1>14. StoredSaves'
  BY <1>1, <1>8, <1>9, <1>10, <1>13 DEF SaveInv, StoredSaves
<1>15. KeySources' \subseteq KeySources \cup {0} /\ Queued' = Queued /\ Sent' = Sent
  BY <1>1, <1>10, <1>11 DEF KeySources, Queued, Sent
<1>16. budget.saves \in Nat
  BY DEF TypeOK, Budgets
<1>17. KeyBounds'
  BY <1>1, <1>9, <1>13, <1>15, <1>16 DEF SaveInv, KeyBounds
<1>18. FlightSaves'
  BY <1>10 DEF FlightSaves, InFlight
<1>19. screen.step # "keep"
  BY <1>3 DEF DraftedAs, SaveInv, HeldSave
<1>20. HeldSave'
  BY <1>1, <1>19 DEF SaveInv, HeldSave
<1>21. keys # {}
  BY <1>4 DEF SaveInv, UnmadeCreate, m
<1>22. UnmadeCreate'
  BY <1>1, <1>21 DEF UnmadeCreate
<1>23. ~Superseding' /\ ~Drafting'
  BY <1>1, <1>10, <1>21 DEF Superseding, Drafting, InFlight
<1>24. DraftKept'
  BY <1>23 DEF DraftKept
<1> QED BY <1>12, <1>14, <1>17, <1>18, <1>20, <1>22, <1>24 DEF SaveInv

LEMMA AckDraftsSave ==
    ASSUME TypeOK, TypeOK', NamedInv, SaveInv, NEW r \in RowIds, AckDrafts(r),
           ~(r = Create /\ r \in pass.sup)
    PROVE  SaveInv'
<1> DEFINE m == pass.items[r]
           row == RebaseRow(rows[r], m.srv)
<1>1. /\ UNCHANGED <<keys, screen, load, rec, budget, newest, stored>>
      /\ pass.phase = "ack" /\ r \in pass.acks
      /\ pass' = [pass EXCEPT !.acks = @ \ {r}, !.half = @ \ {r}]
      /\ rows' = rows \/ (r # Create /\ rows' = [rows EXCEPT ![r] = row])
      /\ draft' = draft \/ (r = Create /\ draft' = NoDraft)
      /\ working' \in {working, NoWorking}
  BY DEF AckDrafts, RetireDraft, RetireWorking, server, history
<1>2. rows \in [RowIds -> Rows]
  BY DEF TypeOK, DeviceTyped
<1>3. row.state = rows[r].state /\ row.gen = rows[r].gen /\ row.save = rows[r].save
  BY <1>2 DEF RebaseRow, Rows
<1> HIDE DEF row
<1>4. /\ rows'[Create] = rows[Create]
      /\ \A q \in RowIds : /\ rows'[q].state = rows[q].state /\ rows'[q].gen = rows[q].gen
                           /\ rows'[q].save = rows[q].save
  BY <1>1, <1>2, <1>3, Ids
<1>5. /\ pass'.phase = "ack" /\ pass'.items = pass.items /\ pass'.sup = pass.sup
      /\ pass'.acks = pass.acks \ {r}
  BY <1>1 DEF TypeOK, WorkTyped, Passes
<1>6. r = Create => keys # {}
  BY <1>1 DEF SaveInv, UnmadeCreate, Sent, NamedInv, NamedRows
<1>7. NoDraft.key = 0 /\ NoWorking.of.key = 0 /\ ~NoWorking.has
  BY DEF NoDraft, NoWorking, NoBase
<1>8. KeySources' \subseteq KeySources \cup {0} /\ Queued' = Queued /\ Sent' = Sent
  BY <1>1, <1>5, <1>7 DEF KeySources, Queued, Sent
<1>9. NewestSaveKept'
  BY <1>1, <1>4 DEF SaveInv, NewestSaveKept, Active
<1>10. StoredSaves'
  <2>1. ~rec.on /\ rec.todo = {}
    BY <1>1 DEF SaveInv, StoredSaves
  <2> QED BY <1>1, <1>4, <1>5, <2>1 DEF SaveInv, StoredSaves
<1>11. budget.saves \in Nat
  BY DEF TypeOK, Budgets
<1>12. KeyBounds'
  BY <1>1, <1>4, <1>8, <1>11 DEF SaveInv, KeyBounds
<1>13. FlightSaves'
  BY <1>5 DEF FlightSaves, InFlight
<1>14. HeldSave'
  <2>1. screen.of.rev \in RowIds
    BY Ids DEF TypeOK, ScreenTyped, Screens, Bases
  <2> QED BY <1>1, <1>4, <2>1 DEF SaveInv, HeldSave, KeptRow
<1>15. UnmadeCreate'
  BY <1>1, <1>4, <1>6, <1>8 DEF SaveInv, UnmadeCreate
<1>16. DraftKept'
  <2>1. Superseding' => Superseding /\ r # Create
    BY <1>1, <1>5 DEF Superseding, InFlight
  <2>2. Drafting' => Drafting /\ r # Create
    BY <1>1, <1>4, <1>6, <2>1 DEF Drafting
  <2>3. \A k : DraftedAs(k) /\ r # Create => DraftedAs(k)'
    BY <1>1, <1>7 DEF DraftedAs
  <2> QED BY <1>1, <1>4, <1>8, <2>1, <2>2, <2>3 DEF SaveInv, DraftKept
<1> QED BY <1>9, <1>10, <1>12, <1>13, <1>14, <1>15, <1>16 DEF SaveInv

(* A crash keeps what is on the device; the recovery starts from the rows Office has stored. *)
LEMMA CrashSave == ASSUME TypeOK, TypeOK', SaveInv, Crash PROVE SaveInv'
<1> DEFINE todo == {r \in RowIds : rows[r].state = "synced"}
<1>1. /\ UNCHANGED <<keys, rows, draft, working, newest, stored>> /\ Spend("faults")
      /\ ~(screen.step = "clear" /\ screen.of.rev = 0)
      /\ screen' = NoScreen /\ load' = NoLoad /\ pass' = NoPass
      /\ rec' = [NoRec EXCEPT !.on = TRUE, !.rows = rows, !.todo = todo]
  BY DEF Crash, server, device, history
<1>2. budget'.saves = budget.saves /\ budget.saves \in Nat
  BY <1>1, SpendSaves DEF TypeOK
<1>3. rec'.on /\ rec'.todo = todo
  BY <1>1 DEF NoRec
<1>4. /\ pass'.phase = "idle" /\ \A r \in RowIds : pass'.items[r].state = "none"
      /\ NoScreen.step = "none" /\ NoScreen.of.key = 0 /\ ~NoScreen.conflict.on
      /\ NoLoad.draft.key = 0 /\ ~NoLoad.on
  BY <1>1, NoPassTyped DEF NoPass, NoScreen, NoBase, NoConflict, NoLoad, NoDraft
<1>5. Create \in RowIds /\ Revs \subseteq RowIds
  BY Ids
<1>6. Sent'.state = "none" /\ ~Superseding' /\ \A r : ~InFlight(r)'
  BY <1>4, <1>5 DEF Sent, Superseding, InFlight
<1>7. KeySources' \subseteq KeySources \cup {0} /\ ~Queued'
  BY <1>1, <1>4 DEF KeySources, Queued
<1>8. NewestSaveKept' /\ StoredSaves'
  BY <1>1, <1>3, <1>4 DEF SaveInv, NewestSaveKept, StoredSaves
<1>9. KeyBounds' /\ FlightSaves'
  BY <1>1, <1>2, <1>6, <1>7 DEF SaveInv, KeyBounds, FlightSaves
<1>10. HeldSave'
  BY <1>1, <1>4 DEF HeldSave
<1>11. UnmadeCreate'
  BY <1>1, <1>3, <1>6, <1>7 DEF SaveInv, UnmadeCreate
<1>12. DraftKept'
  <2>1. Drafting' => Drafting
    BY <1>1, <1>6 DEF Drafting
  <2>2. ASSUME NEW k, DraftedAs(k)  PROVE DraftedAs(k)'
    <3>1. screen.step # "clear"
      BY <1>1, <2>2 DEF DraftedAs
    <3> QED BY <1>1, <1>4, <2>2, <3>1 DEF DraftedAs
  <2> QED BY <1>1, <1>6, <2>1, <2>2 DEF SaveInv, DraftKept
<1> QED BY <1>8, <1>9, <1>10, <1>11, <1>12 DEF SaveInv

LEMMA RemoveSave == ASSUME TypeOK, TypeOK', SaveInv, NEW r \in RowIds, RecoverRemove(r) PROVE SaveInv'
<1>1. /\ UNCHANGED <<keys, draft, working, screen, load, pass, budget, newest, stored>>
      /\ rec.on /\ r \in rec.todo
      /\ rows' = rows \/ rows' = [rows EXCEPT ![r] = NoRow]
      /\ rec' = [rec EXCEPT !.todo = @ \ {r}, !.half = @ \ {r}]
  <2>1. rows \in [RowIds -> Rows]
    BY DEF TypeOK, DeviceTyped
  <2>2. rows' = [rows EXCEPT ![r] = IF SameRow(rows[r], rec.rows[r]) THEN NoRow ELSE rows[r]]
    BY DEF RecoverRemove
  <2>3. rows' = rows \/ rows' = [rows EXCEPT ![r] = NoRow]
    BY <2>1, <2>2
  <2> QED BY <2>3 DEF RecoverRemove, server, history
<1>2. rec'.on = rec.on /\ rec'.todo = rec.todo \ {r}
  BY <1>1 DEF TypeOK, WorkTyped, Recoveries
<1>3. /\ NoRow.state = "none" /\ NoRow.save = 0 /\ Create \in RowIds /\ Revs \subseteq RowIds
      /\ rows \in [RowIds -> Rows]
  BY Ids DEF NoRow, TypeOK, DeviceTyped
<1>4. \A q \in RowIds : rows'[q] = rows[q] \/ (q = r /\ rows'[q] = NoRow)
  BY <1>1, <1>3
<1>5. pass.phase = "idle" /\ rows[r].save \in stored /\ 0 \in stored
  BY <1>1 DEF SaveInv, StoredSaves
<1>6. /\ KeySources' = KeySources /\ Queued' = Queued
      /\ \A k : DraftedAs(k) => DraftedAs(k)'
  BY <1>1, DraftedSame
<1>7. Sent' = Sent /\ ~Superseding' /\ \A q : ~InFlight(q)'
  BY <1>1, <1>5 DEF Sent, Superseding, InFlight
<1>8. NewestSaveKept'
  BY <1>1, <1>4, <1>5 DEF SaveInv, NewestSaveKept, Active
<1>9. StoredSaves'
  <2>1. \A q \in RowIds : rows'[q].state = "synced" => rows'[q].save \in stored
    BY <1>3, <1>4 DEF SaveInv, StoredSaves
  <2>2. \A q \in rec'.todo : rows'[q].save \in stored
    <3>1. rec'.todo \subseteq RowIds
      BY DEF TypeOK, WorkTyped, Recoveries
    <3>2. \A q \in rec'.todo : rows[q].save \in stored
      BY <1>2 DEF SaveInv, StoredSaves
    <3> QED BY <1>3, <1>4, <1>5, <3>1, <3>2
  <2> QED BY <1>1, <1>2, <1>5, <2>1, <2>2 DEF SaveInv, StoredSaves
<1>10. KeyBounds' /\ FlightSaves'
  BY <1>1, <1>3, <1>4, <1>6, <1>7 DEF SaveInv, KeyBounds, FlightSaves
<1>11. HeldSave'
  <2>1. screen.of.rev \in RowIds
    BY Ids DEF TypeOK, ScreenTyped, Screens, Bases
  <2> QED BY <1>1, <1>2, <1>3, <1>4, <2>1 DEF SaveInv, HeldSave, KeptRow
<1>12. keys = {} => r # Create
  BY <1>1 DEF SaveInv, UnmadeCreate
<1>13. UnmadeCreate'
  BY <1>1, <1>2, <1>3, <1>4, <1>6, <1>7 DEF SaveInv, UnmadeCreate
<1>14. DraftKept'
  <2>1. Drafting' => Drafting /\ rows'[Create] = rows[Create]
    BY <1>1, <1>3, <1>4, <1>7, <1>12 DEF Drafting
  <2> QED BY <1>1, <1>6, <1>7, <2>1 DEF SaveInv, DraftKept
<1> QED BY <1>8, <1>9, <1>10, <1>11, <1>13, <1>14 DEF SaveInv

LEMMA NextSave == ASSUME Windows = {}, IInv, IInv', SaveInv, [Next]_vars PROVE SaveInv'
<1> USE DEF IInv
<1>1. CASE \E r \in Revs : OfficeTransition(r) \/ (\E g \in Groups : OfficeEdit(r, g))
  BY <1>1, OfficeSave
<1>2. CASE \E online \in BOOLEAN : LoadBegin(online)
  BY <1>2, LoadBeginSave
<1>3. CASE LoadEnd
  BY <1>3, LoadEndSave
<1>4. CASE (\E r \in Revs : RefreshLead(r)) \/ (\E p \in pulls : PullEnd(p))
  BY <1>4, PullSave
<1>5. CASE Open \/ Leave \/ Autosave \/ Revert \/ \E g \in Groups, empties \in BOOLEAN : Type(g, empties)
  BY <1>5, EditSave
<1>6. CASE SaveBegin \/ SaveQueue \/ SaveClear
  BY <1>6, SaveBeginSave, SaveQueueSave, SaveClearSave
<1>7. CASE KeepMineBegin \/ UseOfficeBegin \/ UseOfficePreserved \/ NewRevisionKey \/ NewRevisionFails
  BY <1>7, TapSave
<1>8. CASE KeepMineWrite \/ UseOfficeCommit \/ RemoveLocal
  BY <1>8, KeepMineSave, UseOfficeSave, RemoveLocalSave
<1>9. CASE \E lost \in BOOLEAN : NewRevision(lost)
  BY <1>9, NewRevisionSave
<1>10. CASE PassStart \/ PassWriteback \/ PassEnd
  BY <1>10, PassStartSave, WritebackSave, PassEndSave
<1>11. CASE \E r \in RowIds : PassSend(r) \/ AckDetail(r)
  BY <1>11, PassSendSave, AckDetailSave
<1>12. CASE \E r \in RowIds : AckDrafts(r)
  BY <1>12, ConvertSave, AckDraftsSave
<1>13. CASE Crash \/ (\E r \in RowIds : RecoverRemove(r))
  BY <1>13, CrashSave, RemoveSave
<1>14. CASE RecoverEnd \/ \E r \in RowIds : RecoverSettle(r)
  BY <1>14, SettleSave
<1>15. CASE UNCHANGED vars
  <2>1. /\ UNCHANGED <<keys, rows, draft, working, screen, load, pass, rec, budget, newest, stored>>
        /\ budget.saves \in Nat
    BY <1>15 DEF vars, server, device, history, TypeOK, Budgets
  <2>2. FrontStep
    BY <2>1 DEF FrontStep
  <2> QED BY <2>1, <2>2, StillKept
<1> QED BY <1>1, <1>2, <1>3, <1>4, <1>5, <1>6, <1>7, <1>8, <1>9, <1>10, <1>11, <1>12, <1>13, <1>14, <1>15
    DEF Next

(* The newest save the rep has not discarded is stored in Office or still in an unsynced row:
   no pass, late answer, conversion, Keep mine, crash or recovery loses it, as long as the rep
   taps in none of the known windows. *)
THEOREM NewestSaveIsKept ==
    ASSUME Windows = {}  PROVE Spec => []NewestSaveKept
<1> DEFINE Inv == IInv /\ SaveInv
<1>1. Init => Inv
  BY InitInv, InitSave DEF IInv
<1>2. Inv /\ [Next]_vars => Inv'
  <2>1. ASSUME Inv, [Next]_vars  PROVE Inv'
    <3>1. IInv'
      BY <2>1, NextInv
    <3>2. SaveInv'
      BY <2>1, <3>1, NextSave
    <3> QED BY <3>1, <3>2
  <2> QED BY <2>1
<1>3. Inv => NewestSaveKept
  BY DEF SaveInv
<1> QED BY <1>1, <1>2, <1>3, PTL DEF Spec
=============================================================================
