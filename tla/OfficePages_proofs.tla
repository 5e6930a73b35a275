------------------------- MODULE OfficePages_proofs -------------------------
(***************************************************************************)
(* Proofs about the pages of OfficePages, for any bounds. A family at a    *)
(* time: what its tables and pages are typed as, the invariant of the      *)
(* family, one lemma for the steps of each kind, and the theorem about the *)
(* pages together, in which every other family leaves this one alone.      *)
(***************************************************************************)
EXTENDS OfficePages, SequenceTheorems, TLAPS

(***************************************************************************)
(* Estimates: lines typed, saved, refreshed and generated.                 *)
(***************************************************************************)
ReadsOf == [on : BOOLEAN, lines : SUBSET Int, ver : Nat, book : {0, 1}]
Asked == {"", "expand", "checked", "refused", "saved", "refreshed", "repriced"}
EstDialogs == [kind : {"", "assembly", "refresh", "reprice"}, ids : Nat, recalc : BOOLEAN]
Pages == [loaded : BOOLEAN, lines : SUBSET Int, ver : Nat, book : {0, 1}, read : ReadsOf, dialog : EstDialogs,
          asks : Asked, sent : SUBSET Int, ack : ReadsOf, shown : SUBSET Int, behind : BOOLEAN]
Ests == [lines : SUBSET Int, gen : SUBSET Int, repriced : BOOLEAN, ids : Nat, ver : Nat, book : {0, 1},
         quotes : Nat, accepted : BOOLEAN]
EstHists == [acts : Nat, events : Nat, typed : Nat, takeoffs : Nat, resaved : BOOLEAN]
EstTyped == est \in Ests /\ desk \in [Est!Desks -> Pages] /\ log \in EstHists

(* What a takeoff generated is a token below zero; people write the others. *)
Written(lines) == \A l \in lines : l >= 0
WrittenPage(p) == Written(p.lines) /\ Written(p.sent) /\ Written(p.read.lines)
(* The linked lines are of one takeoff; while no save has unlinked any, all generated lines are linked, and with
   none linked nothing generated is anywhere. *)
LinkInv ==
    /\ \A j, k \in est.gen : j = k
    /\ ~log.resaved => /\ \A l \in est.lines : l < 0 => l \in est.gen
                       /\ est.gen = {} => \A d \in Est!Desks : WrittenPage(desk[d])

(* The version a page has, or has under way, stands for lines it has shown. *)
PageSeen(p, e) ==
    /\ p.read.on => p.read.ver <= e.ver /\ (p.read.ver = e.ver => p.read.lines = e.lines)
    /\ p.ver <= e.ver /\ p.lines \subseteq p.shown
    /\ p.loaded /\ p.ver = e.ver /\ ~p.behind => e.lines \subseteq p.shown
    /\ p.asks \in {"saved", "refreshed", "repriced"} => p.ack.ver <= e.ver
    /\ p.asks = "saved" /\ p.ack.ver = e.ver => e.lines \subseteq p.shown
    /\ p.asks = "checked" => p.sent \subseteq p.shown /\ e.lines \subseteq p.shown
SeenInv ==
    /\ \A d \in Est!Desks : PageSeen(desk[d], est)
    /\ \A d, e \in Est!Desks : desk[d].asks = "checked" /\ desk[e].asks = "checked" => d = e

(* What a step of page d that leaves the lines of the estimate alone makes of the page. *)
Turned(d, q) ==
    /\ desk' = [desk EXCEPT ![d] = q]
    /\ est' \in Ests /\ est'.lines = est.lines /\ est'.gen = est.gen /\ est'.ver = est.ver
    /\ log' \in EstHists /\ log'.resaved = log.resaved
    /\ WrittenPage(desk[d]) /\ Written(est.lines) => WrittenPage(q)
    /\ "gap" \notin Without /\ PageSeen(desk[d], est) => PageSeen(q, est)
    /\ q.asks = "checked" => desk[d].asks = "checked" \/ Est!Free

LEMMA BlankTyped == Est!Blank \in Pages /\ Est!NoRead \in ReadsOf /\ Est!NoDialog \in EstDialogs
  BY DEF Est!Blank, Pages, Est!NoRead, Est!NoDialog, ReadsOf, EstDialogs, Asked, Est!None

LEMMA ReadsTyped == ASSUME NEW e \in Ests
                    PROVE  Est!Reads(e) \in ReadsOf /\ Est!Reads(e).lines = e.lines /\ Est!Reads(e).ver = e.ver /\ Est!Reads(e).book = e.book
  BY DEF Ests, Est!Reads, ReadsOf

LEMMA Acted == ASSUME log \in EstHists, Est!Act \/ Est!Event \/ Est!Typed \/ UNCHANGED log
               PROVE  log' \in EstHists /\ log'.resaved = log.resaved
<1> USE DEF EstHists
<1>1. CASE Est!Act
  BY <1>1 DEF Est!Act
<1>2. CASE Est!Event
  BY <1>2 DEF Est!Event
<1>3. CASE Est!Typed
  <2>1. log.acts + 1 \in Nat /\ log.typed + 1 \in Nat
    OBVIOUS
  <2>2. log' = [log EXCEPT !.acts = log.acts + 1, !.typed = log.typed + 1]
    BY <1>3 DEF Est!Typed
  <2> QED
    BY <2>1, <2>2
<1> QED
  BY <1>1, <1>2, <1>3

LEMMA Loading == ASSUME EstTyped, NEW d \in Est!Desks, Est!LoadAnswer(d) PROVE \E q \in Pages : Turned(d, q)
<1> DEFINE p == desk[d]
<1>1. p \in Pages /\ log' \in EstHists /\ log'.resaved = log.resaved /\ UNCHANGED est /\ est \in Ests
  BY Acted DEF Est!LoadAnswer, EstTyped
<1>2. CASE Est!LoadAnswer(d) /\ desk' = [desk EXCEPT ![d] = [p EXCEPT !.read = Est!NoRead]]
  <2> DEFINE q == [p EXCEPT !.read = Est!NoRead]
  <2>1. q \in Pages
    BY <1>1, BlankTyped DEF Pages
  <2>2. PageSeen(p, est) => PageSeen(q, est)
    BY <1>1 DEF Pages, PageSeen, Est!NoRead
  <2>3. WrittenPage(p) => WrittenPage(q)
    BY <1>1 DEF Pages, WrittenPage, Est!NoRead, Written
  <2>4. q.asks = p.asks
    BY <1>1 DEF Pages
  <2> QED
    BY <2>1, <2>2, <2>3, <2>4, <1>1, <1>2 DEF Turned
<1>3. CASE desk' # [desk EXCEPT ![d] = [p EXCEPT !.read = Est!NoRead]]
  <2> DEFINE q == [p EXCEPT !.loaded = TRUE, !.lines = p.read.lines, !.ver = p.read.ver, !.book = p.read.book,
                            !.shown = @ \cup p.read.lines, !.behind = FALSE, !.read = Est!NoRead]
  <2>0. desk' = [desk EXCEPT ![d] = q] /\ p.read.on
    BY <1>3 DEF Est!LoadAnswer, Est!Set
  <2>1. q \in Pages
    BY <1>1, BlankTyped DEF Pages, ReadsOf
  <2>2. PageSeen(p, est) => PageSeen(q, est)
    BY <1>1, <2>0 DEF Pages, PageSeen, Est!NoRead, ReadsOf
  <2>3. WrittenPage(p) => WrittenPage(q)
    BY <1>1 DEF Pages, WrittenPage, Est!NoRead, Written
  <2>4. q.asks = p.asks
    BY <1>1 DEF Pages
  <2> QED
    BY <2>0, <2>1, <2>2, <2>3, <2>4, <1>1 DEF Turned
<1> QED
  BY <1>2, <1>3

LEMMA Opening == ASSUME EstTyped, NEW d \in Est!Desks, Est!Reopen(d) \/ Est!GenerateQuote(d)
                 PROVE  \E q \in Pages : Turned(d, q)
<1> DEFINE q == [Est!Blank EXCEPT !.read = Est!Reads(est)]
<1>1. desk[d] \in Pages /\ log' \in EstHists /\ log'.resaved = log.resaved /\ est \in Ests
  BY Acted, Zenon DEF Est!Reopen, Est!GenerateQuote, EstTyped
<1>2. est' \in Ests /\ est'.lines = est.lines /\ est'.gen = est.gen /\ est'.ver = est.ver
  <2>1. CASE Est!Reopen(d)
    BY <1>1, <2>1, Zenon DEF Est!Reopen
  <2>2. CASE Est!GenerateQuote(d)
    BY <1>1, <2>2 DEF Est!GenerateQuote, Ests
  <2> QED BY <2>1, <2>2
<1>3. desk' = [desk EXCEPT ![d] = q]
  BY Zenon DEF Est!Reopen, Est!GenerateQuote, Est!Set
<1>4. q \in Pages
  BY <1>1, BlankTyped, ReadsTyped DEF Pages
<1>5. q.read = Est!Reads(est) /\ q.lines = {} /\ q.sent = {} /\ q.asks = "" /\ q.ver = 0 /\ ~q.loaded
  BY BlankTyped, Zenon DEF Pages, Est!Blank
<1>6. Written(est.lines) => WrittenPage(q)
  BY <1>5, ReadsTyped, <1>1, Zenon DEF WrittenPage, Written
<1> HIDE DEF q
<1>7. PageSeen(q, est)
  <2>1. est.ver \in Nat /\ Est!Reads(est).ver = est.ver /\ Est!Reads(est).lines = est.lines
    BY <1>1, ReadsTyped DEF Ests
  <2>4. q.read.ver = est.ver /\ q.read.lines = est.lines
    BY <1>5, <2>1, Zenon
  <2>5. q.ver = 0
    BY <1>5, Zenon
  <2>2. q.read.ver <= est.ver /\ q.read.lines = est.lines /\ q.ver <= est.ver
    BY <2>1, <2>4, <2>5
  <2>3. q.lines \subseteq q.shown /\ ~q.loaded /\ q.asks \notin {"saved", "refreshed", "repriced"} /\ q.asks # "checked"
    BY <1>5, Zenon
  <2> QED
    BY <2>2, <2>3 DEF PageSeen
<1> QED
  BY <1>1, <1>2, <1>3, <1>4, <1>5, <1>6, <1>7, Zenon DEF Turned

LEMMA Typing == ASSUME EstTyped, NEW d \in Est!Desks, Est!AddProduct(d) \/ Est!SetLine(d) PROVE \E q \in Pages : Turned(d, q)
<1>1. desk[d] \in Pages /\ log' \in EstHists /\ log'.resaved = log.resaved /\ est \in Ests /\ UNCHANGED est
  BY Acted DEF Est!AddProduct, Est!SetLine, EstTyped
<1>2. PICK old : Est!Write(d, old)
  BY DEF Est!AddProduct, Est!SetLine
<1> DEFINE n == log.typed + 1
           q == [desk[d] EXCEPT !.lines = (@ \ old) \cup {n}, !.shown = @ \cup {n}]
<1>3. desk' = [desk EXCEPT ![d] = q]
  BY <1>2 DEF Est!Write, Est!Set
<1>4. n \in Int /\ n >= 0
  BY DEF EstTyped, EstHists
<1> HIDE DEF n
<1>5. q \in Pages
  BY <1>1, <1>4 DEF Pages
<1>6. WrittenPage(desk[d]) => WrittenPage(q)
  BY <1>1, <1>4 DEF Pages, WrittenPage, Written
<1>7. PageSeen(desk[d], est) => PageSeen(q, est)
  BY <1>1 DEF Pages, PageSeen
<1>8. q.asks = desk[d].asks
  BY <1>1 DEF Pages
<1> QED
  BY <1>1, <1>3, <1>5, <1>6, <1>7, <1>8 DEF Turned

LEMMA Removing == ASSUME EstTyped, NEW d \in Est!Desks, Est!RemoveLine(d) PROVE \E q \in Pages : Turned(d, q)
<1>1. desk[d] \in Pages /\ log' \in EstHists /\ log'.resaved = log.resaved /\ est \in Ests /\ UNCHANGED est
  BY Acted DEF Est!RemoveLine, EstTyped
<1>2. PICK l \in desk[d].lines : Est!Set(d, [desk[d] EXCEPT !.lines = @ \ {l}])
  BY DEF Est!RemoveLine
<1> DEFINE q == [desk[d] EXCEPT !.lines = @ \ {l}]
<1>3. desk' = [desk EXCEPT ![d] = q]
  BY <1>2 DEF Est!Set
<1>5. q \in Pages
  BY <1>1 DEF Pages
<1>6. WrittenPage(desk[d]) => WrittenPage(q)
  BY <1>1 DEF Pages, WrittenPage, Written
<1>7. PageSeen(desk[d], est) => PageSeen(q, est)
  BY <1>1 DEF Pages, PageSeen
<1>8. q.asks = desk[d].asks
  BY <1>1 DEF Pages
<1> QED
  BY <1>1, <1>3, <1>5, <1>6, <1>7, <1>8 DEF Turned

LEMMA Expanding == ASSUME EstTyped, NEW d \in Est!Desks, Est!PickAssembly(d) \/ Est!ExpandAnswer(d)
                   PROVE  \E q \in Pages : Turned(d, q)
<1> DEFINE p == desk[d]
<1>1. p \in Pages /\ log' \in EstHists /\ log'.resaved = log.resaved /\ est \in Ests /\ UNCHANGED est
  BY Acted DEF Est!PickAssembly, Est!ExpandAnswer, EstTyped
<1>2. CASE Est!PickAssembly(d)
  <2> DEFINE n == log.typed + 1
             g == [Est!NoDialog EXCEPT !.kind = "assembly"]
             q == [p EXCEPT !.dialog = g, !.asks = "expand", !.sent = {n}]
  <2>1. desk' = [desk EXCEPT ![d] = q]
    BY <1>2 DEF Est!PickAssembly, Est!Set
  <2>2. n \in Int /\ n >= 0 /\ g \in EstDialogs
    <3>1. log.typed \in Nat
      BY DEF EstTyped, EstHists
    <3>2. g \in EstDialogs
      BY Zenon DEF EstDialogs, Est!NoDialog
    <3> QED BY <3>1, <3>2
  <2> HIDE DEF n, g
  <2>3. q \in Pages /\ q.asks = "expand"
    BY <1>1, <2>2, Zenon DEF Pages, Asked
  <2>4. WrittenPage(p) => WrittenPage(q)
    BY <1>1, <2>2 DEF Pages, WrittenPage, Written
  <2>5. PageSeen(p, est) => PageSeen(q, est)
    BY <1>1 DEF Pages, PageSeen
  <2> QED
    BY <1>1, <2>1, <2>3, <2>4, <2>5 DEF Turned
<1>3. CASE Est!ExpandAnswer(d)
  <2> DEFINE r == [[p EXCEPT !.asks = "", !.sent = {}] EXCEPT !.dialog = Est!NoDialog]
             q == [[p EXCEPT !.asks = "", !.sent = {}] EXCEPT !.lines = @ \cup p.sent, !.shown = @ \cup p.sent, !.dialog = Est!NoDialog]
  <2>1. desk' = [desk EXCEPT ![d] = q] \/ desk' = [desk EXCEPT ![d] = r]
    BY <1>3 DEF Est!ExpandAnswer, Est!Set
  <2>2. q \in Pages /\ q.asks = "" /\ r \in Pages /\ r.asks = ""
    BY <1>1, BlankTyped, Zenon DEF Pages, Asked
  <2>3. WrittenPage(p) => WrittenPage(q) /\ WrittenPage(r)
    BY <1>1 DEF Pages, WrittenPage, Written
  <2>4. PageSeen(p, est) => PageSeen(q, est)
    BY <1>1 DEF Pages, PageSeen
  <2>5. PageSeen(p, est) => PageSeen(r, est)
    BY <1>1 DEF Pages, PageSeen
  <2> QED
    BY <1>1, <2>1, <2>2, <2>3, <2>4, <2>5 DEF Turned
<1> QED
  BY <1>2, <1>3

LEMMA Saves == ASSUME EstTyped, NEW d \in Est!Desks, Est!Save(d) PROVE \E q \in Pages : Turned(d, q)
<1> DEFINE p == desk[d]
           verdict == IF Est!update_estimate(est, d) THEN "checked" ELSE "refused"
           q == [p EXCEPT !.asks = verdict, !.sent = p.lines]
<1>1. p \in Pages /\ log' \in EstHists /\ log'.resaved = log.resaved /\ est \in Ests /\ UNCHANGED est
  BY Acted DEF Est!Save, EstTyped
<1>2. desk' = [desk EXCEPT ![d] = q] /\ Est!Free
  BY DEF Est!Save, Est!Set
<1>3. verdict \in {"checked", "refused"} /\ (verdict = "checked" => p.ver = est.ver)
  BY DEF Est!update_estimate
<1>4. p.loaded /\ ("gap" \notin Without => ~p.behind)
  BY <1>1, Zenon DEF Est!Save, Est!CanSave, Est!Idle, Pages
<1> HIDE DEF verdict
<1>5. q \in Pages /\ q.asks = verdict
  BY <1>1, <1>3, Zenon DEF Pages, Asked
<1>6. WrittenPage(p) => WrittenPage(q)
  BY <1>1 DEF Pages, WrittenPage, Written
<1>7. "gap" \notin Without /\ PageSeen(p, est) => PageSeen(q, est)
  <2> SUFFICES ASSUME "gap" \notin Without, PageSeen(p, est) PROVE PageSeen(q, est)
    OBVIOUS
  <2>1. q.loaded = p.loaded /\ q.lines = p.lines /\ q.sent = p.lines /\ q.ver = p.ver /\ q.read = p.read /\ q.shown = p.shown
        /\ q.behind = p.behind /\ q.asks \in {"checked", "refused"}
    BY <1>1, <1>3 DEF Pages
  <2>2. q.asks = "checked" => est.lines \subseteq p.shown
    BY <1>3, <1>4, <1>5 DEF PageSeen
  <2> QED
    BY <2>1, <2>2 DEF PageSeen
<1> QED
  BY <1>1, <1>2, <1>5, <1>6, <1>7 DEF Turned

LEMMA Answering == ASSUME EstTyped, NEW d \in Est!Desks, Est!Answer(d) PROVE \E q \in Pages : Turned(d, q)
<1> DEFINE p == desk[d]
           r == [p EXCEPT !.asks = "", !.sent = {}, !.ack = Est!NoRead]
<1>1. p \in Pages /\ log' \in EstHists /\ log'.resaved = log.resaved /\ est \in Ests /\ UNCHANGED est
  BY Acted DEF Est!Answer, EstTyped
<1>2. r \in Pages /\ r.asks = "" /\ (PageSeen(p, est) => PageSeen(r, est))
  BY <1>1, BlankTyped, Zenon DEF Pages, Asked, PageSeen
<1>3. WrittenPage(p) => WrittenPage(r)
  BY <1>1 DEF Pages, WrittenPage, Written
<1>4. CASE desk' = [desk EXCEPT ![d] = r]
  BY <1>1, <1>2, <1>3, <1>4 DEF Turned
<1>5. CASE desk' # [desk EXCEPT ![d] = r]
  <2> DEFINE b == p.asks # "saved"
             k == IF p.asks = "repriced" THEN p.ack.book ELSE r.book
             q == [r EXCEPT !.ver = p.ack.ver, !.behind = b, !.book = k, !.dialog = Est!NoDialog, !.read = Est!Reads(est)]
  <2>1. desk' = [desk EXCEPT ![d] = q] /\ p.asks \in {"saved", "refreshed", "repriced"}
    BY <1>5 DEF Est!Answer, Est!Set
  <2>2. b \in BOOLEAN /\ k \in {0, 1} /\ p.ack.ver \in Nat
    BY <1>1, <1>2 DEF Pages, ReadsOf
  <2>3. q.loaded = p.loaded /\ q.lines = p.lines /\ q.ver = p.ack.ver /\ q.read = Est!Reads(est) /\ q.shown = p.shown
        /\ q.behind = b /\ q.asks = "" /\ q.sent = {}
    BY <1>1 DEF Pages
  <2>4. q \in Pages
    <3> HIDE DEF r, b, k
    <3> QED
      BY <1>1, <1>2, <2>2, BlankTyped, ReadsTyped, Zenon DEF Pages
  <2> HIDE DEF q
  <2>5. WrittenPage(p) /\ Written(est.lines) => WrittenPage(q)
    BY <1>1, <2>3, ReadsTyped, Zenon DEF WrittenPage, Written
  <2>6. PageSeen(p, est) => PageSeen(q, est)
    <3>1. est.ver \in Nat /\ Est!Reads(est).ver = est.ver /\ Est!Reads(est).lines = est.lines
      BY <1>1, ReadsTyped DEF Ests
    <3>2. b <=> p.asks # "saved"
      OBVIOUS
    <3> HIDE DEF b
    <3> SUFFICES ASSUME PageSeen(p, est) PROVE PageSeen(q, est)
      OBVIOUS
    <3>8. q.read.ver = est.ver /\ q.read.lines = est.lines
      BY <2>3, <3>1, Zenon
    <3>3. q.read.ver <= est.ver /\ q.read.lines = est.lines
      BY <3>1, <3>8
    <3>4. q.ver <= est.ver
      BY <2>1, <2>3, Zenon DEF PageSeen
    <3>5. q.lines \subseteq q.shown
      BY <2>3, Zenon DEF PageSeen
    <3>6. q.loaded /\ q.ver = est.ver /\ ~q.behind => est.lines \subseteq q.shown
      BY <2>3, <3>2, Zenon DEF PageSeen
    <3>7. q.asks \notin {"saved", "refreshed", "repriced"} /\ q.asks # "checked"
      BY <2>3, Zenon
    <3> QED
      BY <3>3, <3>4, <3>5, <3>6, <3>7 DEF PageSeen
  <2> QED
    BY <1>1, <2>1, <2>3, <2>4, <2>5, <2>6, Zenon DEF Turned
<1> QED
  BY <1>4, <1>5

LEMMA Choosing == ASSUME EstTyped, NEW d \in Est!Desks, Est!OpenRefresh(d) \/ Est!OnPriceBookChange(d) \/ Est!CancelDialog(d)
                  PROVE  \E q \in Pages : Turned(d, q)
<1> DEFINE p == desk[d]
<1>1. p \in Pages /\ log' \in EstHists /\ log'.resaved = log.resaved /\ est \in Ests /\ UNCHANGED est
  BY Acted, Zenon DEF Est!OpenRefresh, Est!OnPriceBookChange, Est!CancelDialog, EstTyped
<1>2. (\E g \in EstDialogs : desk' = [desk EXCEPT ![d] = [p EXCEPT !.dialog = g]])
      \/ desk' = [desk EXCEPT ![d] = [p EXCEPT !.book = 1]]
  <2>1. CASE Est!OpenRefresh(d)
    <3>1. PICK recalc \in BOOLEAN : desk' = [desk EXCEPT ![d] = [p EXCEPT !.dialog = [kind |-> "refresh", ids |-> est.ids, recalc |-> recalc]]]
      BY <2>1 DEF Est!OpenRefresh, Est!Set
    <3>2. [kind |-> "refresh", ids |-> est.ids, recalc |-> recalc] \in EstDialogs
      BY <1>1 DEF Ests, EstDialogs
    <3> QED BY <3>1, <3>2
  <2>2. CASE Est!OnPriceBookChange(d)
    <3>1. [Est!NoDialog EXCEPT !.kind = "reprice"] \in EstDialogs
      BY Zenon DEF Est!NoDialog, EstDialogs
    <3> QED BY <2>2, <3>1 DEF Est!OnPriceBookChange, Est!Set
  <2>3. CASE Est!CancelDialog(d)
    BY <2>3, BlankTyped, Zenon DEF Est!CancelDialog, Est!Set
  <2> QED BY <2>1, <2>2, <2>3
<1>3. CASE desk' = [desk EXCEPT ![d] = [p EXCEPT !.book = 1]]
  <2> DEFINE q == [p EXCEPT !.book = 1]
  <2>1. q \in Pages /\ q.asks = p.asks
    BY <1>1 DEF Pages
  <2>2. (WrittenPage(p) => WrittenPage(q)) /\ (PageSeen(p, est) => PageSeen(q, est))
    BY <1>1 DEF Pages, WrittenPage, PageSeen
  <2> QED BY <1>1, <1>3, <2>1, <2>2 DEF Turned
<1>4. ASSUME NEW g \in EstDialogs, desk' = [desk EXCEPT ![d] = [p EXCEPT !.dialog = g]] PROVE \E q \in Pages : Turned(d, q)
  <2> DEFINE q == [p EXCEPT !.dialog = g]
  <2>1. q \in Pages /\ q.asks = p.asks
    BY <1>1 DEF Pages
  <2>2. (WrittenPage(p) => WrittenPage(q)) /\ (PageSeen(p, est) => PageSeen(q, est))
    BY <1>1 DEF Pages, WrittenPage, PageSeen
  <2> QED BY <1>1, <1>4, <2>1, <2>2 DEF Turned
<1> QED
  BY <1>2, <1>3, <1>4

(* The steps of a page that leave the lines of the estimate alone. *)
TurnsPage(d) ==
    \/ Est!LoadAnswer(d) \/ Est!Reopen(d) \/ Est!AddProduct(d) \/ Est!SetLine(d) \/ Est!RemoveLine(d) \/ Est!PickAssembly(d)
    \/ Est!ExpandAnswer(d) \/ Est!Save(d) \/ Est!Answer(d) \/ Est!OpenRefresh(d) \/ Est!OnPriceBookChange(d) \/ Est!CancelDialog(d)
    \/ Est!GenerateQuote(d)

LEMMA PageStep ==
    ASSUME EstTyped, NEW d \in Est!Desks, TurnsPage(d)
    PROVE  \E q \in Pages : Turned(d, q)
  BY Loading, Opening, Typing, Removing, Expanding, Saves, Answering, Choosing DEF TurnsPage

(* The estimate as each handler leaves it. *)
LEMMA Rewritten == ASSUME NEW e \in Ests, NEW lines \in SUBSET Int, NEW book \in {0, 1}, NEW f, f = Est!Rewrite(e, lines, book)
                   PROVE  f \in Ests /\ f.lines = lines /\ f.gen = {} /\ f.ver = e.ver + 1
<1> DEFINE k == IF book = Est!None THEN e.book ELSE book
<1>1. k \in {0, 1} /\ e.ids + 1 \in Nat /\ e.ver + 1 \in Nat
  BY DEF Ests
<1>2. f = [e EXCEPT !.lines = lines, !.gen = {}, !.repriced = FALSE, !.ids = e.ids + 1, !.ver = e.ver + 1, !.book = k]
  BY DEF Est!Rewrite
<1> HIDE DEF k
<1> QED
  BY <1>1, <1>2 DEF Ests

LEMMA RefreshedTyped == ASSUME NEW e \in Ests, NEW g \in EstDialogs, NEW f, f = Est!Refreshed(e, g) \/ f = Est!Repriced(e, 1)
                        PROVE  f \in Ests /\ f.lines = e.lines /\ f.gen = e.gen /\ f.ver = e.ver + 1
<1> DEFINE r == e.repriced \/ (g.recalc /\ g.ids = e.ids /\ e.gen # {})
           t == e.repriced \/ e.gen # {}
<1>1. r \in BOOLEAN /\ t \in BOOLEAN /\ e.ver + 1 \in Nat
  BY DEF Ests
<1>2. \/ f = [e EXCEPT !.ver = e.ver + 1, !.repriced = r]
      \/ f = [e EXCEPT !.ver = e.ver + 1, !.book = 1, !.repriced = t]
  BY DEF Est!Refreshed, Est!Repriced
<1> HIDE DEF r, t
<1> QED
  BY <1>1, <1>2 DEF Ests

LEMMA Applied == ASSUME NEW e \in Ests, NEW k \in Int, NEW f, f = Est!apply_takeoff(e, k)
                 PROVE  f \in Ests /\ f.lines = (e.lines \ e.gen) \cup {-k} /\ f.gen = {-k} /\ f.ver = e.ver + 1
<1> DEFINE ls == (e.lines \ e.gen) \cup {-k}
<1>1. ls \in SUBSET Int /\ {-k} \in SUBSET Int /\ e.ver + 1 \in Nat
  BY DEF Ests
<1>2. f = [e EXCEPT !.lines = ls, !.gen = {-k}, !.repriced = FALSE, !.ver = e.ver + 1]
  <2>1. (e.gen \ e.gen) \cup {-k} = {-k}
    OBVIOUS
  <2> QED
    BY <2>1 DEF Est!apply_takeoff, Est!Replaced
<1> HIDE DEF ls
<1>3. f \in Ests /\ f.lines = ls /\ f.gen = {-k} /\ f.ver = e.ver + 1
  BY <1>1, <1>2 DEF Ests
<1> QED
  BY <1>3 DEF ls

LEMMA EstStart == ASSUME Est!Init PROVE EstTyped /\ LinkInv /\ SeenInv
<1>1. PICK k \in {0, 1} :
         /\ est = [lines |-> {-1} \cap {-k}, gen |-> {-1} \cap {-k}, repriced |-> FALSE, ids |-> 0,
                   ver |-> k + 1, book |-> Est!None, quotes |-> 0, accepted |-> FALSE]
         /\ desk = [d \in Est!Desks |-> [Est!Blank EXCEPT !.read = Est!Reads(est)]]
         /\ log = [acts |-> 0, events |-> 0, typed |-> 0, takeoffs |-> k, resaved |-> FALSE]
  BY DEF Est!Init
<1> DEFINE q == [Est!Blank EXCEPT !.read = Est!Reads(est)]
<1>2. est \in Ests /\ log \in EstHists
  BY <1>1 DEF Ests, EstHists, Est!None
<1>3. q \in Pages
  BY <1>2, BlankTyped, ReadsTyped DEF Pages
<1>4. q.read = Est!Reads(est) /\ q.lines = {} /\ q.sent = {} /\ q.asks = "" /\ q.ver = 0 /\ ~q.loaded
  BY BlankTyped, Zenon DEF Pages, Est!Blank
<1>5. \A d \in Est!Desks : desk[d] = q
  BY <1>1
<1>6. desk \in [Est!Desks -> Pages]
  BY <1>1, <1>3
<1> HIDE DEF q
<1>7. est.lines = est.gen /\ \A j, l \in est.gen : j = l
  BY <1>1
<1>8. est.gen = {} => WrittenPage(q)
  <2>1. Est!Reads(est).lines = est.lines
    BY <1>2, ReadsTyped
  <2> QED BY <2>1, <1>4, <1>7, Zenon DEF WrittenPage, Written
<1>9. LinkInv
  BY <1>5, <1>7, <1>8 DEF LinkInv
<1>10. PageSeen(q, est)
  <2>1. est.ver \in Nat
    BY <1>2 DEF Ests
  <2>2. q.read.ver = est.ver /\ q.read.lines = est.lines
    BY <1>2, <1>4, ReadsTyped, Zenon
  <2>5. q.ver = 0
    BY <1>4, Zenon
  <2>3. q.read.ver <= est.ver /\ q.ver <= est.ver
    BY <2>1, <2>2, <2>5
  <2>4. q.lines \subseteq q.shown /\ ~q.loaded /\ q.asks \notin {"saved", "refreshed", "repriced"} /\ q.asks # "checked"
    BY <1>4, Zenon
  <2> QED
    BY <2>2, <2>3, <2>4 DEF PageSeen
<1>11. SeenInv
  BY <1>4, <1>5, <1>10, Zenon DEF SeenInv
<1> QED
  BY <1>2, <1>6, <1>9, <1>11 DEF EstTyped

(* A page turned: the rest is as it was. *)
LEMMA TurnKeeps == ASSUME EstTyped, NEW d \in Est!Desks, NEW q \in Pages, Turned(d, q)
                   PROVE  /\ EstTyped'
                          /\ LinkInv => LinkInv'
                          /\ SeenInv /\ "overlap" \notin Without /\ "gap" \notin Without => SeenInv'
<1>1. desk' = [desk EXCEPT ![d] = q] /\ DOMAIN desk = Est!Desks
  BY DEF Turned, EstTyped
<1>2. desk'[d] = q /\ \A e \in Est!Desks : e # d => desk'[e] = desk[e]
  BY <1>1
<1>3. EstTyped'
  BY <1>1 DEF Turned, EstTyped
<1>4. ASSUME LinkInv PROVE LinkInv'
  <2>1. est'.gen = est.gen /\ est'.lines = est.lines /\ log'.resaved = log.resaved
    BY DEF Turned
  <2>2. ASSUME ~log.resaved, est.gen = {} PROVE \A e \in Est!Desks : WrittenPage(desk'[e])
    <3>1. Written(est.lines)
      <4>1. \A l \in est.lines : l \in Int /\ ~(l < 0)
        BY <2>2, <1>4 DEF LinkInv, EstTyped, Ests
      <4> QED BY <4>1 DEF Written
    <3>2. WrittenPage(q)
      BY <3>1, <2>2, <1>4 DEF LinkInv, Turned
    <3> QED
      BY <3>2, <1>2, <2>2, <1>4 DEF LinkInv
  <2> QED
    BY <2>1, <2>2, <1>4 DEF LinkInv
<1>5. ASSUME SeenInv, "overlap" \notin Without, "gap" \notin Without PROVE SeenInv'
  <2>1. est'.ver = est.ver /\ est'.lines = est.lines
    BY DEF Turned
  <2>2. PageSeen(q, est)
    BY <1>5 DEF Turned, SeenInv
  <2>3. \A e \in Est!Desks : PageSeen(desk'[e], est)
    BY <1>2, <2>2, <1>5 DEF SeenInv
  <2>4. \A e \in Est!Desks : PageSeen(desk'[e], est')
    BY <2>1, <2>3 DEF PageSeen
  <2>5. q.asks = "checked" => desk[d].asks = "checked" \/ ~Est!Saving
    BY <1>5 DEF Turned, Est!Free
  <2>6. \A e, f \in Est!Desks : desk'[e].asks = "checked" /\ desk'[f].asks = "checked" => e = f
    BY <1>2, <2>5, <1>5 DEF SeenInv, Est!Saving
  <2> QED
    BY <2>4, <2>6 DEF SeenInv
<1> QED
  BY <1>3, <1>4, <1>5

(* A page as the estimate moves on under it. *)
LEMMA Overtaken == ASSUME NEW p \in Pages, NEW e \in Ests, NEW f \in Ests, f.ver = e.ver + 1, PageSeen(p, e), p.asks # "checked"
                   PROVE  PageSeen(p, f)
<1>1. p.ver \in Nat /\ e.ver \in Nat /\ f.ver \in Nat /\ p.read.ver \in Nat /\ p.ack.ver \in Nat
  BY DEF Pages, Ests, ReadsOf
<1>2. p.ver < f.ver /\ (p.read.on => p.read.ver < f.ver) /\ (p.asks \in {"saved", "refreshed", "repriced"} => p.ack.ver < f.ver)
  <2>1. p.ver <= e.ver /\ (p.read.on => p.read.ver <= e.ver) /\ (p.asks \in {"saved", "refreshed", "repriced"} => p.ack.ver <= e.ver)
    BY DEF PageSeen
  <2> QED
    BY <1>1, <2>1
<1>3. /\ p.ver <= f.ver /\ p.ver # f.ver
      /\ p.read.on => p.read.ver <= f.ver /\ p.read.ver # f.ver
      /\ p.asks \in {"saved", "refreshed", "repriced"} => p.ack.ver <= f.ver /\ p.ack.ver # f.ver
  BY <1>1, <1>2
<1> QED
  BY <1>3 DEF PageSeen

LEMMA CommitSteps == ASSUME EstTyped, NEW d \in Est!Desks, Est!SaveCommit(d)
                     PROVE  /\ EstTyped'
                            /\ LinkInv => LinkInv'
                            /\ SeenInv => SeenInv'
<1> DEFINE p == desk[d]
           e == Est!Rewrite(est, p.sent, p.book)
           q == [p EXCEPT !.asks = "saved", !.sent = {}, !.ack = Est!Reads(e)]
<1>1. p \in Pages /\ est \in Ests /\ log \in EstHists /\ p.sent \in SUBSET Int /\ p.book \in {0, 1} /\ p.asks = "checked"
  BY DEF Est!SaveCommit, EstTyped, Pages
<1>2. est' = e /\ desk' = [desk EXCEPT ![d] = q] /\ log' = [log EXCEPT !.resaved = @ \/ est.gen # {}]
  BY DEF Est!SaveCommit, Est!Set
<1>3. e \in Ests /\ e.lines = p.sent /\ e.gen = {} /\ e.ver = est.ver + 1
  BY <1>1, Rewritten
<1> HIDE DEF e
<1>4. q \in Pages
  BY <1>1, <1>3, ReadsTyped, Zenon DEF Pages, Asked
<1>5. q.loaded = p.loaded /\ q.lines = p.lines /\ q.ver = p.ver /\ q.read = p.read /\ q.shown = p.shown /\ q.behind = p.behind
      /\ q.asks = "saved" /\ q.sent = {} /\ q.ack = Est!Reads(e)
  BY <1>1 DEF Pages
<1> HIDE DEF q
<1>6. desk'[d] = q /\ \A f \in Est!Desks : f # d => desk'[f] = desk[f]
  BY <1>2 DEF EstTyped
<1>7. log' \in EstHists /\ (log'.resaved <=> log.resaved \/ est.gen # {})
  BY <1>1, <1>2 DEF EstHists
<1>8. EstTyped'
  BY <1>2, <1>3, <1>4, <1>7 DEF EstTyped
<1>9. ASSUME LinkInv PROVE LinkInv'
  <2>1. ASSUME ~log'.resaved PROVE Written(e.lines) /\ \A f \in Est!Desks : WrittenPage(desk'[f])
    <3>1. \A f \in Est!Desks : WrittenPage(desk[f])
      BY <1>7, <2>1, <1>9 DEF LinkInv
    <3>2. WrittenPage(q) /\ Written(p.sent)
      BY <3>1, <1>5 DEF WrittenPage, Written
    <3> QED
      BY <3>1, <3>2, <1>3, <1>6
  <2>2. ~log'.resaved => \A l \in e.lines : l < 0 => l \in e.gen
    <3>1. \A l \in e.lines : l \in Int
      BY <1>3 DEF Ests
    <3> QED
      BY <2>1, <3>1 DEF Written
  <2> QED
    BY <2>1, <2>2, <1>2, <1>3 DEF LinkInv
<1>10. ASSUME SeenInv PROVE SeenInv'
  <2>1. \A f \in Est!Desks : f # d => desk[f].asks # "checked" /\ desk[f] \in Pages
    BY <1>1, <1>10 DEF SeenInv, EstTyped
  <2>2. \A f \in Est!Desks : f # d => PageSeen(desk'[f], e)
    BY <1>1, <1>3, <1>6, <1>10, <2>1, Overtaken DEF SeenInv
  <2>3. PageSeen(q, e)
    <3>1. PageSeen(p, est)
      BY <1>10 DEF SeenInv
    <3>2. p.ver \in Nat /\ p.read.ver \in Nat /\ est.ver \in Nat
      BY <1>1 DEF Pages, ReadsOf, Ests
    <3>3. p.ver <= est.ver /\ (p.read.on => p.read.ver <= est.ver)
      BY <3>1 DEF PageSeen
    <3>4. p.ver <= e.ver /\ p.ver # e.ver /\ (p.read.on => p.read.ver <= e.ver /\ p.read.ver # e.ver) /\ e.ver <= e.ver
      BY <1>3, <3>2, <3>3
    <3>5. q.ack.ver = e.ver
      BY <1>3, <1>5, ReadsTyped
    <3>6. e.lines \subseteq p.shown /\ p.lines \subseteq p.shown
      BY <3>1, <1>1, <1>3 DEF PageSeen
    <3>7. q.ver = p.ver /\ q.read = p.read /\ q.lines = p.lines /\ q.shown = p.shown
      BY <1>5
    <3>8. q.asks # "checked"
      BY <1>5
    <3>9. q.ack.ver <= e.ver
      BY <3>4, <3>5
    <3> QED
      BY <3>4, <3>6, <3>7, <3>8, <3>9 DEF PageSeen
  <2>4. q.asks # "checked"
    BY <1>5
  <2>5. \A f \in Est!Desks : PageSeen(desk'[f], e)
    BY <2>2, <2>3, <1>6
  <2>6. \A f \in Est!Desks : desk'[f].asks # "checked"
    BY <2>1, <2>4, <1>6
  <2> QED
    BY <2>5, <2>6, <1>2 DEF SeenInv
<1> QED
  BY <1>8, <1>9, <1>10

LEMMA DialogSteps == ASSUME EstTyped, NEW d \in Est!Desks, Est!ApplyDialog(d)
                     PROVE  /\ EstTyped'
                            /\ LinkInv => LinkInv'
                            /\ SeenInv /\ "overlap" \notin Without => SeenInv'
<1> DEFINE p == desk[d]
           e == IF p.dialog.kind = "refresh" THEN Est!Refreshed(est, p.dialog) ELSE Est!Repriced(est, 1)
           v == IF p.dialog.kind = "refresh" THEN "refreshed" ELSE "repriced"
           q == [p EXCEPT !.asks = v, !.ack = Est!Reads(e)]
<1>1. p \in Pages /\ est \in Ests /\ log \in EstHists /\ p.dialog \in EstDialogs /\ p.asks = ""
  BY Zenon DEF Est!ApplyDialog, EstTyped, Pages
<1>2. est' = e /\ desk' = [desk EXCEPT ![d] = q] /\ Est!Act /\ Est!Free
  BY Zenon DEF Est!ApplyDialog, Est!Set
<1>3. e \in Ests /\ e.lines = est.lines /\ e.gen = est.gen /\ e.ver = est.ver + 1
  BY <1>1, RefreshedTyped, Zenon
<1>4. v \in {"refreshed", "repriced"}
  OBVIOUS
<1> HIDE DEF e, v
<1>5. q \in Pages
  BY <1>1, <1>3, <1>4, ReadsTyped, Zenon DEF Pages, Asked
<1>6. q.loaded = p.loaded /\ q.lines = p.lines /\ q.ver = p.ver /\ q.read = p.read /\ q.shown = p.shown /\ q.behind = p.behind
      /\ q.asks = v /\ q.sent = p.sent /\ q.ack = Est!Reads(e)
  BY <1>1, Zenon DEF Pages
<1> HIDE DEF q
<1>7. desk'[d] = q /\ \A f \in Est!Desks : f # d => desk'[f] = desk[f]
  BY <1>2 DEF EstTyped
<1>8. log' \in EstHists /\ log'.resaved = log.resaved
  BY <1>1, <1>2, Acted, Zenon
<1>9. EstTyped'
  BY <1>2, <1>3, <1>5, <1>8 DEF EstTyped
<1>10. ASSUME LinkInv PROVE LinkInv'
  <2>1. ASSUME ~log.resaved, est.gen = {} PROVE \A f \in Est!Desks : WrittenPage(desk'[f])
    <3>1. \A f \in Est!Desks : WrittenPage(desk[f])
      BY <2>1, <1>10 DEF LinkInv
    <3>2. WrittenPage(q)
      BY <3>1, <1>6 DEF WrittenPage
    <3> QED
      BY <3>1, <3>2, <1>7
  <2> QED
    BY <2>1, <1>2, <1>3, <1>8, <1>10 DEF LinkInv
<1>11. ASSUME SeenInv, "overlap" \notin Without PROVE SeenInv'
  <2>1. \A f \in Est!Desks : desk[f].asks # "checked" /\ desk[f] \in Pages
    BY <1>2, <1>11 DEF Est!Free, Est!Saving, EstTyped
  <2>2. \A f \in Est!Desks : PageSeen(desk[f], e)
    BY <1>1, <1>3, <1>11, <2>1, Overtaken, Zenon DEF SeenInv
  <2>3. PageSeen(q, e)
    <3>1. PageSeen(p, e)
      BY <2>2
    <3>2. q.asks \in {"refreshed", "repriced"}
      BY <1>4, <1>6
    <3>3. e.ver \in Nat /\ q.ack.ver = e.ver
      BY <1>3, <1>6, ReadsTyped DEF Ests
    <3>4. q.ack.ver <= e.ver
      BY <3>3
    <3>5. q.asks # "checked" /\ q.asks # "saved"
      BY <3>2
    <3> QED
      BY <3>1, <3>4, <3>5, <1>6 DEF PageSeen
  <2>4. q.asks # "checked"
    BY <1>4, <1>6
  <2>5. \A f \in Est!Desks : PageSeen(desk'[f], e)
    BY <2>2, <2>3, <1>7
  <2>6. \A f \in Est!Desks : desk'[f].asks # "checked"
    BY <2>1, <2>4, <1>7
  <2> QED
    BY <2>5, <2>6, <1>2 DEF SeenInv
<1> QED
  BY <1>9, <1>10, <1>11

LEMMA TakeoffSteps == ASSUME EstTyped, Est!doApply
                      PROVE  /\ EstTyped'
                             /\ LinkInv => LinkInv'
                             /\ SeenInv /\ "overlap" \notin Without => SeenInv'
<1> DEFINE k == log.takeoffs + 1
           e == Est!apply_takeoff(est, k)
<1>1. est \in Ests /\ log \in EstHists /\ k \in Int /\ k - 1 \in Nat
  BY DEF EstTyped, EstHists
<1>2. est' = e /\ desk' = desk /\ Est!Free
  BY DEF Est!doApply
<1>3. log' \in EstHists /\ log'.resaved = log.resaved
  <2>1. log.acts + 1 \in Nat /\ log.takeoffs + 1 \in Nat
    BY <1>1 DEF EstHists
  <2>2. log' = [log EXCEPT !.acts = log.acts + 1, !.takeoffs = log.takeoffs + 1]
    BY DEF Est!doApply, Est!Takes
  <2> QED
    BY <1>1, <2>1, <2>2 DEF EstHists
<1> HIDE DEF k
<1>4. e \in Ests /\ e.lines = (est.lines \ est.gen) \cup {-k} /\ e.gen = {-k} /\ e.ver = est.ver + 1
  BY <1>1, Applied
<1> HIDE DEF e
<1>5. EstTyped'
  BY <1>2, <1>3, <1>4 DEF EstTyped
<1>6. ASSUME LinkInv PROVE LinkInv'
  <2>1. ~log.resaved => \A l \in e.lines : l < 0 => l \in e.gen
    BY <1>4, <1>6 DEF LinkInv
  <2> QED
    BY <2>1, <1>2, <1>3, <1>4 DEF LinkInv
<1>7. ASSUME SeenInv, "overlap" \notin Without PROVE SeenInv'
  <2>1. \A f \in Est!Desks : desk[f].asks # "checked" /\ desk[f] \in Pages
    BY <1>2, <1>7 DEF Est!Free, Est!Saving, EstTyped
  <2>2. \A f \in Est!Desks : PageSeen(desk[f], e)
    BY <1>1, <1>4, <1>7, <2>1, Overtaken DEF SeenInv
  <2> QED
    BY <2>1, <2>2, <1>2 DEF SeenInv
<1> QED
  BY <1>5, <1>6, <1>7

LEMMA EstOtherSteps ==
    ASSUME EstTyped, Est!QuoteAccepted \/ Est!Select \/ Est!doPreview \/ Est!doApplyRefused \/ Est!TakeoffAnswer \/ UNCHANGED Est!vars
    PROVE  /\ EstTyped'
           /\ LinkInv => LinkInv'
           /\ SeenInv => SeenInv'
<1>1. est \in Ests /\ log \in EstHists /\ UNCHANGED desk
  BY Zenon DEF EstTyped, Est!QuoteAccepted, Est!Select, Est!doPreview, Est!doApplyRefused, Est!TakeoffAnswer, Est!vars
<1>2. log' \in EstHists /\ log'.resaved = log.resaved
  BY <1>1, Acted, Zenon DEF Est!QuoteAccepted, Est!Select, Est!doPreview, Est!doApplyRefused, Est!TakeoffAnswer, Est!vars
<1>3. est' \in Ests /\ est'.lines = est.lines /\ est'.gen = est.gen /\ est'.ver = est.ver
  <2>1. CASE Est!QuoteAccepted
    BY <1>1, <2>1 DEF Est!QuoteAccepted, Ests
  <2>2. CASE ~Est!QuoteAccepted
    BY <1>1, <2>2, Zenon DEF Est!Select, Est!doPreview, Est!doApplyRefused, Est!TakeoffAnswer, Est!vars
  <2> QED BY <2>1, <2>2
<1>4. EstTyped'
  BY <1>1, <1>2, <1>3 DEF EstTyped
<1>5. LinkInv => LinkInv'
  BY <1>1, <1>2, <1>3 DEF LinkInv
<1>6. SeenInv => SeenInv'
  BY <1>1, <1>3 DEF SeenInv, PageSeen
<1> QED
  BY <1>4, <1>5, <1>6

LEMMA EstStep == ASSUME EstTyped, Est!Next
                 PROVE  /\ EstTyped'
                        /\ LinkInv => LinkInv'
                        /\ SeenInv /\ "overlap" \notin Without /\ "gap" \notin Without => SeenInv'
<1>1. CASE Est!QuoteAccepted \/ Est!Select \/ Est!doPreview \/ Est!doApplyRefused \/ Est!TakeoffAnswer
  BY <1>1, EstOtherSteps
<1>2. CASE Est!doApply
  BY <1>2, TakeoffSteps
<1>3. ASSUME NEW d \in Est!Desks, Est!SaveCommit(d)
      PROVE  EstTyped' /\ (LinkInv => LinkInv') /\ (SeenInv => SeenInv')
  BY <1>3, CommitSteps
<1>4. ASSUME NEW d \in Est!Desks, Est!ApplyDialog(d)
      PROVE  EstTyped' /\ (LinkInv => LinkInv') /\ (SeenInv /\ "overlap" \notin Without => SeenInv')
  BY <1>4, DialogSteps
<1>5. ASSUME NEW d \in Est!Desks, TurnsPage(d)
      PROVE  /\ EstTyped' /\ (LinkInv => LinkInv')
             /\ SeenInv /\ "overlap" \notin Without /\ "gap" \notin Without => SeenInv'
  BY <1>5, PageStep, TurnKeeps
<1> QED
  BY <1>1, <1>2, <1>3, <1>4, <1>5 DEF Est!Next, TurnsPage

(* Only a save and a takeoff take lines from the estimate. *)
LEMMA KeepStep == ASSUME EstTyped, SeenInv, Est!Next PROVE Est!WorkKept
<1>1. CASE est'.lines = est.lines
  BY <1>1 DEF Est!WorkKept
<1>2. ASSUME NEW d \in Est!Desks, Est!SaveCommit(d) PROVE Est!WorkKept
  <2>1. desk[d].asks = "checked" /\ est.lines \subseteq desk[d].shown
    BY <1>2 DEF Est!SaveCommit, SeenInv, PageSeen
  <2> QED
    BY <2>1 DEF Est!WorkKept
<1>3. CASE Est!doApply
  <2>1. est \in Ests /\ log.takeoffs + 1 \in Int
    BY DEF EstTyped, EstHists
  <2>2. est'.lines = (est.lines \ est.gen) \cup {-(log.takeoffs + 1)}
    BY <1>3, <2>1, Applied DEF Est!doApply
  <2>3. takeoff'.asks = "applied"
    BY <1>3 DEF Est!doApply
  <2> QED
    BY <2>2, <2>3 DEF Est!WorkKept
<1>4. ASSUME NEW d \in Est!Desks, Est!ApplyDialog(d) PROVE est'.lines = est.lines
  <2>1. est \in Ests /\ desk[d].dialog \in EstDialogs
    BY DEF EstTyped, Pages
  <2> QED
    BY <1>4, <2>1, RefreshedTyped, Zenon DEF Est!ApplyDialog
<1>5. ASSUME NEW d \in Est!Desks, TurnsPage(d)
      PROVE  est'.lines = est.lines
  BY <1>5, PageStep DEF Turned
<1>6. CASE Est!QuoteAccepted \/ Est!Select \/ Est!doPreview \/ Est!doApplyRefused \/ Est!TakeoffAnswer
  <2>1. Est!QuoteAccepted => est'.lines = est.lines
    BY DEF Est!QuoteAccepted, EstTyped, Ests
  <2>2. Est!Select \/ Est!doPreview \/ Est!doApplyRefused \/ Est!TakeoffAnswer => est'.lines = est.lines
    BY Zenon DEF Est!Select, Est!doPreview, Est!doApplyRefused, Est!TakeoffAnswer
  <2>3. est'.lines = est.lines
    BY <1>6, <2>1, <2>2
  <2> QED BY <2>3, <1>1
<1> QED
  BY <1>1, <1>2, <1>3, <1>4, <1>5, <1>6 DEF Est!Next, TurnsPage

LEMMA LinkedOnce == ASSUME EstTyped, LinkInv PROVE Est!TakeoffOnce
  BY DEF LinkInv, Est!TakeoffOnce

LEMMA EstRests == ASSUME UNCHANGED <<est, desk, takeoff, log>>, EstTyped
                  PROVE  EstTyped' /\ (LinkInv => LinkInv') /\ (SeenInv => SeenInv')
  BY EstOtherSteps DEF Est!vars

EstPart == part = "estimating" => EstTyped /\ LinkInv
SeenPart == part = "estimating" => EstTyped /\ SeenInv

(* A takeoff applied again replaces what it generated, whichever pages save, refresh, reprice or quote around it
   (services/takeoff.py:386). *)
THEOREM TakeoffReplaces == PagesSpec => []TakeoffOnce
<1>1. PagesInit => EstPart
  BY EstStart DEF PagesInit, EstPart
<1>2. EstPart /\ [PagesNext]_pages => EstPart'
  <2> SUFFICES ASSUME EstPart, [PagesNext]_pages, part' = "estimating" PROVE EstTyped' /\ LinkInv'
    BY DEF EstPart
  <2>1. CASE EstimatingStep
    BY <2>1, EstStep DEF EstPart, EstimatingStep
  <2>2. CASE SalesStep \/ StockStep \/ PurchasingStep \/ CanvassStep \/ MaterialsStep \/ BackupsStep
             \/ SiteStep \/ ProposalStep
    BY <2>2 DEF SalesStep, StockStep, PurchasingStep, CanvassStep, MaterialsStep, BackupsStep,
             SiteStep, ProposalStep
  <2>3. CASE UNCHANGED pages
    BY <2>3, EstRests DEF EstPart, pages, estimating
  <2> QED
    BY <2>1, <2>2, <2>3 DEF PagesNext
<1>3. EstPart => TakeoffOnce
  BY LinkedOnce DEF EstPart, TakeoffOnce
<1> QED
  BY <1>1, <1>2, <1>3, PTL DEF PagesSpec

(* A save takes away only lines its page has shown, a takeoff only those it generated: no desk loses another's
   work (estimates.py:227). Left out are two saves in the server at once ("overlap") and a save between an answer
   and the load it starts ("gap"). *)
THEOREM WorkOfOthersKept == ASSUME "overlap" \notin Without, "gap" \notin Without PROVE PagesSpec => OthersWorkKept
<1>1. PagesInit => SeenPart
  BY EstStart DEF PagesInit, SeenPart
<1>2. SeenPart /\ [PagesNext]_pages => SeenPart'
  <2> SUFFICES ASSUME SeenPart, [PagesNext]_pages, part' = "estimating" PROVE EstTyped' /\ SeenInv'
    BY DEF SeenPart
  <2>1. CASE EstimatingStep
    BY <2>1, EstStep DEF SeenPart, EstimatingStep
  <2>2. CASE SalesStep \/ StockStep \/ PurchasingStep \/ CanvassStep \/ MaterialsStep \/ BackupsStep
             \/ SiteStep \/ ProposalStep
    BY <2>2 DEF SalesStep, StockStep, PurchasingStep, CanvassStep, MaterialsStep, BackupsStep,
             SiteStep, ProposalStep
  <2>3. CASE UNCHANGED pages
    BY <2>3, EstRests DEF SeenPart, pages, estimating
  <2> QED
    BY <2>1, <2>2, <2>3 DEF PagesNext
<1>3. SeenPart /\ [PagesNext]_pages => [part = "estimating" => Est!WorkKept]_pages
  <2> SUFFICES ASSUME SeenPart, PagesNext, part = "estimating" PROVE Est!WorkKept
    OBVIOUS
  <2>1. EstimatingStep
    BY DEF PagesNext, SalesStep, StockStep, PurchasingStep, CanvassStep, MaterialsStep, BackupsStep, SiteStep, ProposalStep
  <2> QED
    BY <2>1, KeepStep DEF SeenPart, EstimatingStep
<1> QED
  BY <1>1, <1>2, <1>3, PTL DEF PagesSpec, OthersWorkKept

(***************************************************************************)
(* Quotes, jobs and invoices.                                              *)
(***************************************************************************)
(* The sale, typed as far as an acceptance reads it. *)
Quotes == [st : {"none", "draft", "sent", "declined", "accepted", "gone"}, pkg : Packages \cup {Sal!None}]
Accepts(p) == "accept" \in DOMAIN p /\ p.accept \in Packages \cup {Sal!None}
SaleTyped ==
    /\ DOMAIN sale = {"customer", "estimate", "expired", "invoices", "quote", "job"}
    /\ sale.quote \in Quotes /\ sale.job \in Packages \cup {Sal!None}
    /\ DOMAIN log = {"acts", "events", "declined"} /\ log.declined \in BOOLEAN
    /\ dealing \in [Sal!Accepting -> [on : BOOLEAN, pkg : Packages \cup {Sal!None}, fresh : BOOLEAN]]
    /\ DOMAIN page = Sal!Desks /\ \A d \in Sal!Desks : Accepts(page[d])
(* An acceptance that found a job began on a quote declined from a stale page. *)
SaleInv ==
    /\ SaleTyped
    /\ Sal!JobKeepsItsQuote
    /\ \A x \in Sal!Accepting : dealing[x].on => dealing[x].pkg \in Packages /\ (dealing[x].fresh \/ log.declined)

LEMMA SaleStart == ASSUME Sal!Init PROVE SaleInv
<1>1. PICK pkg \in Packages, st \in {"none", "sent", "accepted"} :
         sale = [customer |-> st # "none", estimate |-> TRUE, expired |-> FALSE, invoices |-> <<>>,
                   quote |-> [st |-> st, pkg |-> IF st = "accepted" THEN pkg ELSE Sal!None],
                   job |-> IF st = "accepted" THEN pkg ELSE Sal!None]
  BY Zenon DEF Sal!Init
<1>2. dealing = [x \in Sal!Accepting |-> [on |-> FALSE, pkg |-> Sal!None, fresh |-> FALSE]]
      /\ log = [acts |-> 0, events |-> 0, declined |-> FALSE]
  BY Zenon DEF Sal!Init
<1>3. DOMAIN page = Sal!Desks /\ \A d \in Sal!Desks : Accepts(page[d])
  BY Zenon DEF Sal!Init, Sal!NoPage, Accepts
<1> QED BY <1>1, <1>2, <1>3 DEF SaleInv, SaleTyped, Sal!JobKeepsItsQuote, Quotes

(* A step that leaves a quote of a job alone, and its acceptances. *)
QuoteMoves ==
    /\ DOMAIN sale' = DOMAIN sale /\ sale'.quote \in Quotes /\ sale'.job = sale.job
    /\ sale'.quote = sale.quote \/ sale.quote.st # "accepted"
    /\ dealing' = dealing /\ DOMAIN log' = DOMAIN log /\ log'.declined = log.declined
PagesTyped == DOMAIN page' = Sal!Desks /\ \A d \in Sal!Desks : Accepts(page'[d])

LEMMA MovesKeep == ASSUME SaleInv, QuoteMoves, PagesTyped PROVE SaleInv'
  BY DEF SaleInv, SaleTyped, QuoteMoves, PagesTyped, Accepts, Sal!JobKeepsItsQuote

LEMMA SetTyped ==
    ASSUME SaleInv, NEW d \in Sal!Desks, NEW p, Accepts(p), Sal!Set(d, p)  PROVE PagesTyped
  BY DEF SaleInv, SaleTyped, Sal!Set, PagesTyped

LEMMA SaleBudget ==
    ASSUME SaleInv, Sal!Act \/ Sal!Event \/ log' = log
    PROVE  DOMAIN log' = DOMAIN log /\ log'.declined = log.declined
  BY DEF Sal!Act, Sal!Event, SaleInv, SaleTyped

(* The commands and answers of the lead page. *)
LEMMA SalePageSteps ==
    ASSUME SaleInv, NEW d \in Sal!Desks,
           \/ Sal!LoadAnswer(d) \/ Sal!Answer(d) \/ Sal!openAccept(d) \/ Sal!cancelAccept(d)
           \/ \E x \in {"estimate", "quote"} : Sal!Delete(d, x) \/ Sal!Undo(d, x) \/ Sal!ToastCloses(d, x)
    PROVE  SaleInv'
<1>1. sale' = sale /\ dealing' = dealing
  BY Zenon DEF Sal!LoadAnswer, Sal!Answer, Sal!openAccept, Sal!cancelAccept, Sal!Delete, Sal!Undo, Sal!ToastCloses
<1>2. DOMAIN log' = DOMAIN log /\ log'.declined = log.declined
  BY SaleBudget, Zenon DEF Sal!LoadAnswer, Sal!Answer, Sal!openAccept, Sal!cancelAccept, Sal!Delete, Sal!Undo, Sal!ToastCloses
<1>3. Accepts(page[d])
  BY DEF SaleInv, SaleTyped
<1>4. PagesTyped
  <2>1. CASE Sal!LoadAnswer(d)
    <3> DEFINE p == [page[d] EXCEPT !.loaded = TRUE, !.rows = page[d].read, !.hidden = {}, !.read = Sal!NoRows]
               q == [page[d] EXCEPT !.read = Sal!NoRows]
    <3>1. Accepts(p) /\ Accepts(q) /\ (Sal!Set(d, p) \/ Sal!Set(d, q))
      BY <1>3, <2>1 DEF Sal!LoadAnswer, Accepts
    <3> HIDE DEF p, q
    <3> QED BY <3>1, SetTyped
  <2>2. CASE Sal!Answer(d)
    <3> DEFINE p == [[page[d] EXCEPT !.asks = "", !.accept = Sal!None] EXCEPT !.read = Sal!Rows(sale)]
               q == [page[d] EXCEPT !.asks = ""]
    <3>1. Accepts(p) /\ Accepts(q) /\ (Sal!Set(d, p) \/ Sal!Set(d, q))
      BY <1>3, <2>2, Zenon DEF Sal!Answer, Accepts
    <3> HIDE DEF p, q
    <3> QED BY <3>1, SetTyped
  <2>3. CASE Sal!openAccept(d) \/ Sal!cancelAccept(d)
    <3>1. PICK k \in Packages \cup {Sal!None} : Sal!Set(d, [page[d] EXCEPT !.accept = k])
      BY <2>3, Zenon DEF Sal!openAccept, Sal!cancelAccept
    <3> DEFINE p == [page[d] EXCEPT !.accept = k]
    <3>2. Accepts(p) /\ Sal!Set(d, p)
      BY <1>3, <3>1 DEF Accepts
    <3> HIDE DEF p
    <3> QED BY <3>2, SetTyped
  <2>4. ASSUME NEW x, Sal!Delete(d, x) \/ Sal!Undo(d, x) \/ Sal!ToastCloses(d, x)  PROVE PagesTyped
    <3> DEFINE p == [page[d] EXCEPT !.hidden = @ \cup {x}, !.timers = @ \cup {x}, !.toasts = @ \cup {x}]
               q == [page[d] EXCEPT !.timers = @ \ {x}, !.toasts = @ \ {x}, !.read = Sal!Rows(sale)]
               r == [page[d] EXCEPT !.toasts = @ \ {x}]
    <3>1. Accepts(p) /\ Accepts(q) /\ Accepts(r)
      BY <1>3 DEF Accepts
    <3>2. Sal!Set(d, p) \/ Sal!Set(d, q) \/ Sal!Set(d, r)
      BY <2>4 DEF Sal!Delete, Sal!Undo, Sal!ToastCloses
    <3> HIDE DEF p, q, r
    <3> QED BY <3>1, <3>2, SetTyped
  <2> QED BY <2>1, <2>2, <2>3, <2>4
<1>5. QuoteMoves
  BY <1>1, <1>2 DEF QuoteMoves, SaleInv, SaleTyped
<1> QED BY <1>4, <1>5, MovesKeep

(* What the page asks of the server, besides declining and accepting. *)
LEMMA AskSteps ==
    ASSUME SaleInv, NEW d \in Sal!Desks,
           Sal!createCustomer(d) \/ Sal!createDraftEstimate(d) \/ Sal!generateQuote(d) \/ Sal!sendQuote(d) \/ Sal!createInvoice(d)
    PROVE  SaleInv'
<1>1. DOMAIN log' = DOMAIN log /\ log'.declined = log.declined
  BY SaleBudget DEF Sal!createCustomer, Sal!createDraftEstimate, Sal!generateQuote, Sal!sendQuote, Sal!createInvoice
<1>2. dealing' = dealing /\ Sal!Set(d, [page[d] EXCEPT !.asks = "done"])
  BY DEF Sal!createCustomer, Sal!createDraftEstimate, Sal!generateQuote, Sal!sendQuote, Sal!createInvoice, Sal!Ask
<1>3. PagesTyped
  <2> DEFINE p == [page[d] EXCEPT !.asks = "done"]
  <2>1. Accepts(p) /\ Sal!Set(d, p)
    BY <1>2 DEF Accepts, SaleInv, SaleTyped
  <2> HIDE DEF p
  <2> QED BY <2>1, SetTyped
<1>4. DOMAIN sale' = DOMAIN sale /\ sale'.job = sale.job /\ sale'.quote \in Quotes
      /\ (sale'.quote = sale.quote \/ sale.quote.st # "accepted")
  <2> USE DEF SaleInv, SaleTyped, Sal!Ask, Quotes
  <2>1. CASE Sal!createCustomer(d) \/ Sal!createDraftEstimate(d) \/ Sal!createInvoice(d)
    BY <2>1 DEF Sal!createCustomer, Sal!createDraftEstimate, Sal!createInvoice
  <2>2. CASE Sal!generateQuote(d)
    BY <2>2 DEF Sal!generateQuote, Sal!create_quote, Sal!NoQuote
  <2>3. CASE Sal!sendQuote(d)
    BY <2>3 DEF Sal!sendQuote, Sal!update_quote
  <2> QED BY <2>1, <2>2, <2>3
<1> QED BY <1>1, <1>2, <1>3, <1>4, MovesKeep DEF QuoteMoves

LEMMA DeclineStep == ASSUME SaleInv, NEW d \in Sal!Desks, Sal!declineQuote(d) PROVE SaleInv'
<1>1. /\ log' = [log EXCEPT !.acts = @ + 1, !.declined = @ \/ sale.quote.st = "accepted"]
      /\ Sal!Ask(d, IF Sal!decline_quote(sale) THEN [sale EXCEPT !.quote.st = "declined"] ELSE sale)
  BY DEF Sal!declineQuote
<1>2. DOMAIN log' = DOMAIN log /\ log'.declined = (log.declined \/ sale.quote.st = "accepted")
      /\ log'.declined \in BOOLEAN
  BY <1>1 DEF SaleInv, SaleTyped
<1>3. dealing' = dealing /\ Sal!Set(d, [page[d] EXCEPT !.asks = "done"])
  BY <1>1 DEF Sal!Ask
<1>4. PagesTyped
  <2> DEFINE p == [page[d] EXCEPT !.asks = "done"]
  <2>1. Accepts(p) /\ Sal!Set(d, p)
    BY <1>3 DEF Accepts, SaleInv, SaleTyped
  <2> HIDE DEF p
  <2> QED BY <2>1, SetTyped
<1>5. DOMAIN sale' = DOMAIN sale /\ sale'.job = sale.job /\ sale'.quote \in Quotes
  BY <1>1 DEF SaleInv, SaleTyped, Sal!Ask, Quotes
<1>6. Sal!JobKeepsItsQuote'
  <2>1. ASSUME sale.job # Sal!None, ~log.declined  PROVE sale.quote.st = "accepted"
    BY <2>1 DEF SaleInv, Sal!JobKeepsItsQuote
  <2>2. log.declined \/ sale.quote.st = "accepted" => log'.declined
    BY <1>2
  <2> QED BY <1>5, <2>1, <2>2 DEF Sal!JobKeepsItsQuote
<1> QED BY <1>2, <1>3, <1>4, <1>5, <1>6 DEF SaleInv, SaleTyped, PagesTyped, Accepts

(* A deletion that runs out takes no accepted quote. *)
LEMMA TimerStep == ASSUME SaleInv, NEW d \in Sal!Desks, NEW x, Sal!TimerFires(d, x) PROVE SaleInv'
<1>1. dealing' = dealing /\ log' = log
  BY DEF Sal!TimerFires
<1>2. \/ sale' = sale
      \/ sale' = [sale EXCEPT !.estimate = FALSE]
      \/ Sal!delete_quote(sale) /\ sale' = [sale EXCEPT !.quote = [Sal!NoQuote EXCEPT !.st = "gone"]]
  BY DEF Sal!TimerFires
<1>3. QuoteMoves
  BY <1>1, <1>2 DEF QuoteMoves, Sal!delete_quote, Sal!NoQuote, SaleInv, SaleTyped, Quotes
<1>4. PagesTyped
  <2>1. PICK r : Sal!Set(d, [page[d] EXCEPT !.timers = @ \ {x}, !.read = r])
    BY Zenon DEF Sal!TimerFires
  <2> DEFINE p == [page[d] EXCEPT !.timers = @ \ {x}, !.read = r]
  <2>2. Accepts(p) /\ Sal!Set(d, p)
    BY <2>1 DEF Accepts, SaleInv, SaleTyped
  <2> HIDE DEF p
  <2> QED BY <2>2, SetTyped
<1> QED BY <1>3, <1>4, MovesKeep

(* The customer's page, the invoice dialog and the calendar leave quote and job alone. *)
LEMMA OtherSteps ==
    ASSUME SaleInv, Sal!OpenProposal \/ Sal!ProposalAnswer \/ Sal!Expires \/ Sal!OpenInvoice \/ Sal!emailInvoice \/ Sal!InvoiceAnswer
    PROVE  SaleInv'
<1>1. dealing' = dealing /\ page' = page
  BY Zenon DEF Sal!OpenProposal, Sal!ProposalAnswer, Sal!Expires, Sal!OpenInvoice, Sal!emailInvoice, Sal!InvoiceAnswer
<1>2. DOMAIN log' = DOMAIN log /\ log'.declined = log.declined
  BY SaleBudget, Zenon DEF Sal!OpenProposal, Sal!ProposalAnswer, Sal!Expires, Sal!OpenInvoice, Sal!emailInvoice, Sal!InvoiceAnswer
<1>3. sale'.quote = sale.quote /\ sale'.job = sale.job /\ DOMAIN sale' = DOMAIN sale
  BY Zenon DEF Sal!OpenProposal, Sal!ProposalAnswer, Sal!Expires, Sal!OpenInvoice, Sal!emailInvoice, Sal!InvoiceAnswer, SaleInv, SaleTyped
<1>4. PagesTyped
  BY <1>1 DEF PagesTyped, SaleInv, SaleTyped
<1>5. QuoteMoves
  BY <1>1, <1>2, <1>3 DEF QuoteMoves, SaleInv, SaleTyped
<1> QED BY <1>4, <1>5, MovesKeep

(* An acceptance begins: it finds no job, or one whose quote was declined. *)
LEMMA BeginKeeps ==
    ASSUME SaleInv, NEW x \in Sal!Accepting, NEW k \in Packages, Sal!Begin(x, k), ~Sal!Idempotent(sale),
           sale' = sale, DOMAIN log' = DOMAIN log, log'.declined = log.declined, PagesTyped
    PROVE  SaleInv'
<1>1. dealing' = [dealing EXCEPT ![x] = [on |-> TRUE, pkg |-> k, fresh |-> sale.job = Sal!None]]
  BY DEF Sal!Begin
<1>2. sale.job = Sal!None \/ log.declined
  BY DEF Sal!Idempotent, SaleInv, Sal!JobKeepsItsQuote
<1>3. dealing' \in [Sal!Accepting -> [on : BOOLEAN, pkg : Packages \cup {Sal!None}, fresh : BOOLEAN]]
  BY <1>1 DEF SaleInv, SaleTyped
<1>4. \A y \in Sal!Accepting : dealing'[y].on => dealing'[y].pkg \in Packages /\ (dealing'[y].fresh \/ log.declined)
  BY <1>1, <1>2 DEF SaleInv, SaleTyped
<1> QED BY <1>3, <1>4 DEF SaleInv, SaleTyped, PagesTyped, Accepts, Sal!JobKeepsItsQuote

LEMMA ConfirmStep == ASSUME SaleInv, NEW d \in Sal!Desks, Sal!confirmAccept(d) PROVE SaleInv'
<1>1. sale' = sale /\ DOMAIN log' = DOMAIN log /\ log'.declined = log.declined
  BY SaleBudget, Zenon DEF Sal!confirmAccept
<1>2. PagesTyped
  <2>1. PICK a : Sal!Set(d, [page[d] EXCEPT !.asks = a])
    BY Zenon DEF Sal!confirmAccept
  <2> DEFINE p == [page[d] EXCEPT !.asks = a]
  <2>2. Accepts(p) /\ Sal!Set(d, p)
    BY <2>1 DEF Accepts, SaleInv, SaleTyped
  <2> HIDE DEF p
  <2> QED BY <2>2, SetTyped
<1>3. CASE dealing' = dealing
  BY <1>1, <1>2, <1>3, MovesKeep DEF QuoteMoves, SaleInv, SaleTyped
<1>4. CASE Sal!Begin(d, page[d].accept) /\ ~Sal!Idempotent(sale)
  <2>1. page[d].accept \in Packages /\ d \in Sal!Accepting
    BY Zenon DEF Sal!confirmAccept, SaleInv, SaleTyped, Accepts, Sal!Accepting
  <2> QED BY <1>1, <1>2, <1>4, <2>1, BeginKeeps
<1> QED BY <1>3, <1>4, Zenon DEF Sal!confirmAccept

LEMMA CustomerStep == ASSUME SaleInv, Sal!accept PROVE SaleInv'
<1>1. sale' = sale /\ page' = page /\ DOMAIN log' = DOMAIN log /\ log'.declined = log.declined
  BY SaleBudget DEF Sal!accept
<1>2. PagesTyped
  BY <1>1 DEF PagesTyped, SaleInv, SaleTyped
<1>3. CASE dealing' = dealing
  BY <1>1, <1>2, <1>3, MovesKeep DEF QuoteMoves, SaleInv, SaleTyped
<1>4. CASE Sal!public_accept(sale) /\ \E k \in Packages : Sal!Begin("customer", k)
  <2>1. ~Sal!Idempotent(sale) /\ "customer" \in Sal!Accepting
    BY <1>4 DEF Sal!public_accept, Sal!Idempotent, Sal!Accepting
  <2> QED BY <1>1, <1>2, <1>4, <2>1, BeginKeeps
<1> QED BY <1>3, <1>4 DEF Sal!accept

(* It commits: as the first of its quote, or for a quote declined behind it. *)
LEMMA SaleCommitStep == ASSUME SaleInv, NEW x \in Sal!Accepting, Sal!AcceptCommit(x) PROVE SaleInv'
<1> DEFINE k == dealing[x].pkg
<1>1. /\ dealing[x].on /\ log' = log
      /\ sale' = IF Sal!Commits(x) THEN Sal!Accepted(sale, k) ELSE sale
      /\ dealing' = [dealing EXCEPT ![x] = [on |-> FALSE, pkg |-> Sal!None, fresh |-> FALSE]]
  BY DEF Sal!AcceptCommit
<1>2. k \in Packages /\ (dealing[x].fresh \/ log.declined)
  BY <1>1 DEF SaleInv
<1>3. /\ dealing' \in [Sal!Accepting -> [on : BOOLEAN, pkg : Packages \cup {Sal!None}, fresh : BOOLEAN]]
      /\ \A y \in Sal!Accepting : dealing'[y].on => dealing'[y].pkg \in Packages /\ (dealing'[y].fresh \/ log.declined)
  BY <1>1 DEF SaleInv, SaleTyped
<1>4. PagesTyped
  <2>1. CASE x = "customer"
    BY <2>1 DEF Sal!AcceptCommit, PagesTyped, SaleInv, SaleTyped
  <2>2. CASE x # "customer"
    <3> DEFINE p == [page[x] EXCEPT !.asks = "done"]
    <3>1. x \in Sal!Desks
      BY <2>2 DEF Sal!Accepting
    <3>2. Accepts(p) /\ Sal!Set(x, p)
      BY <2>2, <3>1 DEF Sal!AcceptCommit, Accepts, SaleInv, SaleTyped
    <3> HIDE DEF p
    <3> QED BY <3>1, <3>2, SetTyped
  <2> QED BY <2>1, <2>2
<1>5. CASE ~Sal!Commits(x)
  BY <1>1, <1>3, <1>4, <1>5 DEF SaleInv, SaleTyped, PagesTyped, Accepts, Sal!JobKeepsItsQuote
<1>6. CASE Sal!Commits(x)
  <2>1. /\ DOMAIN sale' = DOMAIN sale /\ sale'.quote = [st |-> "accepted", pkg |-> k]
        /\ sale'.job = IF sale.job = Sal!None THEN k ELSE sale.job
    BY <1>1, <1>6 DEF Sal!Accepted, SaleInv, SaleTyped
  <2>2. sale.job = Sal!None \/ log.declined
    BY <1>2, <1>6 DEF Sal!Commits
  <2>3. sale'.quote \in Quotes /\ sale'.job \in Packages \cup {Sal!None}
    BY <1>2, <2>1 DEF Quotes, SaleInv, SaleTyped
  <2>4. Sal!JobKeepsItsQuote'
    BY <1>1, <2>1, <2>2 DEF Sal!JobKeepsItsQuote
  <2> QED BY <1>1, <1>3, <1>4, <2>1, <2>3, <2>4 DEF SaleInv, SaleTyped, PagesTyped, Accepts
<1> QED BY <1>5, <1>6

LEMMA SaleStep == ASSUME SaleInv, Sal!Next PROVE SaleInv'
<1>1. ASSUME NEW d \in Sal!Desks,
             \/ Sal!LoadAnswer(d) \/ Sal!Answer(d) \/ Sal!createCustomer(d) \/ Sal!createDraftEstimate(d) \/ Sal!generateQuote(d)
             \/ Sal!sendQuote(d) \/ Sal!declineQuote(d) \/ Sal!openAccept(d) \/ Sal!cancelAccept(d) \/ Sal!confirmAccept(d)
             \/ Sal!createInvoice(d)
             \/ \E x \in {"estimate", "quote"} : Sal!Delete(d, x) \/ Sal!Undo(d, x) \/ Sal!TimerFires(d, x) \/ Sal!ToastCloses(d, x)
      PROVE  SaleInv'
  BY <1>1, SalePageSteps, AskSteps, DeclineStep, ConfirmStep, TimerStep
<1>2. CASE \E x \in Sal!Accepting : Sal!AcceptCommit(x)
  BY <1>2, SaleCommitStep
<1> QED BY <1>1, <1>2, OtherSteps, CustomerStep DEF Sal!Next

LEMMA SaleRests == ASSUME SaleInv, UNCHANGED <<sale, dealing, page, cust, bill, log>> PROVE SaleInv'
  BY DEF SaleInv, SaleTyped, Accepts, Sal!JobKeepsItsQuote

SalePart == part = "sales" => SaleInv

(* While there is a job its quote stands accepted for the package the job was made for, unless someone
   declined it from a stale page (quotes.py:49). *)
THEOREM SaleKept == PagesSpec => []JobKeepsItsQuote
<1>1. PagesInit => SalePart
  BY SaleStart DEF PagesInit, SalePart
<1>2. SalePart /\ [PagesNext]_pages => SalePart'
  <2> SUFFICES ASSUME SalePart, [PagesNext]_pages, part' = "sales" PROVE SaleInv'
    BY DEF SalePart
  <2>1. CASE SalesStep
    BY <2>1, SaleStep DEF SalePart, SalesStep
  <2>2. CASE EstimatingStep \/ StockStep \/ PurchasingStep \/ CanvassStep \/ MaterialsStep \/ BackupsStep
             \/ SiteStep \/ ProposalStep
    BY <2>2 DEF EstimatingStep, StockStep, PurchasingStep, CanvassStep, MaterialsStep, BackupsStep,
             SiteStep, ProposalStep
  <2>3. CASE UNCHANGED pages
    BY <2>3, SaleRests DEF SalePart, pages, sales
  <2> QED
    BY <2>1, <2>2, <2>3 DEF PagesNext
<1>3. SalePart => JobKeepsItsQuote
  BY DEF SalePart, SaleInv, JobKeepsItsQuote
<1> QED
  BY <1>1, <1>2, <1>3, PTL DEF PagesSpec

(***************************************************************************)
(* Stock and what jobs hold of it.                                         *)
(***************************************************************************)
(* Pages and stock, typed as far as a reservation reads them. *)
PageTyped(p) == /\ {"job", "move", "plan"} \subseteq DOMAIN p /\ p.job \in Stk!Jobs /\ p.move.qty \in Nat
                /\ p.plan.lines \in 0..Len(srv.need[p.job])
StockTyped ==
    /\ DOMAIN srv = {"bal", "onhand", "opening", "ledger", "held", "need", "made", "ordered"}
    /\ srv.onhand \in Int
    /\ srv.held \in [Stk!Jobs \cup {Stk!NoOne} -> Int]
    /\ srv.need \in [Stk!Jobs -> Seq(Nat)] /\ srv.made \in [Stk!Jobs -> BOOLEAN]
    /\ booking \in [Stk!Desks -> [on : BOOLEAN, job : Stk!Jobs \cup {Stk!NoOne}, delta : Int]]
    /\ DOMAIN jobPage = Stk!Desks /\ \A d \in Stk!Desks : PageTyped(jobPage[d])
(* What a desk is about to write leaves no excess, and no other desk is writing. *)
StockInv ==
    /\ StockTyped
    /\ Stk!ReservedIsHeld
    /\ \A d \in Stk!Desks : booking[d].on => booking[d].job \in Stk!Jobs /\ srv.held[booking[d].job] + booking[d].delta <= 0
    /\ \A d, e \in Stk!Desks : booking[d].on /\ booking[e].on => d = e

LEMMA StockStart == ASSUME Stk!Init PROVE StockInv
<1>1. PICK n \in Stk!Qtys, made \in BOOLEAN :
         srv = [bal |-> [yard |-> n, truck |-> 1], onhand |-> n + 1, opening |-> n + 1, ledger |-> 0,
                held |-> [x \in Stk!Jobs \cup {Stk!NoOne} |-> 0],
                need |-> [j \in Stk!Jobs |-> IF made THEN <<Stk!Quoted>> ELSE <<>>],
                made |-> [j \in Stk!Jobs |-> made], ordered |-> [j \in Stk!Jobs |-> 0]]
  BY DEF Stk!Init
<1>2. booking = [d \in Stk!Desks |-> Stk!Idle]
  BY DEF Stk!Init
<1>4. n \in Int
  BY StockAssumption DEF Stk!Qtys
<1>5. Stk!Idle \in [on : BOOLEAN, job : Stk!Jobs \cup {Stk!NoOne}, delta : Int] /\ ~Stk!Idle.on
  BY DEF Stk!Idle
<1>6. srv.need \in [Stk!Jobs -> Seq(Nat)]
  BY <1>1 DEF Stk!Quoted
<1>3. DOMAIN jobPage = Stk!Desks /\ \A d \in Stk!Desks : PageTyped(jobPage[d])
  <2>1. PICK i \in Stk!Jobs : jobPage = [d \in Stk!Desks |-> Stk!NewPage(IF d = "a" THEN "j" ELSE i)]
    BY DEF Stk!Init
  <2>2. \A j \in Stk!Jobs : Len(srv.need[j]) \in Nat
    BY <1>6
  <2>3. \A j \in Stk!Jobs : PageTyped(Stk!NewPage(j))
    <3>1. ASSUME NEW j \in Stk!Jobs  PROVE PageTyped(Stk!NewPage(j))
      <4>1. Stk!NewPage(j).job = j /\ Stk!NewPage(j).move = Stk!NoMove /\ Stk!NewPage(j).plan = Stk!NoPlan
            /\ {"job", "move", "plan"} \subseteq DOMAIN Stk!NewPage(j)
        BY DEF Stk!NewPage
      <4>2. Stk!NoMove.qty = 0 /\ Stk!NoPlan.lines = 0
        BY DEF Stk!NoMove, Stk!NoPlan
      <4> QED BY <2>2, <4>1, <4>2 DEF PageTyped
    <3> QED BY <3>1
  <2> QED BY <2>1, <2>3 DEF Stk!Jobs
<1>7. srv.held \in [Stk!Jobs \cup {Stk!NoOne} -> Int] /\ \A j \in Stk!Jobs : srv.held[j] = 0
  BY <1>1
<1>8. StockTyped
  BY <1>1, <1>2, <1>3, <1>4, <1>5, <1>6, <1>7 DEF StockTyped
<1> QED BY <1>2, <1>5, <1>7, <1>8 DEF StockInv, Stk!ReservedIsHeld

(* Each movement of stock leaves the reservations as they are, or gives a job's back in part. *)
Moved(o) ==
    /\ DOMAIN o = DOMAIN srv /\ o.onhand \in Int
    /\ o.held \in [Stk!Jobs \cup {Stk!NoOne} -> Int]
    /\ o.need \in [Stk!Jobs -> Seq(Nat)] /\ o.made \in [Stk!Jobs -> BOOLEAN]
    /\ \A j \in Stk!Jobs : o.held[j] <= 0 /\ Len(o.need[j]) >= Len(srv.need[j])

LEMMA MovedKeeps ==
    ASSUME StockInv, Moved(srv'), \A d \in Stk!Desks : ~booking[d].on, booking' = booking,
           DOMAIN jobPage' = Stk!Desks, \A d \in Stk!Desks : PageTyped(jobPage'[d])
    PROVE  StockInv'
<1>1. \A d \in Stk!Desks : PageTyped(jobPage[d])'
  <2>1. ASSUME NEW d \in Stk!Desks  PROVE PageTyped(jobPage'[d]) /\ jobPage'[d].job \in Stk!Jobs
    BY DEF PageTyped
  <2>2. \A j \in Stk!Jobs : Len(srv'.need[j]) \in Nat /\ Len(srv.need[j]) \in Nat
    BY DEF Moved, StockInv, StockTyped
  <2>3. \A j \in Stk!Jobs : Len(srv'.need[j]) >= Len(srv.need[j])
    BY DEF Moved
  <2> QED BY <2>1, <2>2, <2>3 DEF PageTyped
<1> QED BY <1>1 DEF StockInv, StockTyped, Moved, Stk!ReservedIsHeld

LEMMA PageSet ==
    ASSUME StockTyped, NEW d \in Stk!Desks, NEW p, PageTyped(p), Stk!Set(d, p)
    PROVE  DOMAIN jobPage' = Stk!Desks /\ \A e \in Stk!Desks : PageTyped(jobPage'[e])
  BY DEF StockTyped, Stk!Set

LEMMA CalmIsIdle ==
    ASSUME "overlap" \notin Without, Stk!Calm \/ Stk!Act \/ Stk!Event  PROVE \A d \in Stk!Desks : ~booking[d].on
  BY DEF Stk!Calm, Stk!Act, Stk!Event

LEMMA HeldMoves ==
    ASSUME StockInv, NEW o, Moved(o), NEW j \in Stk!Jobs, NEW n \in Int, o.held[j] + n <= 0
    PROVE  Moved(Stk!Held(o, j, n))
<1> DEFINE h == Stk!Held(o, j, n)
<1>1. o.held \in [Stk!Jobs \cup {Stk!NoOne} -> Int] /\ "held" \in DOMAIN o
  BY DEF Moved, StockInv, StockTyped
<1>2. /\ DOMAIN h = DOMAIN o /\ h.onhand = o.onhand /\ h.need = o.need /\ h.made = o.made
      /\ h.held = [o.held EXCEPT ![j] = @ + n]
  BY <1>1 DEF Stk!Held, Moved, StockInv, StockTyped
<1>3. h.held \in [Stk!Jobs \cup {Stk!NoOne} -> Int] /\ \A i \in Stk!Jobs : h.held[i] <= 0
  BY <1>1, <1>2 DEF Moved
<1> QED BY <1>2, <1>3 DEF Moved

LEMMA LocationMoves ==
    ASSUME StockInv, NEW o, Moved(o), NEW at, NEW n, (Stk!add_at_location(o, at, n)).onhand \in Int
    PROVE  Moved(Stk!add_at_location(o, at, n)) /\ (Stk!add_at_location(o, at, n)).held = o.held
  BY DEF Stk!add_at_location, Moved, StockInv, StockTyped

LEMMA SameMoves == ASSUME StockInv PROVE Moved(srv)
  BY DEF Moved, StockInv, StockTyped, Stk!ReservedIsHeld

(* Release and closing give back what the job holds, an issue no more than that. *)
LEMMA HeldIsReserved ==
    ASSUME StockInv, NEW j \in Stk!Jobs
    PROVE  /\ srv.held[j] \in Int /\ srv.held[j] <= 0 /\ Stk!reserved_for_job(srv, j) = -srv.held[j]
           /\ \A q \in Nat : Stk!consumed(srv, j, q) \in Int /\ srv.held[j] + Stk!consumed(srv, j, q) <= 0
<1>1. srv.held[j] \in Int /\ srv.held[j] <= 0
  BY DEF StockInv, StockTyped, Stk!ReservedIsHeld
<1>2. Stk!reserved_for_job(srv, j) = -srv.held[j]
  BY <1>1 DEF Stk!reserved_for_job, Stk!Abs
<1> QED BY <1>1, <1>2 DEF Stk!consumed, Stk!AtMost

LEMMA ReserveBooks ==
    ASSUME StockInv, NEW j \in Stk!Jobs, NEW n \in Nat  PROVE Stk!reserve(srv, j, n) \in Nat
<1>1. Stk!compute_available(srv) \in Int
  <2>1. srv.onhand \in Int /\ \A i \in Stk!Jobs \cup {Stk!NoOne} : srv.held[i] \in Int
    BY DEF StockInv, StockTyped
  <2>2. srv.held["j"] \in Int /\ srv.held["k"] \in Int /\ srv.held[Stk!NoOne] \in Int
    BY <2>1 DEF Stk!Jobs
  <2> QED BY <2>1, <2>2 DEF Stk!compute_available, Stk!Abs
<1>2. Stk!reserved_for_job(srv, j) \in Int
  BY HeldIsReserved
<1> QED BY <1>1, <1>2 DEF Stk!reserve, Stk!AtLeast0, Stk!AtMost

LEMMA WithinTyped == ASSUME NEW o, Stk!Within(o) PROVE o.onhand \in Int
  BY StockAssumption DEF Stk!Within

(* The job page. *)
LEMMA StockPageSteps ==
    ASSUME StockInv, "overlap" \notin Without, NEW d \in Stk!Desks,
           \/ Stk!LoadAnswer(d) \/ Stk!OpenMove(d) \/ Stk!openProposal(d) \/ Stk!createPOs(d) \/ Stk!CancelProposal(d)
    PROVE  StockInv'
<1>1. srv' = srv /\ booking' = booking
  BY DEF Stk!LoadAnswer, Stk!OpenMove, Stk!openProposal, Stk!createPOs, Stk!CancelProposal
<1>2. PageTyped(jobPage[d])
  BY DEF StockInv, StockTyped
<1>3. \E p : PageTyped(p) /\ Stk!Set(d, p)
  <2>1. CASE Stk!LoadAnswer(d)
    <3> DEFINE p == [jobPage[d] EXCEPT !.want = FALSE, !.plan = Stk!rollup(srv, jobPage[d].job)]
               q == [jobPage[d] EXCEPT !.want = FALSE]
    <3>1. Stk!rollup(srv, jobPage[d].job).lines = Len(srv.need[jobPage[d].job])
      BY DEF Stk!rollup
    <3>2. Len(srv.need[jobPage[d].job]) \in Nat
      BY <1>2 DEF PageTyped, StockInv, StockTyped
    <3>3. PageTyped(p) /\ PageTyped(q)
      BY <1>2, <3>1, <3>2 DEF PageTyped
    <3>4. Stk!Set(d, p) \/ Stk!Set(d, q)
      BY <2>1 DEF Stk!LoadAnswer
    <3> HIDE DEF p, q
    <3> QED BY <3>3, <3>4
  <2>2. CASE Stk!OpenMove(d)
    <3>1. PICK kind \in {"issue", "return", "waste"}, n \in Stk!Qtys, at \in Stk!Stores :
             Stk!Set(d, [jobPage[d] EXCEPT !.move = [kind |-> kind, qty |-> n, at |-> at]])
      BY <2>2 DEF Stk!OpenMove
    <3> DEFINE p == [jobPage[d] EXCEPT !.move = [kind |-> kind, qty |-> n, at |-> at]]
    <3>2. n \in Nat
      BY StockAssumption DEF Stk!Qtys
    <3>3. PageTyped(p) /\ Stk!Set(d, p)
      BY <1>2, <3>1, <3>2 DEF PageTyped
    <3> HIDE DEF p
    <3> QED BY <3>3
  <2>3. CASE Stk!openProposal(d) \/ Stk!CancelProposal(d)
    <3>1. PICK l : Stk!Set(d, [jobPage[d] EXCEPT !.prop = l])
      BY <2>3 DEF Stk!openProposal, Stk!CancelProposal
    <3> DEFINE p == [jobPage[d] EXCEPT !.prop = l]
    <3>2. PageTyped(p) /\ Stk!Set(d, p)
      BY <1>2, <3>1 DEF PageTyped
    <3> HIDE DEF p
    <3> QED BY <3>2
  <2>4. CASE Stk!createPOs(d)
    <3> DEFINE p == [jobPage[d] EXCEPT !.todo = {l.sup : l \in Stk!ToSet(jobPage[d].prop)}]
    <3>1. PageTyped(p) /\ Stk!Set(d, p)
      BY <1>2, <2>4 DEF Stk!createPOs, PageTyped
    <3> HIDE DEF p
    <3> QED BY <3>1
  <2> QED BY <2>1, <2>2, <2>3, <2>4
<1>4. DOMAIN jobPage' = Stk!Desks /\ \A e \in Stk!Desks : PageTyped(jobPage'[e])
  BY <1>2, <1>3, PageSet DEF StockInv
<1> QED BY <1>1, <1>4 DEF StockInv, StockTyped, Stk!ReservedIsHeld, PageTyped

LEMMA PostKeeps ==
    ASSUME StockInv, NEW d \in Stk!Desks, NEW o, Moved(o), Stk!Post(d, o), \A e \in Stk!Desks : ~booking[e].on
    PROVE  StockInv'
<1> DEFINE p == [jobPage[d] EXCEPT !.want = TRUE, !.move = Stk!NoMove]
<1>1. PageTyped(jobPage[d])
  BY DEF StockInv, StockTyped
<1>2. PageTyped(p) /\ Stk!Set(d, p)
  BY <1>1, Zenon DEF Stk!Post, PageTyped, Stk!NoMove
<1> HIDE DEF p
<1>3. DOMAIN jobPage' = Stk!Desks /\ \A e \in Stk!Desks : PageTyped(jobPage'[e])
  BY <1>1, <1>2, PageSet DEF StockInv
<1>4. srv' = o /\ booking' = booking
  BY DEF Stk!Post
<1>5. Moved(srv')
  BY <1>4 DEF Moved
<1> QED BY <1>3, <1>4, <1>5, MovedKeeps

LEMMA GenerateStep ==
    ASSUME StockInv, "overlap" \notin Without, NEW d \in Stk!Desks, Stk!generate(d) PROVE StockInv'
<1> DEFINE j == jobPage[d].job
           o == Stk!Generated(srv, j)
<1>1. /\ DOMAIN srv = {"bal", "onhand", "opening", "ledger", "held", "need", "made", "ordered"}
      /\ j \in Stk!Jobs /\ srv.need \in [Stk!Jobs -> Seq(Nat)] /\ srv.made \in [Stk!Jobs -> BOOLEAN]
  BY DEF StockInv, StockTyped, PageTyped
<1>2. o.need = [srv.need EXCEPT ![j] = IF srv.made[j] THEN @ ELSE Append(@, Stk!Quoted)]
      /\ o.made = [srv.made EXCEPT ![j] = TRUE] /\ o.onhand = srv.onhand /\ o.held = srv.held
      /\ DOMAIN o = DOMAIN srv
  BY <1>1 DEF Stk!Generated
<1>3. Append(srv.need[j], Stk!Quoted) \in Seq(Nat) /\ srv.need[j] \in Seq(Nat)
  BY <1>1 DEF Stk!Quoted
<1>4. o.need \in [Stk!Jobs -> Seq(Nat)] /\ o.made \in [Stk!Jobs -> BOOLEAN]
  BY <1>1, <1>2, <1>3
<1>5. Moved(o)
  <2>1. \A i \in Stk!Jobs : Len(o.need[i]) >= Len(srv.need[i])
    BY <1>1, <1>2, <1>3 DEF Stk!Quoted
  <2> QED BY <1>2, <1>4, <2>1, SameMoves DEF Moved
<1>6. Stk!Post(d, o) /\ \A e \in Stk!Desks : ~booking[e].on
  BY CalmIsIdle DEF Stk!generate
<1> QED BY <1>5, <1>6, PostKeeps

LEMMA AddStep ==
    ASSUME StockInv, "overlap" \notin Without, NEW d \in Stk!Desks, Stk!addMaterial(d) PROVE StockInv'
<1> DEFINE j == jobPage[d].job
<1>1. /\ DOMAIN srv = {"bal", "onhand", "opening", "ledger", "held", "need", "made", "ordered"}
      /\ j \in Stk!Jobs /\ srv.need \in [Stk!Jobs -> Seq(Nat)]
  BY DEF StockInv, StockTyped, PageTyped
<1>2. srv' = [srv EXCEPT !.need[j] = Append(@, 1)] /\ booking' = booking /\ jobPage' = jobPage
  BY DEF Stk!addMaterial
<1>3. srv'.need = [srv.need EXCEPT ![j] = Append(@, 1)] /\ srv'.onhand = srv.onhand
      /\ srv'.held = srv.held /\ srv'.made = srv.made /\ DOMAIN srv' = DOMAIN srv
  BY <1>1, <1>2
<1>4. srv'.need \in [Stk!Jobs -> Seq(Nat)]
  BY <1>1, <1>3
<1>5. Moved(srv')
  <2>1. \A i \in Stk!Jobs : Len(srv'.need[i]) >= Len(srv.need[i])
    BY <1>1, <1>3
  <2> QED BY <1>3, <1>4, <2>1, SameMoves DEF Moved
<1>6. \A e \in Stk!Desks : ~booking[e].on
  BY CalmIsIdle DEF Stk!addMaterial
<1> QED BY <1>2, <1>5, <1>6, MovedKeeps DEF StockInv, StockTyped

LEMMA CloseStep ==
    ASSUME StockInv, "overlap" \notin Without, NEW d \in Stk!Desks, Stk!saveSchedule(d) PROVE StockInv'
<1> DEFINE j == jobPage[d].job
<1>1. j \in Stk!Jobs
  BY DEF StockInv, StockTyped, PageTyped
<1>2. srv' = Stk!Held(srv, j, Stk!reserved_for_job(srv, j)) /\ booking' = booking /\ jobPage' = jobPage
  BY DEF Stk!saveSchedule, Stk!auto_release_reservations
<1>3. Stk!reserved_for_job(srv, j) \in Int /\ srv.held[j] + Stk!reserved_for_job(srv, j) <= 0
  BY <1>1, HeldIsReserved
<1>4. Moved(srv')
  <2>1. Moved(Stk!Held(srv, j, Stk!reserved_for_job(srv, j)))
    BY <1>1, <1>3, SameMoves, HeldMoves
  <2> QED BY <1>2, <2>1 DEF Moved
<1>5. \A e \in Stk!Desks : ~booking[e].on
  BY CalmIsIdle DEF Stk!saveSchedule
<1> QED BY <1>2, <1>4, <1>5, MovedKeeps DEF StockInv, StockTyped

LEMMA MoveStep ==
    ASSUME StockInv, "overlap" \notin Without, NEW d \in Stk!Desks, Stk!submitMove(d) PROVE StockInv'
<1> DEFINE m == jobPage[d].move
           j == jobPage[d].job
<1>1. \A e \in Stk!Desks : ~booking[e].on
  BY CalmIsIdle, Zenon DEF Stk!submitMove
<1>2. j \in Stk!Jobs /\ m.qty \in Nat
  BY DEF StockInv, StockTyped, PageTyped
<1>3. \E o : Moved(o) /\ Stk!Post(d, o)
  <2>1. CASE Stk!Post(d, Stk!return_to_stock(srv, m.at, m.qty))
    <3>1. (Stk!add_at_location(srv, m.at, m.qty)).onhand \in Int
      BY <2>1, WithinTyped DEF Stk!Post, Stk!return_to_stock
    <3>2. Moved(Stk!return_to_stock(srv, m.at, m.qty))
      BY <3>1, SameMoves, LocationMoves DEF Stk!return_to_stock
    <3> QED BY <2>1, <3>2
  <2>2. CASE Stk!Post(d, Stk!disposition(srv, m.at, m.qty))
    <3>1. CASE m.qty > srv.bal[m.at]
      BY <2>2, <3>1, SameMoves DEF Stk!disposition
    <3>2. CASE ~(m.qty > srv.bal[m.at])
      <4>1. (Stk!add_at_location(srv, m.at, -m.qty)).onhand \in Int
        BY <2>2, <3>2, WithinTyped DEF Stk!Post, Stk!disposition, Stk!remove_at_location
      <4>2. Moved(Stk!disposition(srv, m.at, m.qty))
        BY <3>2, <4>1, SameMoves, LocationMoves DEF Stk!disposition, Stk!remove_at_location
      <4> QED BY <2>2, <4>2
    <3> QED BY <3>1, <3>2
  <2>3. CASE Stk!Post(d, Stk!issue(srv, m.at, m.qty, j))
    <3>1. CASE m.qty > srv.bal[m.at]
      BY <2>3, <3>1, SameMoves DEF Stk!issue
    <3>2. CASE ~(m.qty > srv.bal[m.at])
      <4> DEFINE o == Stk!remove_at_location(srv, m.at, m.qty)
                 n == Stk!consumed(srv, j, m.qty)
      <4>1. Stk!issue(srv, m.at, m.qty, j) = Stk!Held(o, j, n)
        BY <3>2 DEF Stk!issue
      <4>2. (Stk!Held(o, j, n)).onhand \in Int
        BY <2>3, <4>1, WithinTyped DEF Stk!Post
      <4>3. DOMAIN o = DOMAIN srv /\ (Stk!Held(o, j, n)).onhand = o.onhand
        BY DEF Stk!remove_at_location, Stk!add_at_location, Stk!Held, StockInv, StockTyped
      <4>4. Moved(o) /\ o.held = srv.held
        BY <4>2, <4>3, SameMoves, LocationMoves DEF Stk!remove_at_location
      <4>5. n \in Int /\ o.held[j] + n <= 0
        BY <1>2, <4>4, HeldIsReserved
      <4>6. Moved(Stk!Held(o, j, n))
        BY <1>2, <4>4, <4>5, HeldMoves
      <4> QED BY <2>3, <4>1, <4>6
    <3> QED BY <3>1, <3>2
  <2> QED BY <2>1, <2>2, <2>3, Zenon DEF Stk!submitMove
<1> QED BY <1>1, <1>3, PostKeeps

LEMMA StockOrderStep ==
    ASSUME StockInv, "overlap" \notin Without, NEW d \in Stk!Desks, Stk!CreateNext(d) PROVE StockInv'
<1> DEFINE p == jobPage[d]
           Group(s) == SelectSeq(p.prop, LAMBDA l : l.sup = s)
           Sum(q) == Stk!Total([i \in DOMAIN q |-> q[i].qty])
<1>1. \A e \in Stk!Desks : ~booking[e].on
  BY CalmIsIdle DEF Stk!CreateNext
<1>2. booking' = booking
  BY DEF Stk!CreateNext
<1>3. PageTyped(p)
  BY DEF StockInv, StockTyped
<1>4. \E q : PageTyped(q) /\ Stk!Set(d, q)
  <2>1. PICK s \in p.todo :
           \/ Stk!Set(d, IF p.todo = {s} THEN [p EXCEPT !.todo = {}, !.prop = <<>>, !.want = TRUE]
                     ELSE [p EXCEPT !.todo = @ \ {s}])
           \/ Stk!Set(d, [p EXCEPT !.todo = {}])
    BY DEF Stk!CreateNext
  <2> DEFINE q1 == [p EXCEPT !.todo = {}, !.prop = <<>>, !.want = TRUE]
             q2 == [p EXCEPT !.todo = @ \ {s}]
             q3 == [p EXCEPT !.todo = {}]
  <2>2. PageTyped(q1) /\ PageTyped(q2) /\ PageTyped(q3)
    BY <1>3 DEF PageTyped
  <2>3. Stk!Set(d, q1) \/ Stk!Set(d, q2) \/ Stk!Set(d, q3)
    BY <2>1
  <2> HIDE DEF q1, q2, q3
  <2> QED BY <2>2, <2>3
<1>5. DOMAIN jobPage' = Stk!Desks /\ \A e \in Stk!Desks : PageTyped(jobPage'[e])
  BY <1>4, PageSet DEF StockInv
<1>6. Moved(srv')
  <2>1. CASE srv' = srv
    BY <2>1, SameMoves DEF Moved
  <2>2. CASE \E s \in p.todo : srv' = [srv EXCEPT !.ordered[p.job] = @ + Sum(Group(s))]
    <3>1. PICK n : srv' = [srv EXCEPT !.ordered[p.job] = @ + n]
      BY <2>2
    <3>2. /\ srv'.need = srv.need /\ srv'.made = srv.made /\ srv'.onhand = srv.onhand
          /\ srv'.held = srv.held /\ DOMAIN srv' = DOMAIN srv
      BY <3>1 DEF StockInv, StockTyped
    <3> QED BY <3>2, SameMoves DEF Moved
  <2> QED BY <2>1, <2>2 DEF Stk!CreateNext
<1> QED BY <1>1, <1>2, <1>5, <1>6, MovedKeeps

(* Reserve and release read what the job holds, and write before anything else is done. *)
LEMMA ReserveStep ==
    ASSUME StockInv, "overlap" \notin Without, NEW d \in Stk!Desks, Stk!ReserveReads(d) \/ Stk!ReleaseReads(d)
    PROVE  StockInv'
<1> DEFINE j == jobPage[d].job
<1>1. \A e \in Stk!Desks : ~booking[e].on
  BY CalmIsIdle DEF Stk!ReserveReads, Stk!ReleaseReads
<1>2. srv' = srv /\ jobPage' = jobPage /\ j \in Stk!Jobs
  BY DEF Stk!ReserveReads, Stk!ReleaseReads, StockInv, StockTyped, PageTyped
<1>3. PICK n \in Int : /\ booking' = [booking EXCEPT ![d] = [on |-> TRUE, job |-> j, delta |-> n]]
                       /\ srv.held[j] + n <= 0
  <2>1. CASE Stk!ReserveReads(d)
    <3>1. PICK i \in 1..Stk!Shown(d).lines :
             booking' = [booking EXCEPT ![d] = [on |-> TRUE, job |-> j, delta |-> -Stk!reserve(srv, j, srv.need[j][i])]]
      BY <2>1 DEF Stk!ReserveReads
    <3> DEFINE r == Stk!reserve(srv, j, srv.need[j][i])
    <3>2. i \in 1..Len(srv.need[j]) /\ srv.need[j] \in Seq(Nat)
      BY <1>2 DEF Stk!Shown, StockInv, StockTyped, PageTyped
    <3>3. srv.need[j][i] \in Nat
      BY <3>2
    <3>4. r \in Nat /\ srv.held[j] \in Int /\ srv.held[j] <= 0
      BY <1>2, <3>3, ReserveBooks, HeldIsReserved
    <3>5. booking' = [booking EXCEPT ![d] = [on |-> TRUE, job |-> j, delta |-> -r]]
      BY <3>1
    <3> HIDE DEF r
    <3>6. -r \in Int /\ srv.held[j] + (-r) <= 0
      BY <3>4
    <3> QED BY <3>5, <3>6
  <2>2. CASE Stk!ReleaseReads(d)
    <3>1. Stk!reserved_for_job(srv, j) \in Int /\ srv.held[j] + Stk!reserved_for_job(srv, j) <= 0
      BY <1>2, HeldIsReserved
    <3> QED BY <2>2, <3>1 DEF Stk!ReleaseReads
  <2> QED BY <2>1, <2>2
<1>4. booking' \in [Stk!Desks -> [on : BOOLEAN, job : Stk!Jobs \cup {Stk!NoOne}, delta : Int]]
  BY <1>2, <1>3 DEF StockInv, StockTyped
<1>5. \A e \in Stk!Desks : booking'[e].on => e = d
  BY <1>1, <1>3 DEF StockInv, StockTyped
<1>6. booking'[d].job = j /\ booking'[d].delta = n
  BY <1>3 DEF StockInv, StockTyped
<1>7. StockTyped'
  BY <1>2, <1>4 DEF StockInv, StockTyped, PageTyped
<1>8. Stk!ReservedIsHeld'
  BY <1>2 DEF StockInv, Stk!ReservedIsHeld
<1> HIDE DEF j
<1> QED BY <1>2, <1>3, <1>5, <1>6, <1>7, <1>8 DEF StockInv

LEMMA WriteStep ==
    ASSUME StockInv, NEW d \in Stk!Desks, Stk!Writes(d) PROVE StockInv'
<1> DEFINE j == booking[d].job
           n == booking[d].delta
<1>1. booking[d].on /\ j \in Stk!Jobs /\ n \in Int /\ srv.held[j] + n <= 0
  BY DEF Stk!Writes, StockInv, StockTyped
<1>2. srv' = Stk!Held(srv, j, n) /\ booking' = [booking EXCEPT ![d] = Stk!Idle]
  BY DEF Stk!Writes
<1>3. \A e \in Stk!Desks : ~booking'[e].on
  BY <1>1, <1>2 DEF Stk!Idle, StockInv, StockTyped
<1>4. booking' \in [Stk!Desks -> [on : BOOLEAN, job : Stk!Jobs \cup {Stk!NoOne}, delta : Int]]
  BY <1>2 DEF StockInv, StockTyped, Stk!Idle
<1>5. DOMAIN jobPage' = Stk!Desks /\ \A e \in Stk!Desks : PageTyped(jobPage'[e])
  <2> DEFINE p == [jobPage[d] EXCEPT !.want = TRUE]
  <2>1. PageTyped(p) /\ Stk!Set(d, p)
    BY DEF Stk!Writes, PageTyped, StockInv, StockTyped
  <2> HIDE DEF p
  <2> QED BY <2>1, PageSet DEF StockInv
<1>6. Moved(srv')
  <2>1. Moved(Stk!Held(srv, j, n))
    BY <1>1, SameMoves, HeldMoves
  <2> QED BY <1>2, <2>1 DEF Moved
<1>7. \A e \in Stk!Desks : PageTyped(jobPage[e])'
  <2>1. ASSUME NEW e \in Stk!Desks  PROVE PageTyped(jobPage'[e]) /\ jobPage'[e].job \in Stk!Jobs
    BY <1>5 DEF PageTyped
  <2>2. srv'.need = srv.need
    BY <1>2 DEF Stk!Held, StockInv, StockTyped
  <2> QED BY <2>1, <2>2 DEF PageTyped
<1> QED BY <1>3, <1>4, <1>5, <1>6, <1>7 DEF StockInv, StockTyped, Moved, Stk!ReservedIsHeld

(* The stock pages touch no job's reservation. *)
LEMMA ClerkStep ==
    ASSUME StockInv, "overlap" \notin Without,
           Stk!openDetail \/ Stk!startCount \/ Stk!submitCount \/ Stk!doTransfer \/ Stk!doAdjust \/ Stk!Receive
    PROVE  StockInv'
<1>1. \A e \in Stk!Desks : ~booking[e].on
  BY CalmIsIdle, Zenon DEF Stk!openDetail, Stk!startCount, Stk!submitCount, Stk!doTransfer, Stk!doAdjust, Stk!Receive
<1>2. booking' = booking /\ jobPage' = jobPage
  BY Zenon DEF Stk!openDetail, Stk!startCount, Stk!submitCount, Stk!doTransfer, Stk!doAdjust, Stk!Receive
<1>3. Moved(srv')
  <2>1. CASE Stk!openDetail \/ Stk!startCount
    BY <2>1, SameMoves, Zenon DEF Moved, Stk!openDetail, Stk!startCount
  <2>2. CASE Stk!submitCount
    <3> DEFINE n == clerk.count - srv.bal[clerk.at]
    <3>1. CASE srv' = srv
      BY <3>1, SameMoves DEF Moved
    <3>2. CASE srv' = Stk!add_at_location(srv, clerk.at, n)
      <4>1. (Stk!add_at_location(srv, clerk.at, n)).onhand \in Int
        BY <2>2, <3>2, WithinTyped DEF Stk!submitCount
      <4>2. Moved(Stk!add_at_location(srv, clerk.at, n))
        BY <4>1, SameMoves, LocationMoves
      <4> QED BY <3>2, <4>2 DEF Moved
    <3> QED BY <2>2, <3>1, <3>2 DEF Stk!submitCount, Stk!cycle_count_adjust
  <2>3. CASE Stk!doTransfer
    <3>1. PICK src \in Stk!Stores, dst \in Stk!Stores, q \in Stk!Qtys : srv' = Stk!transfer(srv, src, dst, q)
      BY <2>3 DEF Stk!doTransfer
    <3>2. /\ srv'.need = srv.need /\ srv'.made = srv.made /\ srv'.onhand = srv.onhand
          /\ srv'.held = srv.held /\ DOMAIN srv' = DOMAIN srv
      BY <3>1 DEF Stk!transfer, StockInv, StockTyped
    <3> QED BY <3>2, SameMoves DEF Moved
  <2>4. CASE Stk!doAdjust
    <3>1. PICK delta \in {-1, 1}, r \in BOOLEAN : srv' = Stk!adjust_material(srv, delta, r) /\ Stk!Within(srv')
      BY <2>4 DEF Stk!doAdjust
    <3>2. CASE r
      <4>1. /\ srv'.need = srv.need /\ srv'.made = srv.made /\ srv'.onhand = srv.onhand
            /\ srv'.held = [srv.held EXCEPT ![Stk!NoOne] = @ + delta] /\ DOMAIN srv' = DOMAIN srv
        BY <3>1, <3>2 DEF Stk!adjust_material, Stk!Held, StockInv, StockTyped
      <4>2. srv'.held \in [Stk!Jobs \cup {Stk!NoOne} -> Int] /\ \A j \in Stk!Jobs : srv'.held[j] = srv.held[j]
        <5>1. Stk!NoOne \notin Stk!Jobs
          BY DEF Stk!Jobs, Stk!NoOne
        <5>2. srv.held \in [Stk!Jobs \cup {Stk!NoOne} -> Int] /\ delta \in Int
          BY DEF StockInv, StockTyped
        <5> QED BY <4>1, <5>1, <5>2
      <4> QED BY <4>1, <4>2, SameMoves DEF Moved
    <3>3. CASE ~r /\ srv.onhand + delta >= 0
      <4>1. srv' = Stk!add_at_location(srv, Stk!Yard, delta)
        BY <3>1, <3>3 DEF Stk!adjust_material
      <4>2. (Stk!add_at_location(srv, Stk!Yard, delta)).onhand \in Int
        BY <3>1, <4>1, WithinTyped
      <4>3. Moved(Stk!add_at_location(srv, Stk!Yard, delta))
        BY <4>2, SameMoves, LocationMoves
      <4> QED BY <4>1, <4>3 DEF Moved
    <3>4. CASE ~r /\ ~(srv.onhand + delta >= 0)
      BY <3>1, <3>4, SameMoves DEF Stk!adjust_material, Moved
    <3> QED BY <3>2, <3>3, <3>4
  <2>5. CASE Stk!Receive
    <3>1. PICK j \in Stk!Jobs, at \in Stk!Stores :
             srv' = [Stk!add_at_location(srv, at, srv.ordered[j]) EXCEPT !.ordered[j] = 0]
      BY <2>5 DEF Stk!Receive
    <3>2. /\ srv'.need = srv.need /\ srv'.made = srv.made
          /\ srv'.held = srv.held /\ DOMAIN srv' = DOMAIN srv
      BY <3>1 DEF Stk!add_at_location, StockInv, StockTyped
    <3>3. srv'.onhand \in Int
      BY <2>5, WithinTyped DEF Stk!Receive
    <3> QED BY <3>2, <3>3, SameMoves DEF Moved
  <2> QED BY <2>1, <2>2, <2>3, <2>4, <2>5
<1> QED BY <1>1, <1>2, <1>3, MovedKeeps DEF StockInv, StockTyped

LEMMA StockKept == ASSUME StockInv, "overlap" \notin Without, Stk!Next PROVE StockInv'
<1>1. ASSUME NEW d \in Stk!Desks,
             \/ Stk!LoadAnswer(d) \/ Stk!generate(d) \/ Stk!addMaterial(d) \/ Stk!saveSchedule(d)
             \/ Stk!ReserveReads(d) \/ Stk!ReleaseReads(d) \/ Stk!Writes(d) \/ Stk!OpenMove(d) \/ Stk!submitMove(d)
             \/ Stk!openProposal(d) \/ Stk!createPOs(d) \/ Stk!CreateNext(d) \/ Stk!CancelProposal(d)
      PROVE  StockInv'
  BY <1>1, StockPageSteps, GenerateStep, AddStep, CloseStep, MoveStep, StockOrderStep, ReserveStep, WriteStep
<1> QED BY <1>1, ClerkStep DEF Stk!Next

LEMMA StockRests == ASSUME StockInv, UNCHANGED <<srv, booking, jobPage, clerk, log>> PROVE StockInv'
  BY DEF StockInv, StockTyped, PageTyped, Stk!ReservedIsHeld

StockPart == part = "stock" => StockInv

(* A job never gives back more of the stock than it holds, however its desks reserve, release, move and plan
   (job_planning.py:119). Desks that reserve or release at once are left out ("overlap"). *)
THEOREM StockReserved == ASSUME "overlap" \notin Without PROVE PagesSpec => []ReservedIsHeld
<1>1. PagesInit => StockPart
  BY StockStart DEF PagesInit, StockPart
<1>2. StockPart /\ [PagesNext]_pages => StockPart'
  <2> SUFFICES ASSUME StockPart, [PagesNext]_pages, part' = "stock" PROVE StockInv'
    BY DEF StockPart
  <2>1. CASE StockStep
    BY <2>1, StockKept DEF StockPart, StockStep
  <2>2. CASE EstimatingStep \/ SalesStep \/ PurchasingStep \/ CanvassStep \/ MaterialsStep \/ BackupsStep
             \/ SiteStep \/ ProposalStep
    BY <2>2 DEF EstimatingStep, SalesStep, PurchasingStep, CanvassStep, MaterialsStep, BackupsStep,
             SiteStep, ProposalStep
  <2>3. CASE UNCHANGED pages
    BY <2>3, StockRests DEF StockPart, pages, stock
  <2> QED
    BY <2>1, <2>2, <2>3 DEF PagesNext
<1>3. StockPart => ReservedIsHeld
  BY DEF StockPart, StockInv, ReservedIsHeld
<1> QED
  BY <1>1, <1>2, <1>3, PTL DEF PagesSpec

(***************************************************************************)
(* Supplier orders: submission keys, answers, reconciliation.              *)
(***************************************************************************)
Standings == {"none", "pending", "confirmed", "unknown", "failed"}
Points == {"none", "sent", "ok", "lost", "refused"}
Orders == [key : Buy!Keys, price : Nat, seen : Nat, fair : BOOLEAN,
           stage : {"processing", "scheduled", "shipped", "delivered", "cancelled"}]

(* What the argument needs of an order panel, and of a submission under way. *)
PanelFields == {"host", "mine", "open", "review", "asks", "tick", "key", "result", "busy", "ask", "fair"}
PanelOk(s, asked, price) ==
    /\ PanelFields \subseteq DOMAIN s
    /\ s.review \in Nat /\ s.asks \in BOOLEAN /\ s.fair \in BOOLEAN
    /\ s.key \in Buy!Keys \cup {Buy!None} /\ (s.review # Buy!None => s.key \in Buy!Keys)
    /\ s.fair /\ s.review # Buy!None => s.review = IF s.asks THEN asked ELSE price
WorkFields == {"at", "desk", "price", "seen", "fair", "was", "order"}
WorkOk(k, w, st, orders) ==
    /\ WorkFields \subseteq DOMAIN w
    /\ w.at \in Points /\ w.price \in Nat /\ w.seen \in Nat /\ w.fair \in BOOLEAN
    /\ w.at # "none" => st = "pending"
    /\ w.at = "sent" /\ w.fair => w.price = w.seen
    /\ w.at \in {"sent", "refused"} => \A i \in DOMAIN orders : orders[i].key # k

RowInv == "price" \in DOMAIN po /\ po.price \in Nat /\ keys \in 0..MaxKeys
SupplierInv == /\ {"price", "orders"} \subseteq DOMAIN abc /\ abc.price \in Nat /\ abc.orders \in Seq(Orders)
               /\ subs \in [Buy!Keys -> Standings]
               /\ \A i \in DOMAIN abc.orders : subs[abc.orders[i].key] \in {"pending", "confirmed", "unknown"}
               /\ Buy!OrderedOnceAsSeen
WorkInv == DOMAIN calls = Buy!Keys /\ \A k \in Buy!Keys : WorkOk(k, calls[k], subs[k], abc.orders)
BuyerInv == DOMAIN buyer = Buy!Desks /\ \A d \in Buy!Desks : PanelOk(buyer[d], abc.price, po.price)
OrderInv == RowInv /\ SupplierInv /\ WorkInv /\ BuyerInv

LEMMA NothingUnderWay == \A k, st, orders : WorkOk(k, Buy!NoWork, st, orders)
<1>1. Buy!NoWork.at \in Points /\ Buy!NoWork.price \in Nat /\ Buy!NoWork.seen \in Nat /\ Buy!NoWork.fair \in BOOLEAN
  BY DEF Points, Buy!NoWork, Buy!None
<1>2. Buy!NoWork.at = "none" /\ WorkFields \subseteq DOMAIN Buy!NoWork
  BY DEF Buy!NoWork, WorkFields
<1>3. Buy!NoWork.at # "sent" /\ Buy!NoWork.at # "refused"
  BY <1>2
<1> QED BY <1>1, <1>2, <1>3 DEF WorkOk

LEMMA OrderStart == ASSUME Buy!Init PROVE OrderInv
<1>1. RowInv
  <2>1. "price" \in DOMAIN po /\ po.price = 1
    BY Zenon DEF Buy!Init
  <2>2. keys = 0
    BY Zenon DEF Buy!Init
  <2> QED BY <2>1, <2>2, PurchasingAssumption DEF RowInv
<1>2. SupplierInv
  <2>1. abc.orders = << >> /\ abc.price = 1 /\ {"price", "orders"} \subseteq DOMAIN abc /\ subs = [k \in Buy!Keys |-> "none"]
    BY Zenon DEF Buy!Init
  <2>2. DOMAIN abc.orders = {} /\ abc.orders \in Seq(Orders)
    BY <2>1
  <2> QED BY <2>1, <2>2 DEF SupplierInv, Standings, Buy!OrderedOnceAsSeen
<1>3. WorkInv
  <2>1. abc.orders = << >> /\ calls = [k \in Buy!Keys |-> Buy!NoWork]
    BY Zenon DEF Buy!Init
  <2>3. \A k \in Buy!Keys : WorkOk(k, Buy!NoWork, subs[k], abc.orders)
    BY NothingUnderWay
  <2> QED BY <2>1, <2>3 DEF WorkInv
<1>4. BuyerInv
  BY Zenon DEF Buy!Init, BuyerInv, PanelOk, PanelFields, Buy!Page, Buy!None
<1> QED BY <1>1, <1>2, <1>3, <1>4 DEF OrderInv

(* A panel of which only what it shows of the order, or waits for, has changed. *)
Alike(s, t) == /\ DOMAIN t = DOMAIN s /\ t.review = s.review /\ t.asks = s.asks
               /\ t.key = s.key /\ t.fair = s.fair
LEMMA AlikeOk ==
    ASSUME NEW s, NEW t, NEW asked, NEW price, PanelOk(s, asked, price), Alike(s, t)
    PROVE  PanelOk(t, asked, price)
  BY DEF Alike, PanelOk

LEMMA AlikeAgain ==
    ASSUME NEW s, NEW t, NEW u, Alike(s, t), Alike(t, u)
    PROVE  Alike(s, u)
  BY DEF Alike

LEMMA AlikeSelf == \A s : Alike(s, s)
  BY DEF Alike

LEMMA AskingAlike ==
    ASSUME NEW s, NEW p, PanelFields \subseteq DOMAIN s
    PROVE  Alike(s, Buy!Asking(s, p))
  BY DEF Buy!Asking, Alike, PanelFields

LEMMA ChangedAlike ==
    ASSUME NEW d, NEW s, NEW p, PanelFields \subseteq DOMAIN s
    PROVE  Alike(s, Buy!Changed(d, s, p))
<1> DEFINE t == [s EXCEPT !.host = Buy!Copy(p), !.mine = IF d = "detail" THEN Buy!Copy(p) ELSE @]
<1>1. Alike(s, t) /\ PanelFields \subseteq DOMAIN t
  BY DEF Alike, PanelFields
<1>2. Buy!Changed(d, s, p) = t \/ Buy!Changed(d, s, p) = Buy!Asking(t, p)
  BY DEF Buy!Changed
<1> HIDE DEF t
<1> QED BY <1>1, <1>2, AskingAlike, AlikeAgain

LEMMA ToldAlike ==
    ASSUME NEW d, NEW s, NEW p, NEW answer, PanelFields \subseteq DOMAIN s
    PROVE  Alike(s, Buy!Told(d, s, p, answer))
<1> DEFINE t == [s EXCEPT !.result = answer, !.busy = FALSE]
           u == [t EXCEPT !.mine = Buy!Copy(p), !.host = Buy!Copy(p)]
<1>1. Alike(s, t) /\ PanelFields \subseteq DOMAIN t
  BY DEF Alike, PanelFields
<1>2. Alike(t, u) /\ PanelFields \subseteq DOMAIN u
  BY <1>1 DEF Alike, PanelFields
<1>3. Buy!Told(d, s, p, answer) \in {t, u, Buy!Asking(u, p)}
  BY DEF Buy!Told
<1> HIDE DEF t, u
<1> QED BY <1>1, <1>2, <1>3, AskingAlike, AlikeAgain

(* A review puts the supplier's price on screen, and the order's when they agree. *)
LEMMA ReviewedOk ==
    ASSUME OrderInv, NEW s, NEW p, NEW k \in Buy!Keys, PanelFields \subseteq DOMAIN s
    PROVE  PanelOk(Buy!Reviewed(s, p, k), abc.price, p.price)
  BY DEF Buy!Reviewed, PanelOk, PanelFields, OrderInv, SupplierInv

LEMMA PageOk ==
    ASSUME NEW p, NEW asked, NEW price PROVE PanelOk(Buy!Page(p), asked, price)
  BY DEF Buy!Page, PanelOk, PanelFields, Buy!None

(* Nothing between the supplier and the server moves. *)
LEMMA OrdersStay ==
    ASSUME OrderInv, abc' = abc, subs' = subs, "price" \in DOMAIN po', po'.price = po.price, keys' \in 0..MaxKeys,
           DOMAIN calls' = Buy!Keys,
           \A k \in Buy!Keys : calls'[k] = calls[k] \/ calls'[k] = [calls[k] EXCEPT !.desk = ""],
           DOMAIN buyer' = Buy!Desks, \A d \in Buy!Desks : PanelOk(buyer'[d], abc.price, po.price)
    PROVE  OrderInv'
<1>1. RowInv'
  BY Zenon DEF OrderInv, RowInv
<1>2. SupplierInv'
  BY Zenon DEF OrderInv, SupplierInv, Buy!OrderedOnceAsSeen
<1>3. \A k \in Buy!Keys : WorkOk(k, calls'[k], subs[k], abc.orders)
  <2> SUFFICES ASSUME NEW k \in Buy!Keys PROVE WorkOk(k, calls'[k], subs[k], abc.orders)
    BY Zenon
  <2>1. WorkOk(k, calls[k], subs[k], abc.orders)
    BY Zenon DEF OrderInv, WorkInv
  <2>2. CASE calls'[k] = [calls[k] EXCEPT !.desk = ""]
    <3> DEFINE w == [calls[k] EXCEPT !.desk = ""]
    <3>1. /\ WorkFields \subseteq DOMAIN w /\ w.at = calls[k].at /\ w.price = calls[k].price
          /\ w.seen = calls[k].seen /\ w.fair = calls[k].fair
      BY <2>1, Zenon DEF WorkOk, WorkFields
    <3> HIDE DEF w
    <3>2. WorkOk(k, w, subs[k], abc.orders)
      BY <2>1, <3>1, Zenon DEF WorkOk
    <3> QED BY <2>2, <3>2, Zenon DEF w
  <2> QED BY <2>1, <2>2, Zenon
<1>4. WorkInv' /\ BuyerInv'
  BY <1>3, Zenon DEF WorkInv, BuyerInv
<1> QED BY <1>1, <1>2, <1>4, Zenon DEF OrderInv

LEMMA DeskFacts ==
    ASSUME OrderInv
    PROVE  /\ DOMAIN buyer = Buy!Desks /\ DOMAIN calls = Buy!Keys /\ "price" \in DOMAIN po
           /\ \A d \in Buy!Desks : PanelOk(buyer[d], abc.price, po.price) /\ PanelFields \subseteq DOMAIN buyer[d]
           /\ keys \in 0..MaxKeys /\ MaxKeys \in Nat
           /\ keys < MaxKeys => keys + 1 \in Buy!Keys /\ keys + 1 \in 0..MaxKeys
  BY PurchasingAssumption DEF OrderInv, BuyerInv, WorkInv, RowInv, PanelOk, Buy!Keys

(* One panel is written, the others stay. *)
LEMMA OnePanel ==
    ASSUME OrderInv, NEW d \in Buy!Desks, NEW s, PanelOk(s, abc.price, po.price),
           buyer' = [buyer EXCEPT ![d] = s], abc' = abc, subs' = subs, calls' = calls,
           "price" \in DOMAIN po', po'.price = po.price, keys' \in 0..MaxKeys
    PROVE  OrderInv'
<1>1. \A e \in Buy!Desks : buyer'[e] = IF e = d THEN s ELSE buyer[e]
  BY DeskFacts
<1> QED BY <1>1, DeskFacts, OrdersStay

(***************************************************************************)
(* The page and the panel.                                                 *)
(***************************************************************************)
LEMMA BuyerPageSteps ==
    ASSUME OrderInv, NEW d \in Buy!Desks,
           Buy!Visit(d) \/ Buy!Open(d) \/ Buy!Close(d) \/ Buy!RefreshPricing(d) \/ Buy!Tick(d)
    PROVE  OrderInv'
<1> DEFINE s == buyer[d]
<1>1. PanelOk(s, abc.price, po.price) /\ PanelFields \subseteq DOMAIN s
  BY DeskFacts
<1>2. po' = po /\ abc' = abc /\ subs' = subs
  BY Zenon DEF Buy!Visit, Buy!Open, Buy!Close, Buy!RefreshPricing, Buy!Tick
<1>3. "price" \in DOMAIN po' /\ po'.price = po.price
  BY <1>2, DeskFacts
<1>4. CASE Buy!Visit(d)
  <2>1. \A e \in Buy!Desks : buyer'[e] = IF e = d THEN Buy!Page(po) ELSE buyer[e]
    BY <1>4, DeskFacts, Zenon DEF Buy!Visit
  <2>2. \A e \in Buy!Desks : PanelOk(buyer'[e], abc.price, po.price)
    BY <2>1, PageOk, DeskFacts
  <2>3. DOMAIN calls' = Buy!Keys /\ \A k \in Buy!Keys : calls'[k] = calls[k] \/ calls'[k] = [calls[k] EXCEPT !.desk = ""]
    BY <1>4, Zenon DEF Buy!Visit
  <2>4. DOMAIN buyer' = Buy!Desks /\ keys' \in 0..MaxKeys
    BY <1>4, DeskFacts, Zenon DEF Buy!Visit
  <2> QED BY <1>2, <1>3, <2>2, <2>3, <2>4, OrdersStay, Zenon
<1>5. CASE Buy!Open(d)
  <2> DEFINE t == [s EXCEPT !.open = TRUE, !.mine = IF d = "list" THEN s.host ELSE @]
             n == Buy!Opened(t, po, keys + 1)
  <2>1. Alike(s, t) /\ PanelFields \subseteq DOMAIN t
    BY <1>1 DEF Alike, PanelFields
  <2>2. buyer' = [buyer EXCEPT ![d] = n] /\ keys < MaxKeys /\ keys' \in {keys, keys + 1} /\ calls' = calls
    BY <1>5 DEF Buy!Open
  <2> HIDE DEF t
  <2>3. PanelOk(t, abc.price, po.price)
    BY <1>1, <2>1, AlikeOk
  <2>4. PanelOk(Buy!Asking(t, po), abc.price, po.price)
    BY <2>1, <2>3, AskingAlike, AlikeOk
  <2>5. PanelOk(Buy!Reviewed(t, po, keys + 1), abc.price, po.price)
    BY <2>1, <2>2, DeskFacts, ReviewedOk
  <2>6. PanelOk(n, abc.price, po.price)
    BY <2>4, <2>5 DEF Buy!Opened
  <2>7. keys' \in 0..MaxKeys
    BY <2>2, DeskFacts
  <2> HIDE DEF n
  <2> QED BY <1>2, <1>3, <2>2, <2>6, <2>7, OnePanel
<1>6. CASE Buy!Close(d) \/ Buy!Tick(d)
  <2> DEFINE c == [s EXCEPT !.open = FALSE]
             t == [s EXCEPT !.tick = ~@]
  <2>1. Alike(s, c) /\ Alike(s, t)
    BY <1>1 DEF Alike, PanelFields
  <2>2. buyer' \in {[buyer EXCEPT ![d] = c], [buyer EXCEPT ![d] = t]} /\ keys' = keys /\ calls' = calls
    BY <1>6 DEF Buy!Close, Buy!Tick
  <2> HIDE DEF c, t
  <2>3. PanelOk(c, abc.price, po.price) /\ PanelOk(t, abc.price, po.price)
    BY <1>1, <2>1, AlikeOk
  <2> QED BY <1>2, <1>3, <2>2, <2>3, OnePanel, DeskFacts
<1>7. CASE Buy!RefreshPricing(d)
  <2> DEFINE n == Buy!Reviewed(s, po, keys + 1)
  <2>1. buyer' = [buyer EXCEPT ![d] = n] /\ keys < MaxKeys /\ keys' = keys + 1 /\ calls' = calls
    BY <1>7 DEF Buy!RefreshPricing
  <2>2. PanelOk(n, abc.price, po.price)
    BY <1>1, <2>1, DeskFacts, ReviewedOk
  <2> HIDE DEF n
  <2> QED BY <1>2, <1>3, <2>1, <2>2, OnePanel, DeskFacts
<1> QED BY <1>4, <1>5, <1>6, <1>7

(* The status read, a receipt, a status set: the order's price stays. *)
LEMMA StatusSteps ==
    ASSUME OrderInv, NEW d \in Buy!Desks,
           Buy!AskStatus(d) \/ Buy!ApplyStatus(d) \/ Buy!DropStatus(d) \/ Buy!Receive(d) \/ Buy!SetStatus(d)
    PROVE  OrderInv'
<1> DEFINE s == buyer[d]
           q == [s EXCEPT !.ask = Buy!NoAsk]
<1>1. PanelOk(s, abc.price, po.price) /\ PanelFields \subseteq DOMAIN s
  BY DeskFacts
<1>2. Alike(s, q) /\ PanelFields \subseteq DOMAIN q
  BY <1>1 DEF Alike, PanelFields
<1>3. abc' = abc /\ subs' = subs /\ calls' = calls /\ keys' = keys
  BY Zenon DEF Buy!AskStatus, Buy!ApplyStatus, Buy!DropStatus, Buy!Receive, Buy!SetStatus
<1>4. "price" \in DOMAIN po' /\ po'.price = po.price
  BY DeskFacts, Zenon DEF Buy!AskStatus, Buy!ApplyStatus, Buy!DropStatus, Buy!Receive, Buy!SetStatus, Buy!Synced
<1>5. PICK t \in {Buy!Asking(s, po), Buy!Changed(d, q, po'), q, Buy!Changed(d, s, po')} : buyer' = [buyer EXCEPT ![d] = t]
  <2>1. CASE Buy!AskStatus(d)
    BY <2>1 DEF Buy!AskStatus
  <2>2. CASE Buy!ApplyStatus(d)
    BY <2>2 DEF Buy!ApplyStatus, Buy!Synced
  <2>3. CASE Buy!DropStatus(d)
    BY <2>3 DEF Buy!DropStatus
  <2>4. CASE Buy!Receive(d) \/ Buy!SetStatus(d)
    BY <2>4, Zenon DEF Buy!Receive, Buy!SetStatus
  <2> QED BY <2>1, <2>2, <2>3, <2>4
<1> HIDE DEF q, s
<1>6. Alike(s, t)
  BY <1>1, <1>2, <1>5, AskingAlike, ChangedAlike, AlikeAgain
<1>7. PanelOk(t, abc.price, po.price)
  BY <1>1, <1>6, AlikeOk
<1> QED BY <1>3, <1>4, <1>5, <1>7, OnePanel, DeskFacts

(* Webhooks, as they come and as they were kept. *)
LEMMA MailSteps ==
    ASSUME OrderInv, Buy!Reconnect \/ \E m \in mail : Buy!Webhook(m)
    PROVE  OrderInv'
<1>1. abc' = abc /\ subs' = subs /\ calls' = calls /\ keys' = keys /\ buyer' = buyer
  BY DEF Buy!Reconnect, Buy!Webhook
<1>2. \A m : "price" \in DOMAIN Buy!Noted(po, m) /\ Buy!Noted(po, m).price = po.price
  BY DeskFacts DEF Buy!Noted
<1>3. po' = po \/ \E m : po' = Buy!Noted(po, m)
  BY DEF Buy!Reconnect, Buy!Webhook
<1>4. "price" \in DOMAIN po' /\ po'.price = po.price
  BY <1>2, <1>3, DeskFacts
<1> QED BY <1>1, <1>4, DeskFacts, OrdersStay
(***************************************************************************)
(* abc-submit.                                                             *)
(***************************************************************************)
LEMMA AppliedPrice ==
    ASSUME OrderInv, NEW s
    PROVE  /\ "price" \in DOMAIN Buy!Applied(s)
           /\ Buy!Applied(s).price = IF Buy!Accepts(s) THEN abc.price ELSE po.price
           /\ Buy!Applied(s).price \in Nat
  BY DEF Buy!Applied, OrderInv, RowInv, SupplierInv

LEMMA OwnPanel ==
    ASSUME OrderInv, NEW s, PanelOk(s, abc.price, po.price)
    PROVE  PanelOk(s, abc.price, Buy!Applied(s).price)
<1>1. Buy!Applied(s).price = po.price \/ s.asks = TRUE
  BY AppliedPrice DEF Buy!Accepts, PanelOk
<1> QED BY <1>1 DEF PanelOk

(* Another desk's panel shows a price that was written behind its back. *)
LEMMA BehindOk ==
    ASSUME NEW ds, DOMAIN ds = Buy!Desks, NEW d \in Buy!Desks, NEW p, NEW asked,
           \A e \in Buy!Desks \ {d} : PanelOk(ds[e], asked, po.price), PanelOk(ds[d], asked, p.price)
    PROVE  DOMAIN Buy!Behind(ds, d, p) = Buy!Desks /\ \A e \in Buy!Desks : PanelOk(Buy!Behind(ds, d, p)[e], asked, p.price)
<1>1. DOMAIN Buy!Behind(ds, d, p) = Buy!Desks
      /\ \A e \in Buy!Desks : Buy!Behind(ds, d, p)[e] = IF e # d /\ p.price # po.price THEN [ds[e] EXCEPT !.fair = FALSE] ELSE ds[e]
  BY DEF Buy!Behind
<1>2. ASSUME NEW e \in Buy!Desks, e # d, p.price # po.price
      PROVE  PanelOk([ds[e] EXCEPT !.fair = FALSE], asked, p.price)
  <2> DEFINE t == [ds[e] EXCEPT !.fair = FALSE]
  <2>1. PanelOk(ds[e], asked, po.price)
    BY <1>2
  <2>2. /\ DOMAIN t = DOMAIN ds[e] /\ t.review = ds[e].review /\ t.asks = ds[e].asks /\ t.key = ds[e].key
        /\ t.fair = FALSE
    BY <2>1 DEF PanelOk, PanelFields
  <2> HIDE DEF t
  <2>3. PanelOk(t, asked, p.price)
    BY <2>1, <2>2 DEF PanelOk
  <2> QED BY <2>3 DEF t
<1>3. ASSUME NEW e \in Buy!Desks, ~(e # d /\ p.price # po.price) PROVE PanelOk(ds[e], asked, p.price)
  BY <1>3
<1> QED BY <1>1, <1>2, <1>3

LEMMA SubmitStep ==
    ASSUME OrderInv, NEW d \in Buy!Desks, Buy!Submit(d)
    PROVE  OrderInv'
<1> DEFINE s == [buyer[d] EXCEPT !.result = ""]
           k == s.key
           now == Buy!Applied(s)
           w == [at |-> "sent", desk |-> d, price |-> now.price, seen |-> s.review, fair |-> s.fair,
                 was |-> po.status, order |-> Buy!None]
           busy == [s EXCEPT !.busy = TRUE]
<1>1. PanelOk(buyer[d], abc.price, po.price) /\ PanelFields \subseteq DOMAIN buyer[d]
  BY DeskFacts
<1>2. Alike(buyer[d], s) /\ PanelFields \subseteq DOMAIN s /\ s.tick = buyer[d].tick
  BY <1>1 DEF Alike, PanelFields
<1>3. PanelOk(s, abc.price, po.price)
  BY <1>1, <1>2, AlikeOk, Zenon
<1>4. Buy!OffersSubmit(buyer[d]) /\ abc' = abc /\ keys' = keys
  BY Zenon DEF Buy!Submit
<1>5. s.review # Buy!None /\ (s.asks => s.tick) /\ k \in Buy!Keys
  BY <1>2, <1>3, <1>4 DEF Buy!OffersSubmit, Alike, PanelOk
<1>6. Alike(s, busy) /\ PanelFields \subseteq DOMAIN busy
  BY <1>2 DEF Alike, PanelFields
<1>7. /\ "price" \in DOMAIN now /\ now.price \in Nat
      /\ now.price = IF Buy!Accepts(s) THEN abc.price ELSE po.price
  BY AppliedPrice, Zenon
<1>8. PanelOk(s, abc.price, now.price)
  BY <1>3, OwnPanel, Zenon
<1>9. PICK valid \in BOOLEAN :
        \/ /\ Buy!Standing(k) # "go" /\ valid
           /\ buyer' = [buyer EXCEPT ![d] = Buy!Told(d, s, po, Buy!Standing(k))]
           /\ UNCHANGED <<po, subs, calls>>
        \/ /\ Buy!Standing(k) = "go" /\ Buy!Verdict(s, valid) = "invalid"
           /\ po' = now /\ buyer' = Buy!Behind([buyer EXCEPT ![d] = Buy!Told(d, s, now, "invalid")], d, now)
           /\ UNCHANGED <<subs, calls>>
        \/ /\ Buy!Standing(k) = "go" /\ Buy!Verdict(s, valid) = "price_changed"
           /\ buyer' = [buyer EXCEPT ![d] = [Buy!Told(d, s, po, "price_changed") EXCEPT
                           !.review = abc.price, !.asks = TRUE, !.tick = FALSE, !.fair = TRUE]]
           /\ UNCHANGED <<po, subs, calls>>
        \/ /\ Buy!Standing(k) = "go" /\ Buy!Verdict(s, valid) = "reserve"
           /\ po' = now /\ subs' = [subs EXCEPT ![k] = "pending"]
           /\ calls' = [calls EXCEPT ![k] = w]
           /\ buyer' = Buy!Behind([buyer EXCEPT ![d] = busy], d, now)
  BY Zenon DEF Buy!Submit
<1>10. s.fair \in BOOLEAN /\ s.review \in Nat /\ s.asks \in BOOLEAN
  BY <1>3 DEF PanelOk
<1>11. w.price = now.price /\ w.seen = s.review /\ w.fair = s.fair /\ w.at = "sent" /\ WorkFields \subseteq DOMAIN w
  BY DEF WorkFields
<1> HIDE DEF s, now, busy, k, w
<1>12. CASE Buy!Standing(k) # "go" /\ buyer' = [buyer EXCEPT ![d] = Buy!Told(d, s, po, Buy!Standing(k))] /\ UNCHANGED <<po, subs, calls>>
  <2>1. PanelOk(Buy!Told(d, s, po, Buy!Standing(k)), abc.price, po.price)
    BY <1>2, <1>3, ToldAlike, AlikeOk
  <2> QED BY <1>4, <1>12, <2>1, OnePanel, DeskFacts
<1>13. CASE po' = now /\ buyer' = Buy!Behind([buyer EXCEPT ![d] = Buy!Told(d, s, now, "invalid")], d, now) /\ UNCHANGED <<subs, calls>>
  <2> DEFINE ds == [buyer EXCEPT ![d] = Buy!Told(d, s, now, "invalid")]
  <2>1. DOMAIN ds = Buy!Desks /\ ds[d] = Buy!Told(d, s, now, "invalid") /\ \A e \in Buy!Desks \ {d} : ds[e] = buyer[e]
    BY DeskFacts
  <2>2. PanelOk(ds[d], abc.price, now.price)
    BY <1>2, <1>8, <2>1, ToldAlike, AlikeOk
  <2>3. \A e \in Buy!Desks \ {d} : PanelOk(ds[e], abc.price, po.price)
    BY <2>1, DeskFacts
  <2> HIDE DEF ds
  <2>4. DOMAIN buyer' = Buy!Desks /\ \A e \in Buy!Desks : PanelOk(buyer'[e], abc.price, now.price)
    BY <1>13, <2>1, <2>2, <2>3, BehindOk DEF ds
  <2>5. BuyerInv' /\ RowInv'
    BY <1>4, <1>7, <1>13, <2>4, DeskFacts DEF BuyerInv, RowInv
  <2>6. SupplierInv' /\ WorkInv'
    BY <1>4, <1>13 DEF OrderInv, SupplierInv, WorkInv, WorkOk, Buy!OrderedOnceAsSeen
  <2> QED BY <2>5, <2>6 DEF OrderInv
<1>14. CASE /\ buyer' = [buyer EXCEPT ![d] = [Buy!Told(d, s, po, "price_changed") EXCEPT
                            !.review = abc.price, !.asks = TRUE, !.tick = FALSE, !.fair = TRUE]]
            /\ UNCHANGED <<po, subs, calls>>
  <2> DEFINE u == Buy!Told(d, s, po, "price_changed")
             t == [u EXCEPT !.review = abc.price, !.asks = TRUE, !.tick = FALSE, !.fair = TRUE]
  <2>1. Alike(s, u)
    BY <1>2, ToldAlike
  <2>2. PanelOk(u, abc.price, po.price)
    BY <1>3, <2>1, AlikeOk
  <2>3. u.key \in Buy!Keys
    BY <1>5, <2>1 DEF Alike, k
  <2>4. buyer' = [buyer EXCEPT ![d] = t]
    BY <1>14
  <2> HIDE DEF u
  <2>5. DOMAIN t = DOMAIN u /\ t.review = abc.price /\ t.asks = TRUE /\ t.fair = TRUE /\ t.key = u.key
    BY <2>2 DEF PanelOk, PanelFields
  <2> HIDE DEF t
  <2>6. PanelOk(t, abc.price, po.price)
    BY <2>2, <2>3, <2>5 DEF PanelOk, OrderInv, SupplierInv
  <2> QED BY <1>4, <1>14, <2>4, <2>6, OnePanel, DeskFacts
<1>15. CASE /\ Buy!Standing(k) = "go" /\ Buy!Verdict(s, valid) = "reserve"
            /\ po' = now /\ subs' = [subs EXCEPT ![k] = "pending"] /\ calls' = [calls EXCEPT ![k] = w]
            /\ buyer' = Buy!Behind([buyer EXCEPT ![d] = busy], d, now)
  <2> DEFINE ds == [buyer EXCEPT ![d] = busy]
  <2>1. DOMAIN ds = Buy!Desks /\ ds[d] = busy /\ \A e \in Buy!Desks \ {d} : ds[e] = buyer[e]
    BY DeskFacts
  <2>2. PanelOk(ds[d], abc.price, now.price)
    BY <1>6, <1>8, <2>1, AlikeOk
  <2>3. \A e \in Buy!Desks \ {d} : PanelOk(ds[e], abc.price, po.price)
    BY <2>1, DeskFacts
  <2> HIDE DEF ds
  <2>4. DOMAIN buyer' = Buy!Desks /\ \A e \in Buy!Desks : PanelOk(buyer'[e], abc.price, now.price)
    BY <1>15, <2>1, <2>2, <2>3, BehindOk DEF ds
  <2>5. BuyerInv' /\ RowInv'
    BY <1>4, <1>7, <1>15, <2>4, DeskFacts DEF BuyerInv, RowInv
  <2>6. subs \in [Buy!Keys -> Standings] /\ subs[k] \notin {"pending", "unknown", "confirmed"}
    BY <1>5, <1>15 DEF Buy!Standing, OrderInv, SupplierInv
  <2>7. \A i \in DOMAIN abc.orders : abc.orders[i].key # k
    BY <2>6 DEF OrderInv, SupplierInv
  <2>8. abc.orders \in Seq(Orders) /\ \A i \in DOMAIN abc.orders : abc.orders[i].key \in Buy!Keys
    <3>1. abc.orders \in Seq(Orders)
      BY DEF OrderInv, SupplierInv
    <3>2. \A i \in DOMAIN abc.orders : abc.orders[i] \in Orders
      BY <3>1
    <3> QED BY <3>1, <3>2 DEF Orders
  <2>9. SupplierInv'
    <3>1. subs' \in [Buy!Keys -> Standings]
      BY <1>15, <2>6 DEF Standings
    <3>2. \A i \in DOMAIN abc.orders : subs'[abc.orders[i].key] \in {"pending", "confirmed", "unknown"}
      BY <1>15, <2>6, <2>7, <2>8 DEF OrderInv, SupplierInv
    <3> QED BY <1>4, <3>1, <3>2 DEF OrderInv, SupplierInv, Buy!OrderedOnceAsSeen
  <2>10. s.fair => now.price = s.review
    <3>1. abc.price = po.price \/ Buy!Accepts(s)
      BY <1>15 DEF Buy!Verdict
    <3>2. Buy!Accepts(s) <=> s.asks
      BY <1>5 DEF Buy!Accepts
    <3> QED BY <1>3, <1>5, <1>7, <3>1, <3>2 DEF PanelOk
  <2>11. WorkOk(k, w, "pending", abc.orders)
    BY <1>7, <1>10, <1>11, <2>7, <2>10 DEF WorkOk, Points
  <2>12. WorkInv'
    <3>1. DOMAIN calls' = Buy!Keys /\ \A j \in Buy!Keys : /\ calls'[j] = IF j = k THEN w ELSE calls[j]
                                                     /\ subs'[j] = IF j = k THEN "pending" ELSE subs[j]
      BY <1>15, <2>6, DeskFacts
    <3> QED BY <1>4, <2>11, <3>1 DEF OrderInv, WorkInv
  <2> QED BY <2>5, <2>9, <2>12 DEF OrderInv
<1> QED BY <1>9, <1>12, <1>13, <1>14, <1>15
(***************************************************************************)
(* The supplier's answer, and what becomes of it.                          *)
(***************************************************************************)
LEMMA OrdersKnown ==
    ASSUME OrderInv
    PROVE  /\ abc.orders \in Seq(Orders) /\ DOMAIN abc.orders = 1..Len(abc.orders) /\ Len(abc.orders) \in Nat
           /\ \A i \in DOMAIN abc.orders : abc.orders[i] \in Orders
<1>1. abc.orders \in Seq(Orders)
  BY DEF OrderInv, SupplierInv
<1> QED BY <1>1

LEMMA PlaceStep ==
    ASSUME OrderInv, NEW k \in Buy!Keys, Buy!Place(k)
    PROVE  OrderInv'
<1> DEFINE w == calls[k]
           o == [key |-> k, price |-> w.price, seen |-> w.seen, fair |-> w.fair, stage |-> "processing"]
<1>1. PICK outcome \in {"ok", "lost", "refused", "unreached"} :
        /\ calls' = [calls EXCEPT ![k].at = IF outcome = "unreached" THEN "lost" ELSE outcome,
                                ![k].order = Len(abc.orders) + 1]
        /\ abc' = IF outcome \notin {"ok", "lost"} THEN abc ELSE [abc EXCEPT !.orders = Append(@, o)]
  BY DEF Buy!Place
<1>2. w.at = "sent" /\ UNCHANGED <<po, subs, buyer, keys>>
  BY DEF Buy!Place
<1>3. WorkOk(k, w, subs[k], abc.orders) /\ DOMAIN calls = Buy!Keys
  BY DEF OrderInv, WorkInv
<1> DEFINE at == IF outcome = "unreached" THEN "lost" ELSE outcome
           v == [[w EXCEPT !.at = at] EXCEPT !.order = Len(abc.orders) + 1]
<1>4. /\ WorkFields \subseteq DOMAIN v /\ v.at = at /\ v.price = w.price /\ v.seen = w.seen /\ v.fair = w.fair
  BY <1>3 DEF WorkOk, WorkFields
<1>5. DOMAIN calls' = Buy!Keys /\ \A j \in Buy!Keys : calls'[j] = IF j = k THEN v ELSE calls[j]
  BY <1>1, <1>3
<1>6. o \in Orders
  BY <1>3 DEF WorkOk, Orders
<1>7. o.key = k /\ (o.fair => o.price = o.seen)
  BY <1>2, <1>3 DEF WorkOk
<1>8. at \in {"ok", "lost", "refused"} /\ (at = "refused" => abc' = abc)
  BY <1>1
<1> HIDE DEF o, v, at, w
<1>9. subs[k] = "pending" /\ \A i \in DOMAIN abc.orders : abc.orders[i].key # k
  BY <1>2, <1>3 DEF WorkOk
<1>10. /\ {"price", "orders"} \subseteq DOMAIN abc' /\ abc'.price = abc.price
       /\ abc'.orders = abc.orders \/ (abc'.orders = Append(abc.orders, o) /\ at # "refused")
  BY <1>1, <1>8 DEF OrderInv, SupplierInv
<1> DEFINE os == abc'.orders
<1>11. /\ os \in Seq(Orders)
       /\ \A i \in DOMAIN os : os[i] = o \/ (i \in DOMAIN abc.orders /\ os[i] = abc.orders[i])
       /\ \A i, j \in DOMAIN os : os[i] = o /\ os[j] = o /\ o \notin {abc.orders[n] : n \in DOMAIN abc.orders} => i = j
  <2>1. CASE os = abc.orders
    BY <2>1, OrdersKnown
  <2>2. CASE os = Append(abc.orders, o)
    <3>1. /\ os \in Seq(Orders) /\ DOMAIN os = 1..(Len(abc.orders) + 1)
          /\ \A i \in 1..Len(abc.orders) : os[i] = abc.orders[i]
          /\ os[Len(abc.orders) + 1] = o
      BY <1>6, <2>2, OrdersKnown
    <3>2. \A i \in DOMAIN os : \/ i = Len(abc.orders) + 1 /\ os[i] = o
                               \/ i \in DOMAIN abc.orders /\ os[i] = abc.orders[i]
      BY <3>1, OrdersKnown
    <3>3. \A i \in DOMAIN os : i \in DOMAIN abc.orders => abc.orders[i] \in {abc.orders[n] : n \in DOMAIN abc.orders}
      OBVIOUS
    <3> QED BY <3>1, <3>2, <3>3
  <2> QED BY <1>10, <2>1, <2>2
<1>12. Buy!OrderedOnceAsSeen'
  <2>1. o \notin {abc.orders[n] : n \in DOMAIN abc.orders}
    BY <1>7, <1>9
  <2> SUFFICES ASSUME NEW i \in DOMAIN os, NEW j \in DOMAIN os
               PROVE  /\ os[i].key = os[j].key => i = j
                      /\ os[i].fair => os[i].price = os[i].seen
    BY DEF Buy!OrderedOnceAsSeen
  <2>2. CASE os[i] = o /\ os[j] = o
    BY <1>7, <1>11, <2>1, <2>2
  <2>3. CASE os[i] # o /\ os[j] # o
    <3>1. /\ i \in DOMAIN abc.orders /\ os[i] = abc.orders[i]
          /\ j \in DOMAIN abc.orders /\ os[j] = abc.orders[j]
      BY <1>11, <2>3
    <3> QED BY <3>1 DEF OrderInv, SupplierInv, Buy!OrderedOnceAsSeen
  <2>4. CASE os[i] = o /\ os[j] # o
    <3>1. j \in DOMAIN abc.orders /\ os[j] = abc.orders[j]
      BY <1>11, <2>4
    <3> QED BY <1>7, <1>9, <2>4, <3>1
  <2>5. CASE os[i] # o /\ os[j] = o
    <3>1. i \in DOMAIN abc.orders /\ os[i] = abc.orders[i]
      BY <1>11, <2>5
    <3> QED BY <1>7, <1>9, <2>5, <3>1 DEF OrderInv, SupplierInv, Buy!OrderedOnceAsSeen
  <2> QED BY <2>2, <2>3, <2>4, <2>5
<1>13. SupplierInv'
  <2>1. \A i \in DOMAIN os : subs[os[i].key] \in {"pending", "confirmed", "unknown"}
    BY <1>7, <1>9, <1>11 DEF OrderInv, SupplierInv
  <2> QED BY <1>2, <1>10, <1>11, <1>12, <2>1 DEF OrderInv, SupplierInv
<1>14. WorkInv'
  <2> SUFFICES ASSUME NEW j \in Buy!Keys PROVE WorkOk(j, calls'[j], subs[j], os)
    BY <1>2, <1>5 DEF WorkInv
  <2>1. CASE j = k
    <3>1. at = "refused" => \A i \in DOMAIN os : os[i].key # k
      BY <1>8, <1>9
    <3>2. WorkOk(k, v, subs[k], os)
      BY <1>3, <1>4, <1>8, <1>9, <3>1 DEF WorkOk, Points
    <3> QED BY <1>5, <2>1, <3>2
  <2>2. CASE j # k
    <3>1. WorkOk(j, calls[j], subs[j], abc.orders)
      BY DEF OrderInv, WorkInv
    <3>2. (\A i \in DOMAIN abc.orders : abc.orders[i].key # j) => \A i \in DOMAIN os : os[i].key # j
      BY <1>7, <1>11, <2>2
    <3>3. WorkOk(j, calls[j], subs[j], os)
      BY <3>1, <3>2 DEF WorkOk
    <3> QED BY <1>5, <2>2, <3>3
  <2> QED BY <2>1, <2>2
<1>15. RowInv' /\ BuyerInv'
  BY <1>2, <1>10 DEF OrderInv, RowInv, BuyerInv
<1> QED BY <1>13, <1>14, <1>15 DEF OrderInv

(* A submission ends: its key has the supplier's word, or may be used again when it was refused. *)
LEMMA RecordStep ==
    ASSUME OrderInv, NEW k \in Buy!Keys, Buy!Record(k)
    PROVE  OrderInv'
<1> DEFINE w == calls[k]
           out == Buy!Outcome(w.at)
<1>1. w.at \in {"ok", "lost", "refused"} /\ UNCHANGED <<abc, keys>>
      /\ subs' = [subs EXCEPT ![k] = out] /\ calls' = [calls EXCEPT ![k] = Buy!NoWork]
  BY DEF Buy!Record
<1>2. "price" \in DOMAIN po' /\ po'.price = po.price
  BY DeskFacts DEF Buy!Record
<1>3. PICK now : buyer' = [d \in Buy!Desks |-> IF d = w.desk THEN Buy!Told(d, buyer[d], now, out) ELSE buyer[d]]
  BY DEF Buy!Record
<1>4. out \in {"confirmed", "unknown", "failed"} /\ (out = "failed" => w.at = "refused")
  BY <1>1 DEF Buy!Outcome
<1>5. WorkOk(k, w, subs[k], abc.orders) /\ DOMAIN calls = Buy!Keys
  BY DEF OrderInv, WorkInv
<1> HIDE DEF w, out
<1>6. BuyerInv' /\ RowInv'
  <2>1. DOMAIN buyer' = Buy!Desks /\ \A d \in Buy!Desks : buyer'[d] = buyer[d] \/ buyer'[d] = Buy!Told(d, buyer[d], now, out)
    BY <1>3
  <2>2. \A d \in Buy!Desks : Alike(buyer[d], buyer'[d])
    BY <2>1, DeskFacts, ToldAlike, AlikeSelf
  <2>3. \A d \in Buy!Desks : PanelOk(buyer'[d], abc.price, po.price)
    BY <2>2, DeskFacts, AlikeOk
  <2> QED BY <1>1, <1>2, <2>1, <2>3 DEF BuyerInv, RowInv, OrderInv
<1>7. subs \in [Buy!Keys -> Standings] /\ subs' \in [Buy!Keys -> Standings]
      /\ \A j \in Buy!Keys : subs'[j] = IF j = k THEN out ELSE subs[j]
  BY <1>1, <1>4 DEF OrderInv, SupplierInv, Standings
<1>8. out = "failed" => \A i \in DOMAIN abc.orders : abc.orders[i].key # k
  BY <1>4, <1>5 DEF WorkOk
<1>9. SupplierInv'
  <2>1. \A i \in DOMAIN abc.orders : abc.orders[i].key \in Buy!Keys
    BY OrdersKnown DEF Orders
  <2>2. \A i \in DOMAIN abc.orders : subs'[abc.orders[i].key] \in {"pending", "confirmed", "unknown"}
    BY <1>4, <1>7, <1>8, <2>1 DEF OrderInv, SupplierInv
  <2> QED BY <1>1, <1>7, <2>2 DEF OrderInv, SupplierInv, Buy!OrderedOnceAsSeen
<1>11. \A j, st : WorkOk(j, Buy!NoWork, st, abc.orders)
  BY NothingUnderWay
<1>12. WorkInv'
  <2>1. DOMAIN calls' = Buy!Keys /\ \A j \in Buy!Keys : calls'[j] = IF j = k THEN Buy!NoWork ELSE calls[j]
    BY <1>1, <1>5
  <2> QED BY <1>1, <1>7, <1>11, <2>1 DEF OrderInv, WorkInv
<1> QED BY <1>6, <1>9, <1>12 DEF OrderInv
LEMMA HangUpStep ==
    ASSUME OrderInv, NEW k \in Buy!Keys, Buy!HangUp(k)
    PROVE  OrderInv'
<1>1. /\ calls' = [calls EXCEPT ![k].desk = ""] /\ buyer' = [buyer EXCEPT ![calls[k].desk].busy = FALSE]
      /\ UNCHANGED <<po, subs, abc, keys>>
  BY Zenon DEF Buy!HangUp
<1>2. DOMAIN calls' = Buy!Keys /\ \A j \in Buy!Keys : calls'[j] = calls[j] \/ calls'[j] = [calls[j] EXCEPT !.desk = ""]
  BY <1>1, DeskFacts, Zenon
<1>3. DOMAIN buyer' = Buy!Desks /\ \A d \in Buy!Desks : buyer'[d] = buyer[d] \/ buyer'[d] = [buyer[d] EXCEPT !.busy = FALSE]
  BY <1>1, DeskFacts, Zenon
<1>4. \A d \in Buy!Desks : Alike(buyer[d], [buyer[d] EXCEPT !.busy = FALSE])
  BY DeskFacts DEF Alike, PanelFields
<1>5. \A d \in Buy!Desks : PanelOk(buyer'[d], abc.price, po.price)
  BY <1>3, <1>4, DeskFacts, AlikeOk
<1> QED BY <1>1, <1>2, <1>3, <1>5, DeskFacts, OrdersStay, Zenon

LEMMA RestartStep == ASSUME OrderInv, Buy!Restart PROVE OrderInv'
<1>1. /\ calls' = [k \in Buy!Keys |-> Buy!NoWork]
      /\ buyer' = [d \in Buy!Desks |-> [buyer[d] EXCEPT !.busy = FALSE, !.ask = Buy!NoAsk]]
      /\ UNCHANGED <<po, subs, abc, keys>>
  BY Zenon DEF Buy!Restart
<1>2. \A d \in Buy!Desks : Alike(buyer[d], [buyer[d] EXCEPT !.busy = FALSE, !.ask = Buy!NoAsk])
  BY DeskFacts DEF Alike, PanelFields
<1>3. BuyerInv'
  BY <1>1, <1>2, DeskFacts, AlikeOk, Zenon DEF BuyerInv
<1>4. WorkInv'
  BY <1>1, NothingUnderWay, Zenon DEF WorkInv
<1>5. RowInv' /\ SupplierInv'
  BY <1>1, Zenon DEF OrderInv, RowInv, SupplierInv, Buy!OrderedOnceAsSeen
<1> QED BY <1>3, <1>4, <1>5 DEF OrderInv

LEMMA ReconcileStep ==
    ASSUME OrderInv, NEW d \in Buy!Desks, Buy!Reconcile(d)
    PROVE  OrderInv'
<1> DEFINE s == [buyer[d] EXCEPT !.result = ""]
           c == Buy!Changed(d, s, po')
           r == Buy!Reviewed(c, po', keys + 1)
<1>1. PanelOk(buyer[d], abc.price, po.price) /\ PanelFields \subseteq DOMAIN buyer[d]
  BY DeskFacts
<1>2. Alike(buyer[d], s) /\ PanelFields \subseteq DOMAIN s
  BY <1>1 DEF Alike, PanelFields
<1>3. UNCHANGED <<calls, abc>>
  BY Zenon DEF Buy!Reconcile
<1>4. "price" \in DOMAIN po' /\ po'.price = po.price
  <2>1. po' = po \/ \E i : po' = [po EXCEPT !.conf = i, !.norm = abc.orders[i].stage,
                                            !.status = IF @ = "draft" THEN "ordered" ELSE @]
    BY Zenon DEF Buy!Reconcile, Buy!Synced
  <2> QED BY <2>1, DeskFacts, Zenon
<1>5. subs' = subs \/ \E j : subs' = [k \in Buy!Keys |-> IF subs[k] = "unknown" /\ k = j THEN "confirmed" ELSE subs[k]]
  <2> DEFINE j == CHOOSE j \in Buy!Keys : subs[j] = "unknown"
  <2>1. subs' = subs \/ subs' = [k \in Buy!Keys |-> IF subs[k] = "unknown" /\ k = j THEN "confirmed" ELSE subs[k]]
    BY Zenon DEF Buy!Reconcile
  <2> QED BY <2>1
<1>6. \/ keys < MaxKeys /\ keys' = keys + 1 /\ buyer' = [buyer EXCEPT ![d] = r]
      \/ keys' = keys /\ buyer' = [buyer EXCEPT ![d] = c]
  BY Zenon DEF Buy!Reconcile
<1> HIDE DEF s
<1>7. Alike(buyer[d], c) /\ PanelFields \subseteq DOMAIN c
  BY <1>2, ChangedAlike, AlikeAgain DEF Alike
<1> HIDE DEF c
<1>8. PanelOk(c, abc.price, po.price)
  BY <1>1, <1>7, AlikeOk
<1>9. keys < MaxKeys => PanelOk(r, abc.price, po'.price)
  BY <1>7, DeskFacts, ReviewedOk
<1> HIDE DEF r
<1>10. BuyerInv' /\ RowInv'
  <2>1. DOMAIN buyer' = Buy!Desks /\ \A e \in Buy!Desks : e # d => buyer'[e] = buyer[e]
    BY <1>6, DeskFacts
  <2>2. PanelOk(buyer'[d], abc.price, po'.price)
    BY <1>4, <1>6, <1>8, <1>9, DeskFacts
  <2>3. \A e \in Buy!Desks : PanelOk(buyer'[e], abc.price, po'.price)
    BY <1>4, <2>1, <2>2, DeskFacts
  <2>4. keys' \in 0..MaxKeys
    BY <1>6, DeskFacts
  <2> QED BY <1>3, <1>4, <2>1, <2>3, <2>4 DEF BuyerInv, RowInv, OrderInv
<1>11. subs' \in [Buy!Keys -> Standings] /\ \A k \in Buy!Keys : subs'[k] = subs[k] \/ (subs[k] = "unknown" /\ subs'[k] = "confirmed")
  BY <1>5 DEF OrderInv, SupplierInv, Standings
<1>12. SupplierInv'
  <2>1. \A i \in DOMAIN abc.orders : abc.orders[i].key \in Buy!Keys
    BY OrdersKnown DEF Orders
  <2>2. \A i \in DOMAIN abc.orders : subs'[abc.orders[i].key] \in {"pending", "confirmed", "unknown"}
    BY <1>11, <2>1 DEF OrderInv, SupplierInv
  <2> QED BY <1>3, <1>11, <2>2 DEF OrderInv, SupplierInv, Buy!OrderedOnceAsSeen
<1>13. WorkInv'
  <2>1. \A k \in Buy!Keys : WorkOk(k, calls[k], subs[k], abc.orders) => WorkOk(k, calls[k], subs'[k], abc.orders)
    BY <1>11 DEF WorkOk
  <2> QED BY <1>3, <2>1 DEF OrderInv, WorkInv
<1> QED BY <1>10, <1>12, <1>13 DEF OrderInv

(* A price that moves leaves no panel that shows a change as it was. *)
LEMMA RepriceStep ==
    ASSUME OrderInv, MaxPrice \in Nat, Buy!Reprice
    PROVE  OrderInv'
<1>1. PICK p \in 1..MaxPrice : abc' = [abc EXCEPT !.price = p]
  BY DEF Buy!Reprice
<1>2. /\ buyer' = [d \in Buy!Desks |-> IF buyer[d].asks THEN [buyer[d] EXCEPT !.fair = FALSE] ELSE buyer[d]]
      /\ UNCHANGED <<po, subs, calls, keys>>
  BY DEF Buy!Reprice
<1>3. {"price", "orders"} \subseteq DOMAIN abc' /\ abc'.price = p /\ abc'.orders = abc.orders /\ p \in Nat
  BY <1>1 DEF OrderInv, SupplierInv
<1>4. BuyerInv'
  <2> SUFFICES ASSUME NEW d \in Buy!Desks PROVE PanelOk(buyer'[d], p, po.price)
    BY <1>2, <1>3 DEF BuyerInv
  <2>1. PanelOk(buyer[d], abc.price, po.price)
    BY DeskFacts
  <2>2. CASE buyer[d].asks
    <3> DEFINE t == [buyer[d] EXCEPT !.fair = FALSE]
    <3>1. /\ PanelFields \subseteq DOMAIN t /\ t.review = buyer[d].review /\ t.asks = buyer[d].asks
          /\ t.key = buyer[d].key /\ t.fair = FALSE
      BY <2>1 DEF PanelOk, PanelFields
    <3>2. buyer'[d] = t
      BY <1>2, <2>2
    <3> HIDE DEF t
    <3> QED BY <2>1, <3>1, <3>2 DEF PanelOk
  <2>3. CASE ~buyer[d].asks
    <3>1. buyer'[d] = buyer[d]
      BY <1>2, <2>3
    <3> QED BY <2>1, <2>3, <3>1 DEF PanelOk
  <2> QED BY <2>2, <2>3
<1>5. SupplierInv'
  BY <1>2, <1>3 DEF OrderInv, SupplierInv, Buy!OrderedOnceAsSeen
<1>6. RowInv' /\ WorkInv'
  BY <1>2, <1>3 DEF OrderInv, RowInv, WorkInv
<1> QED BY <1>4, <1>5, <1>6 DEF OrderInv

LEMMA AdvanceStep ==
    ASSUME OrderInv, NEW n \in DOMAIN abc.orders, Buy!Advance(n)
    PROVE  OrderInv'
<1>1. PICK st \in {"scheduled", "shipped", "delivered", "cancelled"} : abc' = [abc EXCEPT !.orders[n].stage = st]
  BY DEF Buy!Advance
<1>2. UNCHANGED <<po, subs, calls, buyer, keys>>
  BY DEF Buy!Advance
<1> DEFINE os == abc'.orders
<1>3. {"price", "orders"} \subseteq DOMAIN abc' /\ abc'.price = abc.price
      /\ os = [abc.orders EXCEPT ![n] = [abc.orders[n] EXCEPT !.stage = st]]
  BY <1>1 DEF OrderInv, SupplierInv
<1>4. abc.orders[n] \in Orders
  BY OrdersKnown
<1> DEFINE o == [abc.orders[n] EXCEPT !.stage = st]
<1>5. /\ o \in Orders /\ o.key = abc.orders[n].key /\ o.price = abc.orders[n].price
      /\ o.seen = abc.orders[n].seen /\ o.fair = abc.orders[n].fair
  BY <1>4 DEF Orders
<1>6. os = [abc.orders EXCEPT ![n] = o]
  BY <1>3
<1> HIDE DEF o, os
<1>7. /\ os \in Seq(Orders) /\ DOMAIN os = DOMAIN abc.orders
      /\ \A i \in DOMAIN abc.orders : os[i] = IF i = n THEN o ELSE abc.orders[i]
  BY <1>5, <1>6, OrdersKnown
<1>8. \A i \in DOMAIN abc.orders : /\ os[i].key = abc.orders[i].key /\ os[i].price = abc.orders[i].price
                                   /\ os[i].seen = abc.orders[i].seen /\ os[i].fair = abc.orders[i].fair
  BY <1>5, <1>7
<1>9. Buy!OrderedOnceAsSeen'
  BY <1>7, <1>8 DEF OrderInv, SupplierInv, Buy!OrderedOnceAsSeen, os
<1>10. SupplierInv'
  BY <1>2, <1>3, <1>7, <1>8, <1>9 DEF OrderInv, SupplierInv, os
<1>11. WorkInv'
  <2>1. \A k \in Buy!Keys : WorkOk(k, calls[k], subs[k], abc.orders) => WorkOk(k, calls[k], subs[k], os)
    BY <1>7, <1>8 DEF WorkOk
  <2> QED BY <1>2, <2>1 DEF OrderInv, WorkInv, os
<1>12. RowInv' /\ BuyerInv'
  BY <1>2, <1>3 DEF OrderInv, RowInv, BuyerInv
<1> QED BY <1>10, <1>11, <1>12 DEF OrderInv

LEMMA OrderStep ==
    ASSUME OrderInv, MaxPrice \in Nat, Buy!Next
    PROVE  OrderInv'
<1>1. ASSUME NEW d \in Buy!Desks, Buy!Visit(d) \/ Buy!Open(d) \/ Buy!Close(d) \/ Buy!RefreshPricing(d) \/ Buy!Tick(d) PROVE OrderInv'
  BY <1>1, BuyerPageSteps
<1>2. ASSUME NEW d \in Buy!Desks, Buy!AskStatus(d) \/ Buy!ApplyStatus(d) \/ Buy!DropStatus(d) \/ Buy!Receive(d) \/ Buy!SetStatus(d)
      PROVE  OrderInv'
  BY <1>2, StatusSteps
<1>3. ASSUME NEW d \in Buy!Desks, Buy!Submit(d) \/ Buy!Reconcile(d) PROVE OrderInv'
  BY <1>3, SubmitStep, ReconcileStep
<1>4. ASSUME NEW k \in Buy!Keys, Buy!Place(k) \/ Buy!Record(k) \/ Buy!HangUp(k) PROVE OrderInv'
  BY <1>4, PlaceStep, RecordStep, HangUpStep
<1>5. CASE Buy!Reconnect \/ \E m \in mail : Buy!Webhook(m)
  BY <1>5, MailSteps
<1>6. ASSUME NEW i \in DOMAIN abc.orders, Buy!Advance(i) PROVE OrderInv'
  BY <1>6, AdvanceStep
<1>7. CASE Buy!Restart
  BY <1>7, RestartStep
<1>8. CASE Buy!Reprice
  BY <1>8, RepriceStep
<1> QED BY <1>1, <1>2, <1>3, <1>4, <1>5, <1>6, <1>7, <1>8 DEF Buy!Next

LEMMA OrderRests == ASSUME OrderInv, UNCHANGED <<po, subs, calls, buyer, abc, mail, held, keys, log>> PROVE OrderInv'
  BY DEF OrderInv, RowInv, SupplierInv, WorkInv, BuyerInv, WorkOk, PanelOk, Buy!OrderedOnceAsSeen

OrderPart == part = "purchasing" => OrderInv

(* A submission key makes one order at the supplier, at the price its sender saw, over every retry, lost answer,
   reconciliation and repricing (purchasing.py:715). *)
THEOREM OrderedOnce == PagesSpec => []OrderedOnceAsSeen
<1>1. PagesInit => OrderPart
  BY OrderStart DEF PagesInit, OrderPart
<1>2. OrderPart /\ [PagesNext]_pages => OrderPart'
  <2> SUFFICES ASSUME OrderPart, [PagesNext]_pages, part' = "purchasing" PROVE OrderInv'
    BY DEF OrderPart
  <2>1. CASE PurchasingStep
    BY <2>1, OrderStep, PurchasingAssumption DEF OrderPart, PurchasingStep
  <2>2. CASE EstimatingStep \/ SalesStep \/ StockStep \/ CanvassStep \/ MaterialsStep \/ BackupsStep
             \/ SiteStep \/ ProposalStep
    BY <2>2 DEF EstimatingStep, SalesStep, StockStep, CanvassStep, MaterialsStep, BackupsStep,
             SiteStep, ProposalStep
  <2>3. CASE UNCHANGED pages
    BY <2>3, OrderRests DEF OrderPart, pages, purchasing
  <2> QED
    BY <2>1, <2>2, <2>3 DEF PagesNext
<1>3. OrderPart => OrderedOnceAsSeen
  BY DEF OrderPart, OrderInv, SupplierInv, OrderedOnceAsSeen
<1> QED
  BY <1>1, <1>2, <1>3, PTL DEF PagesSpec

(***************************************************************************)
(* Territories, sections and the properties in them.                       *)
(***************************************************************************)
(* The fields of the server the argument is about. *)
Shaped ==
    /\ {"terr", "terrs", "home", "sect", "sects", "member", "leads", "job", "work"} \subseteq DOMAIN map
    /\ map.sects \in Nat /\ DOMAIN map.home = Places /\ DOMAIN map.sect = Can!Sections
    /\ \A s \in Can!Sections : "terr" \in DOMAIN map.sect[s]

(* A member stands in the territory of its section; a section not made yet, or deleted, has none. *)
MembersAtHome == \A s \in Can!Sections, p \in Places :
    <<s, p>> \in map.member => map.sect[s].terr # Can!None /\ map.home[p] = map.sect[s].terr
Unmade == \A s \in Can!Sections : s > map.sects => map.sect[s].terr = Can!None
(* What create_section found free stays so until it is written. *)
FreeFor(v, t, ring) == \A p \in ring \cap Places, s \in Can!Sections :
    v.home[p] = t /\ v.sect[s].terr = t => <<s, p>> \notin v.member
CheckHolds == map.work # Can!NoSect => map.work.terr # Can!None /\ FreeFor(map, map.work.terr, map.work.ring)

SectionInv == Shaped /\ MembersAtHome /\ Unmade /\ CheckHolds /\ Can!OnePropertyOneSection

LEMMA SectionStart == ASSUME Can!Init PROVE SectionInv
<1>1. PICK second \in {{}, Places}, first \in {Can!NoSect, [terr |-> 1, ring |-> {Can!Min(Places)}, rep |-> TRUE]} :
        map = [terr |-> [t \in Can!Territories |-> IF t = 1 THEN Places ELSE IF t = 2 THEN second ELSE {}],
               terrs |-> IF second = {} THEN 1 ELSE 2,
               home |-> [p \in Places |-> 1],
               sect |-> [s \in Can!Sections |-> IF s = 1 THEN first ELSE Can!NoSect],
               sects |-> IF first = Can!NoSect THEN 0 ELSE 1,
               member |-> IF first = Can!NoSect THEN {} ELSE {<<1, Can!Min(Places)>>},
               leads |-> [p \in Places |-> 0], job |-> Can!NoJob, work |-> Can!NoSect]
  BY Zenon DEF Can!Init
<1>2. /\ {"terr", "terrs", "home", "sect", "sects", "member", "leads", "job", "work"} \subseteq DOMAIN map
      /\ map.home = [p \in Places |-> 1]
      /\ map.sect = [s \in Can!Sections |-> IF s = 1 THEN first ELSE Can!NoSect]
      /\ map.sects = IF first = Can!NoSect THEN 0 ELSE 1
      /\ map.member = IF first = Can!NoSect THEN {} ELSE {<<1, Can!Min(Places)>>}
      /\ map.work = Can!NoSect
  BY <1>1
<1>3. /\ first = Can!NoSect \/ first.terr = 1
      /\ "terr" \in DOMAIN first /\ "terr" \in DOMAIN Can!NoSect /\ Can!NoSect.terr = Can!None
  BY DEF Can!NoSect, Can!None
<1>4. Shaped
  BY <1>2, <1>3 DEF Shaped, Can!Sections
<1>5. MembersAtHome
  BY <1>2, <1>3 DEF MembersAtHome, Can!None, Can!Sections
<1>6. Unmade
  BY <1>2, <1>3 DEF Unmade, Can!Sections
<1>7. CheckHolds
  BY <1>2 DEF CheckHolds
<1>8. Can!OnePropertyOneSection
  BY <1>2 DEF Can!OnePropertyOneSection, Can!Members, Can!Sections
<1> QED BY <1>4, <1>5, <1>6, <1>7, <1>8 DEF SectionInv

LEMMA ServerStays == ASSUME SectionInv, map' = map PROVE SectionInv'
  BY DEF SectionInv, Shaped, MembersAtHome, Unmade, CheckHolds, FreeFor, Can!OnePropertyOneSection, Can!Members

(* A field that the sections and their members do not depend on is written. *)
LEMMA OtherFields ==
    ASSUME SectionInv,
           {"terr", "terrs", "home", "sect", "sects", "member", "leads", "job", "work"} \subseteq DOMAIN map',
           map'.home = map.home, map'.sects = map.sects, map'.member = map.member, map'.work = map.work,
           DOMAIN map'.sect = Can!Sections,
           \A s \in Can!Sections : "terr" \in DOMAIN map'.sect[s] /\ map'.sect[s].terr = map.sect[s].terr
    PROVE  SectionInv'
  BY DEF SectionInv, Shaped, MembersAtHome, Unmade, CheckHolds, FreeFor, Can!OnePropertyOneSection, Can!Members

LEMMA DeletedSection ==
    ASSUME SectionInv, NEW s, map' = Can!WithoutSection(map, s)
    PROVE  SectionInv'
<1>1. /\ {"terr", "terrs", "home", "sect", "sects", "member", "leads", "job", "work"} \subseteq DOMAIN map'
      /\ map'.home = map.home /\ map'.sects = map.sects /\ map'.work = map.work
      /\ map'.member = {m \in map.member : m[1] # s}
      /\ map'.sect = [map.sect EXCEPT ![s] = Can!NoSect]
  BY DEF Can!WithoutSection, SectionInv, Shaped
<1>2. "terr" \in DOMAIN Can!NoSect /\ Can!NoSect.terr = Can!None
  BY DEF Can!NoSect
<1>3. \A u \in Can!Sections : \A p : <<u, p>> \in map'.member <=> <<u, p>> \in map.member /\ u # s
  BY <1>1
<1>4. \A u \in Can!Sections : map'.sect[u] = IF u = s THEN Can!NoSect ELSE map.sect[u]
  BY <1>1 DEF SectionInv, Shaped
<1>5. Shaped'
  BY <1>1, <1>2, <1>4 DEF SectionInv, Shaped
<1>6. MembersAtHome'
  BY <1>1, <1>3, <1>4 DEF SectionInv, MembersAtHome
<1>7. Unmade'
  BY <1>1, <1>2, <1>4 DEF SectionInv, Unmade
<1>8. CheckHolds'
  BY <1>1, <1>2, <1>3, <1>4 DEF SectionInv, CheckHolds, FreeFor
<1>9. Can!OnePropertyOneSection'
  <2> SUFFICES ASSUME NEW a \in Can!Sections, NEW b \in Can!Sections, a # b, map'.sect[a].terr = map'.sect[b].terr,
                      NEW p \in Places, <<a, p>> \in map'.member, <<b, p>> \in map'.member
               PROVE  FALSE
    BY DEF Can!OnePropertyOneSection, Can!Members
  <2>1. a # s /\ b # s /\ <<a, p>> \in map.member /\ <<b, p>> \in map.member
    BY <1>3
  <2> QED BY <1>4, <2>1 DEF SectionInv, Can!OnePropertyOneSection, Can!Members
<1> QED BY <1>5, <1>6, <1>7, <1>8, <1>9 DEF SectionInv

LEMMA DeletedTerritory ==
    ASSUME SectionInv, NEW t \in Can!Territories, map' = Can!WithoutTerritory(map, t)
    PROVE  SectionInv'
<1>1. /\ {"terr", "terrs", "home", "sect", "sects", "member", "leads", "job", "work"} \subseteq DOMAIN map'
      /\ map'.home = [p \in Places |-> IF map.home[p] = t THEN Can!None ELSE map.home[p]]
      /\ map'.sects = map.sects /\ map'.work = map.work
      /\ map'.member = {m \in map.member : map.sect[m[1]].terr # t}
      /\ map'.sect = [s \in Can!Sections |-> IF map.sect[s].terr = t THEN Can!NoSect ELSE map.sect[s]]
  BY DEF Can!WithoutTerritory, SectionInv, Shaped
<1>2. "terr" \in DOMAIN Can!NoSect /\ Can!NoSect.terr = Can!None /\ t # Can!None
  BY DEF Can!NoSect, Can!None, Can!Territories
<1>3. \A u \in Can!Sections : \A p : <<u, p>> \in map'.member <=> <<u, p>> \in map.member /\ map.sect[u].terr # t
  BY <1>1
<1>4. \A u \in Can!Sections : map'.sect[u] = IF map.sect[u].terr = t THEN Can!NoSect ELSE map.sect[u]
  BY <1>1
<1>5. Shaped'
  BY <1>1, <1>2, <1>4 DEF SectionInv, Shaped
<1>6. MembersAtHome'
  BY <1>1, <1>2, <1>3, <1>4 DEF SectionInv, MembersAtHome
<1>7. Unmade'
  BY <1>1, <1>2, <1>4 DEF SectionInv, Unmade
<1>8. CheckHolds'
  BY <1>1, <1>2, <1>3, <1>4 DEF SectionInv, CheckHolds, FreeFor
<1>9. Can!OnePropertyOneSection'
  <2> SUFFICES ASSUME NEW a \in Can!Sections, NEW b \in Can!Sections, a # b, map'.sect[a].terr = map'.sect[b].terr,
                      NEW p \in Places, <<a, p>> \in map'.member, <<b, p>> \in map'.member
               PROVE  FALSE
    BY DEF Can!OnePropertyOneSection, Can!Members
  <2>1. map.sect[a].terr # t /\ map.sect[b].terr # t /\ <<a, p>> \in map.member /\ <<b, p>> \in map.member
    BY <1>3
  <2> QED BY <1>4, <2>1 DEF SectionInv, Can!OnePropertyOneSection, Can!Members
<1> QED BY <1>5, <1>6, <1>7, <1>8, <1>9 DEF SectionInv

(* A section written while nobody else is between the check and the write. *)
LEMMA WrittenSection ==
    ASSUME SectionInv, NEW v, NEW t, NEW ring, NEW rep,
           v = Can!Created(map, t, ring, rep), t # Can!None, FreeFor(map, t, ring),
           map' = [v EXCEPT !.work = Can!NoSect]
    PROVE  SectionInv'
<1> DEFINE n == map.sects + 1
           new == [terr |-> t, ring |-> ring, rep |-> rep]
<1>1. /\ {"terr", "terrs", "home", "sect", "sects", "member", "leads", "job", "work"} \subseteq DOMAIN map'
      /\ map'.home = map.home /\ map'.sects = n /\ map'.work = Can!NoSect
      /\ map'.member = map.member \cup ({n} \X Can!Inside(map, t, ring))
      /\ map'.sect = [map.sect EXCEPT ![n] = new]
  BY DEF Can!Created, SectionInv, Shaped
<1>2. "terr" \in DOMAIN new /\ new.terr = t
  OBVIOUS
<1>3. n \in Nat /\ map.sects \in Nat /\ n > map.sects
  BY DEF SectionInv, Shaped
<1> HIDE DEF new
<1>4. \A u \in Can!Sections : \A p : <<u, p>> \in map'.member <=>
          <<u, p>> \in map.member \/ (u = n /\ p \in ring /\ map.home[p] = t)
  BY <1>1 DEF Can!Inside
<1>5. \A u \in Can!Sections : map'.sect[u] = IF u = n THEN new ELSE map.sect[u]
  BY <1>1 DEF SectionInv, Shaped
<1>6. Shaped'
  BY <1>1, <1>2, <1>3, <1>5 DEF SectionInv, Shaped
<1>7. \A p \in Places : n \in Can!Sections => <<n, p>> \notin map.member
  BY <1>3 DEF SectionInv, Unmade, MembersAtHome
<1>8. MembersAtHome'
  BY <1>1, <1>2, <1>4, <1>5, <1>7 DEF SectionInv, MembersAtHome
<1>9. Unmade'
  <2> SUFFICES ASSUME NEW u \in Can!Sections, u > n PROVE map'.sect[u].terr = Can!None
    BY <1>1 DEF Unmade
  <2>1. u \in Nat /\ u > map.sects /\ u # n
    BY <1>3 DEF Can!Sections
  <2> QED BY <1>5, <2>1 DEF SectionInv, Unmade
<1>10. CheckHolds'
  BY <1>1 DEF CheckHolds
<1>11. Can!OnePropertyOneSection'
  <2> SUFFICES ASSUME NEW a \in Can!Sections, NEW b \in Can!Sections, a # b, map'.sect[a].terr = map'.sect[b].terr,
                      NEW p \in Places, <<a, p>> \in map'.member, <<b, p>> \in map'.member
               PROVE  FALSE
    BY DEF Can!OnePropertyOneSection, Can!Members
  <2>1. CASE a # n /\ b # n
    BY <1>4, <1>5, <2>1 DEF SectionInv, Can!OnePropertyOneSection, Can!Members
  <2>2. ASSUME NEW x \in Can!Sections, x # n, map'.sect[x].terr = t, <<x, p>> \in map'.member,
               <<n, p>> \in map'.member, n \in Can!Sections
        PROVE  FALSE
    <3>1. <<x, p>> \in map.member /\ map.sect[x].terr = t
      BY <1>4, <1>5, <2>2
    <3>2. p \in ring /\ map.home[p] = t
      BY <1>4, <1>7, <2>2
    <3> QED BY <3>1, <3>2 DEF FreeFor
  <2> QED BY <1>2, <1>5, <2>1, <2>2
<1> QED BY <1>6, <1>8, <1>9, <1>10, <1>11 DEF SectionInv

LEMMA CheckedIsFree ==
    ASSUME NEW t, NEW ring, Can!CreateCheck(map, t, ring)
    PROVE  FreeFor(map, t, ring)
  BY DEF Can!CreateCheck, Can!Conflicts, Can!Inside, Can!SectionsOf, Can!Members, FreeFor

LEMMA CreateSteps ==
    ASSUME SectionInv, "create" \notin Without,
           \/ \E rep \in BOOLEAN : Can!saveCanvassSection(rep)
           \/ \E t \in Can!Territories, ring \in Can!Rings : Can!OtherCreates(t, ring)
           \/ Can!CommitSection
    PROVE  SectionInv'
<1>1. ASSUME NEW rep \in BOOLEAN, Can!saveCanvassSection(rep) PROVE SectionInv'
  <2> DEFINE w == [terr |-> mapDesk.sel, ring |-> mapDesk.geom, rep |-> rep]
  <2>1. CASE mapDesk.sel # Can!None /\ Can!CreateCheck(map, mapDesk.sel, mapDesk.geom) /\ map' = [map EXCEPT !.work = w]
    <3>1. FreeFor(map, w.terr, w.ring) /\ w.terr # Can!None
      BY <2>1, CheckedIsFree
    <3> HIDE DEF w
    <3>2. /\ {"terr", "terrs", "home", "sect", "sects", "member", "leads", "job", "work"} \subseteq DOMAIN map'
          /\ map'.home = map.home /\ map'.sects = map.sects /\ map'.work = w
          /\ map'.member = map.member /\ map'.sect = map.sect
      BY <2>1 DEF SectionInv, Shaped
    <3> QED BY <3>1, <3>2 DEF SectionInv, Shaped, MembersAtHome, Unmade, CheckHolds, FreeFor,
                              Can!OnePropertyOneSection, Can!Members
  <2>2. CASE map' = map
    BY <2>2, ServerStays
  <2> QED BY <1>1, <2>1, <2>2 DEF Can!saveCanvassSection
<1>2. ASSUME NEW t \in Can!Territories, NEW ring \in Can!Rings, Can!OtherCreates(t, ring) PROVE SectionInv'
  <2> DEFINE v == Can!Created(map, t, ring, FALSE)
  <2>1. map.work = Can!NoSect /\ Can!CreateCheck(map, t, ring) /\ map' = v
    BY <1>2 DEF Can!OtherCreates
  <2>2. t # Can!None
    BY DEF Can!Territories, Can!None
  <2>3. v.work = Can!NoSect
    BY <2>1 DEF Can!Created, SectionInv, Shaped
  <2>4. v = [v EXCEPT !.work = Can!NoSect]
    BY <2>3 DEF Can!Created
  <2>5. FreeFor(map, t, ring)
    BY <2>1, CheckedIsFree
  <2> QED BY <2>1, <2>2, <2>4, <2>5, WrittenSection
<1>3. ASSUME Can!CommitSection PROVE SectionInv'
  <2> DEFINE w == map.work
             v == Can!Created(map, w.terr, w.ring, w.rep)
  <2>1. w # Can!NoSect /\ w.terr # Can!None /\ FreeFor(map, w.terr, w.ring)
    BY <1>3 DEF Can!CommitSection, SectionInv, CheckHolds
  <2>2. CASE map' = [v EXCEPT !.work = Can!NoSect]
    BY <2>1, <2>2, WrittenSection
  <2>3. CASE map' = [map EXCEPT !.work = Can!NoSect]
    <3>1. /\ {"terr", "terrs", "home", "sect", "sects", "member", "leads", "job", "work"} \subseteq DOMAIN map'
          /\ map'.home = map.home /\ map'.sects = map.sects /\ map'.work = Can!NoSect
          /\ map'.member = map.member /\ map'.sect = map.sect
      BY <2>3 DEF SectionInv, Shaped
    <3> QED BY <3>1 DEF SectionInv, Shaped, MembersAtHome, Unmade, CheckHolds, Can!OnePropertyOneSection, Can!Members
  <2> QED BY <1>3, <2>2, <2>3 DEF Can!CommitSection
<1> QED BY <1>1, <1>2, <1>3

LEMMA DeleteSteps ==
    ASSUME SectionInv,
           \/ Can!deleteSection \/ \E s \in Can!Sections : Can!OtherDeletes(s)
           \/ \E t \in Can!Territories : Can!deleteTerritory(t)
    PROVE  SectionInv'
<1>1. CASE Can!deleteSection
  BY <1>1, DeletedSection DEF Can!deleteSection
<1>2. ASSUME NEW s \in Can!Sections, Can!OtherDeletes(s) PROVE SectionInv'
  BY <1>2, DeletedSection DEF Can!OtherDeletes
<1>3. ASSUME NEW t \in Can!Territories, Can!deleteTerritory(t) PROVE SectionInv'
  BY <1>3, DeletedTerritory, ServerStays, Zenon DEF Can!deleteTerritory
<1> QED BY <1>1, <1>2, <1>3

(* An import gives a territory only to a property that has none, and so no section either. *)
LEMMA ImportedPlace ==
    ASSUME SectionInv, NEW p \in Places, Can!ImportStep(p)
    PROVE  SectionInv'
<1>1. CASE map' = [map EXCEPT !.job.st = "failed"]
  <2>1. /\ {"terr", "terrs", "home", "sect", "sects", "member", "leads", "job", "work"} \subseteq DOMAIN map'
        /\ map'.home = map.home /\ map'.sects = map.sects /\ map'.work = map.work
        /\ map'.member = map.member /\ map'.sect = map.sect
    BY <1>1 DEF SectionInv, Shaped
  <2>2. DOMAIN map'.sect = Can!Sections /\ \A s \in Can!Sections : "terr" \in DOMAIN map'.sect[s]
    BY <2>1 DEF SectionInv, Shaped
  <2> QED BY <2>1, <2>2, OtherFields
<1>2. CASE map' = [map EXCEPT !.home[p] = Can!Imported(@, map.job.terr), !.job.left = @ \ {p}]
  <2>1. /\ {"terr", "terrs", "home", "sect", "sects", "member", "leads", "job", "work"} \subseteq DOMAIN map'
        /\ map'.home = [map.home EXCEPT ![p] = Can!Imported(@, map.job.terr)]
        /\ map'.sects = map.sects /\ map'.work = map.work
        /\ map'.member = map.member /\ map'.sect = map.sect
    BY <1>2 DEF SectionInv, Shaped
  <2>2. \A q \in Places : map'.home[q] = map.home[q] \/ map.home[q] = Can!None
    BY <2>1 DEF Can!Imported, SectionInv, Shaped
  <2>3. ASSUME NEW q \in Places, map.home[q] = Can!None, NEW s \in Can!Sections
        PROVE  <<s, q>> \notin map.member
    BY <2>3 DEF SectionInv, MembersAtHome
  <2>4. Shaped' /\ Unmade'
    BY <2>1 DEF SectionInv, Shaped, Unmade
  <2>5. MembersAtHome'
    BY <2>1, <2>2, <2>3 DEF SectionInv, MembersAtHome
  <2>6. CheckHolds'
    BY <2>1, <2>2, <2>3 DEF SectionInv, CheckHolds, FreeFor
  <2>7. Can!OnePropertyOneSection'
    BY <2>1 DEF SectionInv, Can!OnePropertyOneSection, Can!Members
  <2> QED BY <2>4, <2>5, <2>6, <2>7 DEF SectionInv
<1> QED BY <1>1, <1>2 DEF Can!ImportStep

(* Commands that write other fields of the server: rings, the assignment, leads, the import's state. *)
LEMMA FieldSteps ==
    ASSUME SectionInv,
           Can!saveTerritory \/ Can!reassignSection \/ Can!confirmImport \/ Can!ImportEnds \/ Can!ImportStops \/ Can!convertLead
    PROVE  SectionInv'
<1> DEFINE Fields == {"terr", "terrs", "home", "sect", "sects", "member", "leads", "job", "work"}
<1>1. Fields \subseteq DOMAIN map'
  BY DEF Can!saveTerritory, Can!reassignSection, Can!confirmImport, Can!ImportEnds, Can!ImportStops, Can!convertLead, SectionInv, Shaped
<1>2. map'.home = map.home /\ map'.sects = map.sects /\ map'.member = map.member /\ map'.work = map.work
  BY DEF Can!saveTerritory, Can!reassignSection, Can!confirmImport, Can!ImportEnds, Can!ImportStops, Can!convertLead, SectionInv, Shaped
<1>3. \/ map'.sect = map.sect
      \/ map'.sect = [map.sect EXCEPT ![mapDesk.sec].rep = ~@]
  BY DEF Can!saveTerritory, Can!reassignSection, Can!confirmImport, Can!ImportEnds, Can!ImportStops, Can!convertLead, SectionInv, Shaped
<1>4. DOMAIN map.sect = Can!Sections /\ \A s \in Can!Sections : "terr" \in DOMAIN map.sect[s]
  BY DEF SectionInv, Shaped
<1>5. /\ DOMAIN map'.sect = Can!Sections
      /\ \A s \in Can!Sections : "terr" \in DOMAIN map'.sect[s] /\ map'.sect[s].terr = map.sect[s].terr
  <2>1. CASE map'.sect = map.sect
    BY <1>4, <2>1
  <2>2. CASE map'.sect = [map.sect EXCEPT ![mapDesk.sec].rep = ~@]
    <3>1. DOMAIN map'.sect = Can!Sections
      BY <1>4, <2>2
    <3>2. ASSUME NEW s \in Can!Sections
          PROVE  "terr" \in DOMAIN map'.sect[s] /\ map'.sect[s].terr = map.sect[s].terr
      <4>1. CASE s = mapDesk.sec
        <5>1. map'.sect[s] = [map.sect[s] EXCEPT !.rep = ~map.sect[s].rep]
          BY <1>4, <2>2, <4>1
        <5> QED BY <1>4, <5>1
      <4>2. CASE s # mapDesk.sec
        BY <1>4, <2>2, <4>2
      <4> QED BY <4>1, <4>2
    <3> QED BY <3>1, <3>2
  <2> QED BY <1>3, <2>1, <2>2
<1> QED BY <1>1, <1>2, <1>5, OtherFields

(* The screens. *)
LEMMA ScreenSteps ==
    ASSUME SectionInv,
           \/ Can!clearSection \/ Can!startDraw \/ Can!startCanvassDraw \/ Can!cancelDraw \/ Can!CloseDialog
           \/ Can!finishDraw \/ Can!finishCanvassDraw \/ Can!OpenImport
           \/ Can!ImportPolled \/ Can!PollEnds \/ Can!closeSheet \/ Can!openConvert \/ Can!closeConvert \/ Can!Worked
           \/ Can!MapFocus \/ Can!AreasAnswered \/ Can!AreasFailed \/ Can!ensureTicket
           \/ Can!NativeFails \/ Can!retryMap \/ Can!startDownload \/ Can!DownloadEnds
           \/ \E t \in Can!Territories : Can!selectTerritory(t)
           \/ \E s \in Can!Sections : Can!selectSection(s)
           \/ \E r \in mapDesk.reqs : Can!Answer(r) \/ Can!Fail(r)
           \/ \E ring \in Can!Rings : Can!Outline(ring) \/ Can!addZipAsTerritory(ring)
           \/ \E p \in Places : Can!openSheet(p) \/ Can!SheetLoaded(p) \/ Can!SheetFailed(p)
           \/ \E a \in Can!AllAreas : Can!selectArea(a) \/ Can!PropsAnswered(a) \/ Can!PropsFailed(a)
    PROVE  SectionInv'
<1>1. map' = map
  BY Zenon DEF Can!clearSection, Can!startDraw, Can!startCanvassDraw, Can!cancelDraw, Can!CloseDialog, Can!finishDraw, Can!finishCanvassDraw,
         Can!OpenImport, Can!ImportPolled, Can!PollEnds, Can!closeSheet, Can!openConvert, Can!closeConvert, Can!Worked, Can!MapFocus,
         Can!AreasAnswered, Can!AreasFailed, Can!ensureTicket, Can!NativeFails, Can!retryMap, Can!startDownload, Can!DownloadEnds,
         Can!selectTerritory, Can!selectSection, Can!Answer, Can!Fail, Can!Outline, Can!addZipAsTerritory, Can!openSheet, Can!SheetLoaded,
         Can!SheetFailed, Can!selectArea, Can!PropsAnswered, Can!PropsFailed
<1> QED BY <1>1, ServerStays

LEMMA SectionStep ==
    ASSUME SectionInv, "create" \notin Without, Can!Next
    PROVE  SectionInv'
<1>1. CASE \/ Can!clearSection \/ Can!startDraw \/ Can!startCanvassDraw \/ Can!cancelDraw \/ Can!CloseDialog
           \/ Can!finishDraw \/ Can!finishCanvassDraw \/ Can!OpenImport
           \/ Can!ImportPolled \/ Can!PollEnds \/ Can!closeSheet \/ Can!openConvert \/ Can!closeConvert \/ Can!Worked
           \/ Can!MapFocus \/ Can!AreasAnswered \/ Can!AreasFailed \/ Can!ensureTicket
           \/ Can!NativeFails \/ Can!retryMap \/ Can!startDownload \/ Can!DownloadEnds
  BY <1>1, ScreenSteps
<1>2. CASE Can!saveTerritory \/ Can!reassignSection \/ Can!confirmImport \/ Can!ImportEnds \/ Can!ImportStops \/ Can!convertLead
  BY <1>2, FieldSteps
<1>3. CASE Can!CommitSection
  BY <1>3, CreateSteps
<1>4. CASE Can!deleteSection
  BY <1>4, DeleteSteps
<1>5. ASSUME NEW t \in Can!Territories, Can!selectTerritory(t) \/ Can!deleteTerritory(t) PROVE SectionInv'
  BY <1>5, ScreenSteps, DeleteSteps
<1>6. ASSUME NEW s \in Can!Sections, Can!selectSection(s) \/ Can!OtherDeletes(s) PROVE SectionInv'
  BY <1>6, ScreenSteps, DeleteSteps
<1>7. ASSUME NEW r \in mapDesk.reqs, Can!Answer(r) \/ Can!Fail(r) PROVE SectionInv'
  BY <1>7, ScreenSteps
<1>8. ASSUME NEW ring \in Can!Rings, Can!Outline(ring) \/ Can!addZipAsTerritory(ring) PROVE SectionInv'
  BY <1>8, ScreenSteps
<1>9. ASSUME NEW ring \in Can!Rings, NEW t \in Can!Territories, Can!OtherCreates(t, ring) PROVE SectionInv'
  BY <1>9, CreateSteps
<1>10. ASSUME NEW rep \in BOOLEAN, Can!saveCanvassSection(rep) PROVE SectionInv'
  BY <1>10, CreateSteps
<1>11. ASSUME NEW p \in Places, Can!ImportStep(p) PROVE SectionInv'
  BY <1>11, ImportedPlace
<1>12. ASSUME NEW p \in Places, Can!openSheet(p) \/ Can!SheetLoaded(p) \/ Can!SheetFailed(p) PROVE SectionInv'
  BY <1>12, ScreenSteps
<1>13. ASSUME NEW a \in Can!AllAreas, Can!selectArea(a) \/ Can!PropsAnswered(a) \/ Can!PropsFailed(a) PROVE SectionInv'
  BY <1>13, ScreenSteps
<1> QED BY <1>1, <1>2, <1>3, <1>4, <1>5, <1>6, <1>7, <1>8, <1>9, <1>10, <1>11, <1>12, <1>13 DEF Can!Next

LEMMA SectionRests == ASSUME SectionInv, UNCHANGED <<map, mapDesk, sheet, device, log>> PROVE SectionInv'
  BY DEF SectionInv, Shaped, MembersAtHome, Unmade, CheckHolds, FreeFor, Can!OnePropertyOneSection, Can!Members

SectionPart == part = "canvass" => SectionInv

(* No property is in two sections of one territory, over every drawing, edit, deletion and import
   (routers/canvass.py:86). Desks that create a section at once are left out ("create"). *)
THEOREM SectionsApart == ASSUME "create" \notin Without PROVE PagesSpec => []OnePropertyOneSection
<1>1. PagesInit => SectionPart
  BY SectionStart DEF PagesInit, SectionPart
<1>2. SectionPart /\ [PagesNext]_pages => SectionPart'
  <2> SUFFICES ASSUME SectionPart, [PagesNext]_pages, part' = "canvass" PROVE SectionInv'
    BY DEF SectionPart
  <2>1. CASE CanvassStep
    BY <2>1, SectionStep DEF SectionPart, CanvassStep
  <2>2. CASE EstimatingStep \/ SalesStep \/ StockStep \/ PurchasingStep \/ MaterialsStep \/ BackupsStep
             \/ SiteStep \/ ProposalStep
    BY <2>2 DEF EstimatingStep, SalesStep, StockStep, PurchasingStep, MaterialsStep, BackupsStep,
             SiteStep, ProposalStep
  <2>3. CASE UNCHANGED pages
    BY <2>3, SectionRests DEF SectionPart, pages, canvass
  <2> QED
    BY <2>1, <2>2, <2>3 DEF PagesNext
<1>3. SectionPart => OnePropertyOneSection
  BY DEF SectionPart, SectionInv, OnePropertyOneSection
<1> QED
  BY <1>1, <1>2, <1>3, PTL DEF PagesSpec

(***************************************************************************)
(* Materials imported from CSV files.                                      *)
(***************************************************************************)
Previews == {p \in [of : SUBSET UNION Files, update : SUBSET UNION Files] : p.update \subseteq p.of}
Dialogs == [open : BOOLEAN, text : SUBSET UNION Files, preview : Previews, ack : BOOLEAN,
            asked : SUBSET Files, ticked : Previews]
(* The tick is of the preview on screen, and is not there while a preview is asked for. *)
CsvInv ==
    /\ "csv" \in DOMAIN inv /\ inv.csv \in Dialogs
    /\ inv.csv.ack => inv.csv.asked = {} /\ inv.csv.preview \in {Mat!NoPreview, inv.csv.ticked}
    /\ "silent" \in DOMAIN log /\ Mat!ImportIsAcknowledged

LEMMA CsvStart == ASSUME Mat!Init PROVE CsvInv
<1>1. Mat!NoPreview \in Previews
  BY DEF Mat!NoPreview, Mat!NoFile, Previews
<1>2. Mat!Shut \in Dialogs /\ ~Mat!Shut.ack
  BY <1>1 DEF Mat!Shut, Mat!NoFile, Dialogs
<1>3. "csv" \in DOMAIN inv /\ inv.csv = Mat!Shut /\ "silent" \in DOMAIN log /\ log.silent = {}
  BY Zenon DEF Mat!Init
<1> QED BY <1>2, <1>3 DEF CsvInv, Mat!ImportIsAcknowledged

(* The rest of the program leaves the import dialog alone. *)
LEMMA DialogStays ==
    ASSUME CsvInv, "csv" \in DOMAIN inv', inv'.csv = inv.csv,
           "silent" \in DOMAIN log', log'.silent = log.silent
    PROVE  CsvInv'
  BY DEF CsvInv, Mat!ImportIsAcknowledged

LEMMA CsvBudget ==
    ASSUME CsvInv, Mat!Act \/ Mat!Event \/ log' = log  PROVE "silent" \in DOMAIN log' /\ log'.silent = log.silent
  BY DEF Mat!Act, Mat!Event, CsvInv

LEMMA ListSteps ==
    ASSUME CsvInv,
           \/ \E m \in Mats : \/ Mat!createMaterial(m) \/ Mat!openEdit(m) \/ Mat!deleteMaterial(m) \/ Mat!doAdjust(m)
                              \/ Mat!toggleSelect(m)
           \/ Mat!setFilters \/ Mat!saveEdit \/ Mat!toggleSelectAll \/ Mat!saveBulk \/ Mat!bulkDeactivate \/ Mat!bulkDelete
    PROVE  CsvInv'
<1>1. Mat!Act
  BY Zenon DEF Mat!createMaterial, Mat!openEdit, Mat!deleteMaterial, Mat!doAdjust, Mat!toggleSelect, Mat!setFilters, Mat!saveEdit,
         Mat!toggleSelectAll, Mat!saveBulk, Mat!bulkDeactivate, Mat!bulkDelete, Mat!Bulk
<1>2. "csv" \in DOMAIN inv' /\ inv'.csv = inv.csv
  BY Zenon DEF Mat!createMaterial, Mat!openEdit, Mat!deleteMaterial, Mat!doAdjust, Mat!toggleSelect, Mat!setFilters, Mat!saveEdit,
         Mat!toggleSelectAll, Mat!saveBulk, Mat!bulkDeactivate, Mat!bulkDelete, Mat!Bulk, Mat!Loaded, CsvInv
<1> QED BY <1>1, <1>2, CsvBudget, DialogStays

LEMMA DetailSteps ==
    ASSUME CsvInv,
           \/ \E m \in Mats : Mat!OpenDetail(m)
           \/ Mat!openEditHere \/ Mat!typePrice \/ Mat!saveEditHere \/ Mat!resetToAuto \/ Mat!toggleActive \/ Mat!UndoToggle
           \/ \E s \in Mat!Suppliers : Mat!saveSupplier(s) \/ Mat!makePreferred(s)
           \/ Mat!doAdjustHere \/ Mat!doDelete
    PROVE  CsvInv'
<1>1. Mat!Act /\ inv' = inv
  BY Zenon DEF Mat!OpenDetail, Mat!openEditHere, Mat!typePrice, Mat!saveEditHere, Mat!resetToAuto, Mat!toggleActive, Mat!UndoToggle,
         Mat!saveSupplier, Mat!makePreferred, Mat!doAdjustHere, Mat!doDelete, Mat!Command
<1>2. "csv" \in DOMAIN inv' /\ inv'.csv = inv.csv
  BY <1>1 DEF CsvInv
<1> QED BY <1>1, <1>2, CsvBudget, DialogStays

LEMMA DialogWritten ==
    ASSUME CsvInv, NEW c \in Dialogs, Mat!Csv(c), c.ack => c.asked = {} /\ c.preview \in {Mat!NoPreview, c.ticked},
           "silent" \in DOMAIN log', log'.silent = log.silent
    PROVE  CsvInv'
<1>1. "csv" \in DOMAIN inv' /\ inv'.csv = c
  BY DEF Mat!Csv, CsvInv
<1> QED BY <1>1 DEF CsvInv, Mat!ImportIsAcknowledged

LEMMA OpenStep == ASSUME CsvInv, Mat!openCsv \/ Mat!closeCsv PROVE CsvInv'
<1> DEFINE c == inv.csv
           o == [c EXCEPT !.open = TRUE, !.text = Mat!NoFile, !.preview = Mat!NoPreview]
           s == [c EXCEPT !.open = FALSE]
<1>1. c \in Dialogs /\ (c.ack => c.asked = {} /\ c.preview \in {Mat!NoPreview, c.ticked})
  BY DEF CsvInv
<1>2. Mat!NoPreview \in Previews /\ Mat!NoFile \in SUBSET UNION Files
  BY DEF Mat!NoPreview, Mat!NoFile, Previews
<1>3. o \in Dialogs /\ (o.ack => o.asked = {} /\ o.preview \in {Mat!NoPreview, o.ticked})
  BY <1>1, <1>2 DEF Dialogs
<1>4. s \in Dialogs /\ (s.ack => s.asked = {} /\ s.preview \in {Mat!NoPreview, s.ticked})
  BY <1>1 DEF Dialogs
<1>5. (Mat!Csv(o) \/ Mat!Csv(s)) /\ Mat!Act
  BY DEF Mat!openCsv, Mat!closeCsv
<1> HIDE DEF o, s
<1> QED BY <1>3, <1>4, <1>5, CsvBudget, DialogWritten

(* Choosing a file takes the tick back, and its preview is the one that answers. *)
LEMMA FileSteps ==
    ASSUME CsvInv, "late" \notin Without, NEW f \in Files, Mat!onCsvFile(f) \/ Mat!PreviewAnswer(f) \/ Mat!PreviewLost(f)
    PROVE  CsvInv'
<1> DEFINE c == inv.csv
           a == [c EXCEPT !.text = f, !.ack = FALSE, !.asked = @ \cup {f}]
           b == [c EXCEPT !.asked = @ \ {f}, !.preview = Mat!_csv_diff(f)]
           e == [c EXCEPT !.asked = @ \ {f}]
<1>1. c \in Dialogs /\ (c.ack => c.asked = {})
  BY DEF CsvInv
<1>2. Mat!_csv_diff(f) \in Previews
  BY DEF Mat!_csv_diff, Previews
<1>3. a \in Dialogs /\ ~a.ack
  BY <1>1 DEF Dialogs
<1>4. f \in c.asked => /\ b \in Dialogs /\ ~b.ack
                       /\ e \in Dialogs /\ ~e.ack
  BY <1>1, <1>2 DEF Dialogs
<1>5. Mat!Csv(a) \/ (f \in c.asked /\ (Mat!Csv(b) \/ Mat!Csv(e)))
  BY DEF Mat!onCsvFile, Mat!PreviewAnswer, Mat!PreviewLost, Mat!Chosen
<1>6. Mat!Act \/ Mat!Event \/ log' = log
  BY DEF Mat!onCsvFile, Mat!PreviewAnswer, Mat!PreviewLost
<1> HIDE DEF a, b, e
<1> QED BY <1>3, <1>4, <1>5, <1>6, CsvBudget, DialogWritten

LEMMA TickStep == ASSUME CsvInv, "late" \notin Without, Mat!TickAck PROVE CsvInv'
<1> DEFINE c == inv.csv
           a == [c EXCEPT !.ack = ~@, !.ticked = inv.csv.preview]
<1>1. c \in Dialogs /\ c.asked = {}
  BY DEF CsvInv, Mat!TickAck, Mat!Calm
<1>2. a \in Dialogs /\ a.asked = {} /\ a.preview = a.ticked
  BY <1>1 DEF Dialogs
<1>3. Mat!Csv(a) /\ Mat!Act
  BY DEF Mat!TickAck
<1> HIDE DEF a
<1> QED BY <1>2, <1>3, CsvBudget, DialogWritten

(* What is imported is what the preview on screen was of: it updates nothing, or was ticked. *)
LEMMA CsvCommitStep == ASSUME CsvInv, "late" \notin Without, Mat!commitCsv PROVE CsvInv'
<1> DEFINE c == inv.csv
           a == [c EXCEPT !.open = FALSE, !.text = Mat!NoFile, !.preview = Mat!NoPreview]
<1>1. c \in Dialogs /\ c.preview \in Previews /\ (c.ack => c.preview \in {Mat!NoPreview, c.ticked})
  BY DEF CsvInv, Dialogs
<1>2. c.preview # Mat!NoPreview /\ (c.preview.update = {} \/ c.ack) /\ c.preview.of \in {Mat!NoFile, c.text}
  BY DEF Mat!commitCsv, Mat!Calm, Mat!OffersCommit
<1>3. c.preview.of = c.text
  <2>1. ASSUME c.preview.of = Mat!NoFile  PROVE FALSE
    <3>1. c.preview.update = {}
      BY <1>1, <2>1 DEF Previews, Mat!NoFile
    <3>2. c.preview = Mat!NoPreview
      BY <1>1, <2>1, <3>1 DEF Previews, Mat!NoPreview, Mat!NoFile
    <3> QED BY <1>2, <3>2
  <2> QED BY <1>2, <2>1
<1>4. Mat!Unasked(c) = {}
  BY <1>1, <1>2, <1>3 DEF Mat!Unasked
<1>5. "silent" \in DOMAIN log' /\ log'.silent = log.silent
  BY <1>4 DEF Mat!commitCsv, CsvInv
<1>6. "csv" \in DOMAIN inv' /\ inv'.csv = a
  BY DEF Mat!commitCsv, Mat!Loaded, CsvInv
<1>7. Mat!NoPreview \in Previews /\ Mat!NoFile \in SUBSET UNION Files
  BY DEF Mat!NoPreview, Mat!NoFile, Previews
<1>8. a \in Dialogs /\ a.preview = Mat!NoPreview /\ (a.ack => a.asked = {})
  BY <1>1, <1>7 DEF Dialogs, CsvInv
<1> HIDE DEF a
<1> QED BY <1>5, <1>6, <1>8 DEF CsvInv, Mat!ImportIsAcknowledged

LEMMA CsvStep == ASSUME CsvInv, "late" \notin Without, Mat!Next PROVE CsvInv'
  BY ListSteps, DetailSteps, OpenStep, FileSteps, TickStep, CsvCommitStep DEF Mat!Next

LEMMA CsvRests == ASSUME CsvInv, UNCHANGED <<mats, inv, det, log>> PROVE CsvInv'
  BY DEF CsvInv, Mat!ImportIsAcknowledged

CsvPart == part = "materials" => CsvInv

(* An import overwrites only materials its preview listed and its sender ticked (Inventory.jsx:173). A preview
   answered after the next file was read is left out ("late"). *)
THEOREM ImportAcknowledged == ASSUME "late" \notin Without PROVE PagesSpec => []ImportIsAcknowledged
<1>1. PagesInit => CsvPart
  BY CsvStart DEF PagesInit, CsvPart
<1>2. CsvPart /\ [PagesNext]_pages => CsvPart'
  <2> SUFFICES ASSUME CsvPart, [PagesNext]_pages, part' = "materials" PROVE CsvInv'
    BY DEF CsvPart
  <2>1. CASE MaterialsStep
    BY <2>1, CsvStep DEF CsvPart, MaterialsStep
  <2>2. CASE EstimatingStep \/ SalesStep \/ StockStep \/ PurchasingStep \/ CanvassStep \/ BackupsStep
             \/ SiteStep \/ ProposalStep
    BY <2>2 DEF EstimatingStep, SalesStep, StockStep, PurchasingStep, CanvassStep, BackupsStep,
             SiteStep, ProposalStep
  <2>3. CASE UNCHANGED pages
    BY <2>3, CsvRests DEF CsvPart, pages, materials
  <2> QED
    BY <2>1, <2>2, <2>3 DEF PagesNext
<1>3. CsvPart => ImportIsAcknowledged
  BY DEF CsvPart, CsvInv, ImportIsAcknowledged
<1> QED
  BY <1>1, <1>2, <1>3, PTL DEF PagesSpec

(***************************************************************************)
(* Backups, the retention sweep and restores.                              *)
(***************************************************************************)
Tags == {"", "_import", Bak!Safety}
BackupFiles == [name : Nat, at : Nat, tag : Tags, of : Nat, copied : BOOLEAN]
BackupHists == [acts : Nat, events : Nat, clock : Nat, undo : Nat, lost : BOOLEAN]
Dumps == [on : BOOLEAN, by : BackupDesks \cup {Bak!NoOne}, auto : BOOLEAN, of : Nat]
Restores == [at : {"", "safety", "drop", "filling"}, by : BackupDesks \cup {Bak!NoOne}, name : Nat]

(* The undo point is the newest safety backup; the one just staged excepted. *)
NewestSafety(fs, v) ==
    \E f \in fs : f.tag = Bak!Safety /\ f.of = v /\ \A g \in fs : g.tag = Bak!Safety => g.at <= f.at
SameFile(fs) == \A f, g \in fs : f.name = g.name => f.of = g.of /\ f.tag = g.tag
Dated(fs, now) == \A f \in fs : f.name <= now /\ f.at <= now
Once(fs) == \A f, g \in fs : f.at = g.at => f = g
UndoFileKept == log.undo # 0 => /\ \E f \in disk : f.of = log.undo
                                /\ Bak!Restaged \/ NewestSafety(disk, log.undo)
BackupInv ==
    /\ data \in Nat /\ disk \in SUBSET BackupFiles /\ away \in SUBSET BackupFiles
    /\ log \in BackupHists /\ dump \in Dumps /\ res \in Restores
    /\ SameFile(disk \cup away) /\ Dated(disk \cup away, log.clock) /\ Once(disk)
    /\ res.at = "drop" => data = log.undo
    /\ ~log.lost /\ UndoFileKept

LEMMA NothingDumped == Bak!NoDump \in Dumps
  BY DEF Bak!NoDump, Dumps, Bak!NoOne

LEMMA BackupStart == ASSUME Bak!Init PROVE BackupInv
<1>1. data \in Nat /\ disk = {} /\ away = {} /\ log \in BackupHists /\ log.undo = 0 /\ ~log.lost
  BY Zenon DEF Bak!Init, BackupHists
<1>2. dump \in Dumps /\ res \in Restores /\ res.at = ""
  BY Zenon DEF Bak!Init, Dumps, Restores, Bak!NoDump, Bak!NoRestore, Bak!NoOne
<1>3. SameFile(disk \cup away) /\ Dated(disk \cup away, log.clock) /\ Once(disk)
  BY <1>1 DEF SameFile, Dated, Once
<1> QED BY <1>1, <1>2, <1>3, Zenon DEF BackupInv, UndoFileKept

LEMMA BackupBudget ==
    ASSUME BackupInv, Bak!Act \/ Bak!Event \/ log' = log
    PROVE  log' \in BackupHists /\ log'.clock = log.clock /\ log'.undo = log.undo /\ log'.lost = log.lost
  BY DEF BackupInv, Bak!Act, Bak!Acting, Bak!Acted, Bak!Event, BackupHists

LEMMA Ticked ==
    ASSUME NEW h \in BackupHists
    PROVE  /\ Bak!Tick(h) \in BackupHists /\ Bak!Tick(h).clock = h.clock + 1 /\ Bak!Tick(h).undo = h.undo /\ Bak!Tick(h).lost = h.lost
  BY DEF Bak!Tick, BackupHists

LEMMA ActedHist ==
    ASSUME BackupInv
    PROVE  /\ Bak!Acted \in BackupHists /\ Bak!Acted.clock = log.clock /\ Bak!Acted.undo = log.undo /\ Bak!Acted.lost = log.lost
  BY DEF BackupInv, Bak!Acted, BackupHists

(* What neither writes files nor a restore. *)
LEMMA FilesStay ==
    ASSUME BackupInv, log' \in BackupHists, log'.clock = log.clock, log'.undo = log.undo, log'.lost = log.lost,
           disk' = disk, away' = away, dump' \in Dumps, data' \in Nat,
           res' \in Restores, res'.at = "drop" => res.at = "drop" /\ data' = data,
           Bak!Restaged => Bak!Restaged'
    PROVE  BackupInv'
  BY DEF BackupInv, UndoFileKept

LEMMA MarkedFiles ==
    ASSUME NEW fs \in SUBSET BackupFiles, NEW n
    PROVE  /\ Bak!Marked(fs, n) \in SUBSET BackupFiles
           /\ \A g \in Bak!Marked(fs, n) : \E f \in fs : /\ g.name = f.name /\ g.at = f.at
                                                    /\ g.tag = f.tag /\ g.of = f.of
           /\ \A f \in fs : \E g \in Bak!Marked(fs, n) : /\ g.name = f.name /\ g.at = f.at
                                                    /\ g.tag = f.tag /\ g.of = f.of
           /\ Once(fs) => Once(Bak!Marked(fs, n))
<1> DEFINE M(f) == IF f.name = n THEN [f EXCEPT !.copied = TRUE] ELSE f
<1>1. Bak!Marked(fs, n) = {M(f) : f \in fs}
  BY DEF Bak!Marked
<1>2. \A f \in fs : /\ M(f) \in BackupFiles /\ M(f).name = f.name /\ M(f).at = f.at
                    /\ M(f).tag = f.tag /\ M(f).of = f.of
  BY DEF BackupFiles
<1> HIDE DEF M
<1>3. \A g \in Bak!Marked(fs, n) : \E f \in fs : g = M(f)
  BY <1>1
<1>4. \A f \in fs : M(f) \in Bak!Marked(fs, n)
  BY <1>1
<1>5. Bak!Marked(fs, n) \in SUBSET BackupFiles
  BY <1>2, <1>3
<1>6. \A g \in Bak!Marked(fs, n) : \E f \in fs : g.name = f.name /\ g.at = f.at /\ g.tag = f.tag /\ g.of = f.of
  BY <1>2, <1>3
<1>7. \A f \in fs : \E g \in Bak!Marked(fs, n) : g.name = f.name /\ g.at = f.at /\ g.tag = f.tag /\ g.of = f.of
  BY <1>2, <1>4
<1>8. ASSUME Once(fs) PROVE Once(Bak!Marked(fs, n))
  <2> SUFFICES ASSUME NEW a \in Bak!Marked(fs, n), NEW b \in Bak!Marked(fs, n), a.at = b.at PROVE a = b
    BY DEF Once
  <2>1. PICK f \in fs : a = M(f)
    BY <1>3
  <2>2. PICK g \in fs : b = M(g)
    BY <1>3
  <2> QED BY <1>2, <1>8, <2>1, <2>2 DEF Once
<1> QED BY <1>5, <1>6, <1>7, <1>8

LEMMA CopiedFiles ==
    ASSUME NEW f \in BackupFiles, away \in SUBSET BackupFiles
    PROVE  Bak!copy_offsite(f) \subseteq away \cup {f}
  BY DEF Bak!copy_offsite, Bak!prune_offsite

LEMMA MarkedKeeps ==
    ASSUME NEW fs \in SUBSET BackupFiles, NEW n, NEW v
    PROVE  /\ \A now : Dated(fs, now) => Dated(Bak!Marked(fs, n), now)
           /\ (\E f \in fs : f.of = v) => \E f \in Bak!Marked(fs, n) : f.of = v
           /\ NewestSafety(fs, v) => NewestSafety(Bak!Marked(fs, n), v)
<1> DEFINE ms == Bak!Marked(fs, n)
<1>0. fs \in SUBSET BackupFiles
  OBVIOUS
<1> HIDE DEF ms
<1>1. /\ \A g \in ms : \E f \in fs : g.name = f.name /\ g.at = f.at /\ g.tag = f.tag /\ g.of = f.of
      /\ \A f \in fs : \E g \in ms : g.name = f.name /\ g.at = f.at /\ g.tag = f.tag /\ g.of = f.of
  BY <1>0, MarkedFiles DEF ms
<1>2. \A now : Dated(fs, now) => Dated(ms, now)
  BY <1>1 DEF Dated
<1>3. (\E f \in fs : f.of = v) => \E f \in ms : f.of = v
  BY <1>1
<1>4. ASSUME NewestSafety(fs, v) PROVE NewestSafety(ms, v)
  <2>1. PICK f \in fs : f.tag = Bak!Safety /\ f.of = v /\ \A g \in fs : g.tag = Bak!Safety => g.at <= f.at
    BY <1>4 DEF NewestSafety
  <2>2. PICK m \in ms : m.at = f.at /\ m.tag = f.tag /\ m.of = f.of
    BY <1>1
  <2>3. \A g \in ms : g.tag = Bak!Safety => g.at <= m.at
    BY <1>1, <2>1, <2>2
  <2> QED BY <2>1, <2>2, <2>3 DEF NewestSafety
<1> QED BY <1>2, <1>3, <1>4 DEF ms

(* Files rewritten in the place of the ones there, other files, or one new file. *)
LEMMA SameAgain ==
    ASSUME NEW fs, NEW gs, SameFile(fs),
           \A g \in gs : \E f \in fs : g.name = f.name /\ g.tag = f.tag /\ g.of = f.of
    PROVE  SameFile(gs)
<1> SUFFICES ASSUME NEW a \in gs, NEW b \in gs, a.name = b.name PROVE a.of = b.of /\ a.tag = b.tag
  BY DEF SameFile
<1>1. PICK f \in fs : a.name = f.name /\ a.tag = f.tag /\ a.of = f.of
  OBVIOUS
<1>2. PICK g \in fs : b.name = g.name /\ b.tag = g.tag /\ b.of = g.of
  OBVIOUS
<1> QED BY <1>1, <1>2 DEF SameFile

LEMMA MadeFile ==
    ASSUME BackupInv, NEW tag \in Tags, NEW of \in Nat
    PROVE  LET made == Bak!File(Bak!Now, tag, of) IN
           /\ made \in BackupFiles /\ made.tag = tag /\ made.of = of /\ made.at = log.clock + 1
           /\ SameFile(disk \cup away \cup {made}) /\ Dated(disk \cup away \cup {made}, log.clock + 1)
           /\ Once(disk \cup {made})
<1> DEFINE made == Bak!File(Bak!Now, tag, of)
<1>1. /\ made \in BackupFiles /\ made.tag = tag /\ made.of = of
      /\ made.at = log.clock + 1 /\ made.name = log.clock + 1
  BY DEF Bak!File, Bak!Now, BackupFiles, BackupInv, BackupHists
<1> HIDE DEF made
<1>2. \A f \in disk \cup away : f.name # made.name /\ f.at # made.at
  BY <1>1 DEF BackupInv, Dated, BackupFiles, BackupHists
<1>3. SameFile(disk \cup away \cup {made}) /\ Once(disk \cup {made})
  BY <1>2 DEF SameFile, Once, BackupInv
<1>4. Dated(disk \cup away \cup {made}, log.clock + 1)
  BY <1>1 DEF Dated, BackupFiles, BackupInv, BackupHists
<1> QED BY <1>1, <1>3, <1>4 DEF made

LEMMA WriteSteps ==
    ASSUME BackupInv, "busy" \notin Without, Bak!Work
    PROVE  BackupInv'
<1>0. data \in Nat /\ dump \in Dumps /\ res \in Restores
  BY DEF BackupInv
<1>1. data' \in Nat
  <2>1. data' = data + 1
    BY Zenon DEF Bak!Work
  <2> QED BY <1>0, <2>1
<1>2. res.at = ""
  BY Zenon DEF Bak!Work
<1>3. dump' \in Dumps /\ res' \in Restores /\ res'.at # "drop"
  <2>1. dump' = dump /\ res' = res
    BY Zenon DEF Bak!Work
  <2> QED BY <1>0, <1>2, <2>1, Zenon
<1>4. ~Bak!Restaged
  BY <1>2, Zenon DEF Bak!Restaged
<1> QED BY <1>1, <1>3, <1>4, BackupBudget, FilesStay, Zenon DEF Bak!Work

(* The schedule, the page and a dump that begins or fails. *)
LEMMA BackupPageSteps ==
    ASSUME BackupInv,
           \/ Bak!_scheduler_tick \/ Bak!NewDay \/ Bak!DumpFails
           \/ \E d \in BackupDesks : \/ Bak!load(d) \/ Bak!createBackup(d) \/ Bak!runScheduledNow(d)
                               \/ Bak!SwitchOn(d) \/ Bak!SaveRetention(d) \/ Bak!SwitchCopy(d) \/ Bak!saveLocation(d)
                               \/ Bak!cancelRestore(d) \/ \E n \in 1..log.clock : Bak!openRestore(d, n)
    PROVE  BackupInv'
<1>1. UNCHANGED <<data, disk, away, res>>
  BY Zenon DEF Bak!_scheduler_tick, Bak!NewDay, Bak!DumpFails, Bak!load, Bak!createBackup, Bak!runScheduledNow, Bak!SwitchOn, Bak!SaveRetention,
         Bak!SwitchCopy, Bak!saveSchedule, Bak!saveLocation, Bak!cancelRestore, Bak!openRestore
<1>2. Bak!Act \/ Bak!Event \/ log' = log
  BY Zenon DEF Bak!_scheduler_tick, Bak!NewDay, Bak!DumpFails, Bak!load, Bak!createBackup, Bak!runScheduledNow, Bak!SwitchOn, Bak!SaveRetention,
         Bak!SwitchCopy, Bak!saveSchedule, Bak!saveLocation, Bak!cancelRestore, Bak!openRestore
<1>0. dump \in Dumps /\ data \in Nat
  BY DEF BackupInv
<1>3. dump' \in Dumps
  <2>1. \/ dump' \in {dump, Bak!NoDump}
        \/ \E d \in BackupDesks \cup {Bak!NoOne}, auto \in BOOLEAN : dump' = [on |-> TRUE, by |-> d, auto |-> auto, of |-> data]
    BY Zenon DEF Bak!_scheduler_tick, Bak!NewDay, Bak!DumpFails, Bak!load, Bak!createBackup, Bak!runScheduledNow, Bak!SwitchOn, Bak!SaveRetention,
           Bak!SwitchCopy, Bak!saveSchedule, Bak!saveLocation, Bak!cancelRestore, Bak!openRestore
  <2>2. CASE \E d \in BackupDesks \cup {Bak!NoOne}, auto \in BOOLEAN : dump' = [on |-> TRUE, by |-> d, auto |-> auto, of |-> data]
    BY <1>0, <2>2 DEF Dumps
  <2> QED BY <1>0, <2>1, <2>2, NothingDumped
<1>4. data' \in Nat /\ res' \in Restores /\ (res'.at = "drop" => res.at = "drop" /\ data' = data)
  BY <1>1 DEF BackupInv
<1>5. Bak!Restaged => Bak!Restaged'
  BY <1>1 DEF Bak!Restaged
<1> QED BY <1>1, <1>2, <1>3, <1>4, <1>5, BackupBudget, FilesStay

(* The newest safety backup outlives retention. *)
LEMMA PrunedKeeps ==
    ASSUME BackupInv, ~Bak!Restaged, log.undo # 0, NEW made \in BackupFiles, made.tag = "", NEW keep
    PROVE  NewestSafety(Bak!prune_local(disk \cup {made}, keep), log.undo)
<1> DEFINE fs == disk \cup {made}
<1>1. PICK f \in disk : f.tag = Bak!Safety /\ f.of = log.undo /\ \A g \in disk : g.tag = Bak!Safety => g.at <= f.at
  BY Zenon DEF BackupInv, UndoFileKept, NewestSafety
<1>2. "" # Bak!Safety
  BY Zenon DEF Bak!Safety
<1>3. f \in fs /\ \A g \in fs : g.tag = Bak!Safety => g.at <= f.at
  BY <1>1, <1>2, Zenon
<1>4. f \in Bak!prune_local(fs, keep)
  BY <1>1, <1>3, Zenon DEF Bak!prune_local, Bak!Newest
<1>5. Bak!prune_local(fs, keep) \subseteq fs
  BY Zenon DEF Bak!prune_local
<1> QED BY <1>1, <1>3, <1>4, <1>5, Zenon DEF NewestSafety

LEMMA DumpDoneStep ==
    ASSUME BackupInv, "restage" \notin Without, Bak!DumpDone
    PROVE  BackupInv'
<1> DEFINE made == Bak!File(Bak!Now, "", dump.of)
           fs == Bak!prune_local(disk \cup {made}, sched.keep)
           ms == Bak!Marked(fs, made.name)
           cs == Bak!copy_offsite(made)
           h == [log EXCEPT !.events = @ + 1]
<1>1. dump.of \in Nat /\ "" \in Tags
  BY DEF BackupInv, Dumps, Tags
<1>2. /\ made \in BackupFiles /\ made.tag = ""
      /\ SameFile(disk \cup away \cup {made}) /\ Dated(disk \cup away \cup {made}, log.clock + 1)
      /\ Once(disk \cup {made})
  BY <1>1, MadeFile, Zenon
<1>3. fs \subseteq disk \cup {made} /\ fs \in SUBSET BackupFiles
  BY <1>2, Zenon DEF Bak!prune_local, BackupInv
<1>4. cs \subseteq away \cup {made} /\ cs \in SUBSET BackupFiles
  BY <1>2, CopiedFiles, Zenon DEF BackupInv
<1>5. disk' \in {fs, ms} /\ away' \in {away, cs} /\ data' = data /\ res' = res /\ dump' = Bak!NoDump
  BY Zenon DEF Bak!DumpDone
<1>6. h \in BackupHists /\ h.clock = log.clock /\ h.undo = log.undo /\ h.lost = log.lost /\ log \in BackupHists
  BY DEF BackupInv, BackupHists
<1>7. log' \in {Bak!Tick(log), Bak!Tick(h)}
  BY Zenon DEF Bak!DumpDone
<1> HIDE DEF made, fs, ms, cs, h
<1>8. log' \in BackupHists /\ log'.clock = log.clock + 1 /\ log'.undo = log.undo /\ log'.lost = log.lost
  BY <1>6, <1>7, Ticked
<1>9. ~Bak!Restaged
  BY Zenon DEF Bak!DumpDone, Bak!Settled
<1>10. Once(fs)
  BY <1>2, <1>3, Zenon DEF Once
<1>11. /\ ms \in SUBSET BackupFiles /\ Once(ms)
       /\ \A g \in ms : \E f \in fs : g.name = f.name /\ g.at = f.at /\ g.tag = f.tag /\ g.of = f.of
  BY <1>3, <1>10, MarkedFiles DEF ms
<1>12. disk' \in SUBSET BackupFiles /\ away' \in SUBSET BackupFiles /\ Once(disk')
  BY <1>3, <1>4, <1>5, <1>10, <1>11 DEF BackupInv
<1>13. \A g \in disk' \cup away' : \E f \in disk \cup away \cup {made} :
           g.name = f.name /\ g.at = f.at /\ g.tag = f.tag /\ g.of = f.of
  BY <1>3, <1>4, <1>5, <1>11
<1>14. SameFile(disk' \cup away')
  BY <1>2, <1>13, SameAgain, Zenon
<1>15. Dated(disk' \cup away', log.clock + 1)
  BY <1>2, <1>13, Zenon DEF Dated
<1>16. log.undo # 0 => NewestSafety(disk', log.undo)
  <2>1. log.undo # 0 => NewestSafety(fs, log.undo)
    BY <1>2, <1>9, PrunedKeeps, Zenon DEF fs
  <2>2. NewestSafety(fs, log.undo) => NewestSafety(ms, log.undo)
    BY <1>3, MarkedKeeps DEF ms
  <2> QED BY <1>5, <2>1, <2>2
<1>17. NewestSafety(disk', log.undo) => \E f \in disk' : f.of = log.undo
  BY DEF NewestSafety
<1>18. dump' \in Dumps
  BY <1>5 DEF Bak!NoDump, Dumps, Bak!NoOne
<1> QED BY <1>5, <1>8, <1>12, <1>14, <1>15, <1>16, <1>17, <1>18 DEF BackupInv, UndoFileKept

(* A file written by people, or a copy brought back for a restore. *)
LEMMA UploadStep ==
    ASSUME BackupInv, NEW d \in BackupDesks, Bak!onUploadFile(d)
    PROVE  BackupInv'
<1>1. PICK v \in 1..data : disk' = disk \cup {Bak!File(Bak!Now, "_import", v)}
  BY DEF Bak!onUploadFile
<1> DEFINE made == Bak!File(Bak!Now, "_import", v)
<1>2. v \in Nat /\ "_import" \in Tags /\ "_import" # Bak!Safety
  BY DEF BackupInv, Tags, Bak!Safety
<1>3. /\ made \in BackupFiles /\ made.tag = "_import"
      /\ SameFile(disk \cup away \cup {made}) /\ Dated(disk \cup away \cup {made}, log.clock + 1)
      /\ Once(disk \cup {made})
  BY <1>2, MadeFile
<1>4. log' = Bak!Tick(Bak!Acted) /\ UNCHANGED <<data, away, dump, res>>
  BY DEF Bak!onUploadFile
<1>5. log' \in BackupHists /\ log'.clock = log.clock + 1 /\ log'.undo = log.undo /\ log'.lost = log.lost
  BY <1>4, ActedHist, Ticked
<1> HIDE DEF made
<1>6. disk' = disk \cup {made}
  BY <1>1 DEF made
<1>7. disk' \cup away' = disk \cup away \cup {made}
  BY <1>4, <1>6
<1>8. UndoFileKept'
  <2>1. Bak!Restaged => Bak!Restaged'
    BY <1>4, <1>6 DEF Bak!Restaged
  <2>2. NewestSafety(disk, log.undo) => NewestSafety(disk', log.undo)
    BY <1>2, <1>3, <1>6 DEF NewestSafety
  <2> QED BY <1>5, <1>6, <2>1, <2>2 DEF BackupInv, UndoFileKept
<1> QED BY <1>3, <1>4, <1>5, <1>6, <1>7, <1>8 DEF BackupInv

LEMMA CopyStep ==
    ASSUME BackupInv, NEW d \in BackupDesks, NEW n, Bak!copyOffsite(d, n)
    PROVE  BackupInv'
<1>1. UNCHANGED <<data, dump, res>> /\ Bak!Act
  BY DEF Bak!copyOffsite
<1>2. log' \in BackupHists /\ log'.clock = log.clock /\ log'.undo = log.undo /\ log'.lost = log.lost
  BY <1>1, BackupBudget
<1>3. CASE n \in Bak!Names(disk) /\ away' = Bak!copy_offsite([Bak!Named(disk, n) EXCEPT !.copied = FALSE])
           /\ disk' = Bak!Marked(disk, n)
  <2> DEFINE f == Bak!Named(disk, n)
             c == [f EXCEPT !.copied = FALSE]
             ms == Bak!Marked(disk, n)
  <2>1. f \in disk /\ f \in BackupFiles
    BY <1>3 DEF Bak!Names, Bak!Named, BackupInv
  <2>2. c \in BackupFiles /\ c.name = f.name /\ c.at = f.at /\ c.tag = f.tag /\ c.of = f.of
    BY <2>1 DEF BackupFiles
  <2> HIDE DEF c, f, ms
  <2>3. disk \in SUBSET BackupFiles /\ away \in SUBSET BackupFiles /\ Once(disk)
    BY DEF BackupInv
  <2>4. away' \subseteq away \cup {c}
    BY <1>3, <2>2, <2>3, CopiedFiles DEF c, f
  <2>5. /\ ms \in SUBSET BackupFiles /\ Once(ms)
        /\ \A a \in ms : \E b \in disk : a.name = b.name /\ a.at = b.at /\ a.tag = b.tag /\ a.of = b.of
        /\ \A b \in disk : \E a \in ms : a.name = b.name /\ a.at = b.at /\ a.tag = b.tag /\ a.of = b.of
    BY <2>3, MarkedFiles DEF ms
  <2>6. disk' = ms
    BY <1>3 DEF ms
  <2>7. \A a \in disk' \cup away' : \E b \in disk \cup away :
            a.name = b.name /\ a.at = b.at /\ a.tag = b.tag /\ a.of = b.of
    BY <2>1, <2>2, <2>4, <2>5, <2>6
  <2>8. SameFile(disk' \cup away')
    BY <2>7, SameAgain DEF BackupInv
  <2>9. Dated(disk' \cup away', log.clock)
    BY <2>7 DEF Dated, BackupInv
  <2>10. /\ (\E b \in disk : b.of = log.undo) => \E b \in disk' : b.of = log.undo
         /\ NewestSafety(disk, log.undo) => NewestSafety(disk', log.undo)
    BY <1>3, <2>3, MarkedKeeps
  <2>11. Bak!Restaged => Bak!Restaged'
    BY <1>1, <2>5, <2>6 DEF Bak!Restaged
  <2>12. UndoFileKept'
    BY <1>2, <2>10, <2>11 DEF UndoFileKept, BackupInv
  <2> QED BY <1>1, <1>2, <2>2, <2>3, <2>4, <2>5, <2>6, <2>8, <2>9, <2>12 DEF BackupInv
<1>4. CASE UNCHANGED <<disk, away>>
  <2>1. data' \in Nat /\ dump' \in Dumps /\ res' \in Restores
    BY <1>1 DEF BackupInv
  <2>2. Bak!Restaged => Bak!Restaged'
    BY <1>1, <1>4 DEF Bak!Restaged
  <2> QED BY <1>1, <1>2, <1>4, <2>1, <2>2, FilesStay
<1> QED BY <1>3, <1>4 DEF Bak!copyOffsite

(***************************************************************************)
(* The restore.                                                            *)
(***************************************************************************)
LEMMA RestoreStep ==
    ASSUME BackupInv, NEW d \in BackupDesks, Bak!doRestore(d)
    PROVE  BackupInv'
<1>1. UNCHANGED <<data, disk, away, dump>> /\ Bak!Act /\ res.at = ""
  BY Zenon DEF Bak!doRestore
<1>2. data' \in Nat /\ dump' \in Dumps
  BY <1>1, Zenon DEF BackupInv
<1>3. ~Bak!Restaged
  BY <1>1, Zenon DEF Bak!Restaged
<1>4. res' \in Restores /\ res'.at # "drop"
  <2>1. CASE bkPage[d].target \in Bak!Names(disk)
    <3>1. bkPage[d].target \in Nat
      BY <2>1 DEF Bak!Names, BackupInv, BackupFiles
    <3> QED BY <2>1, <3>1, Zenon DEF Bak!doRestore, Restores
  <2>2. CASE bkPage[d].target \notin Bak!Names(disk)
    BY <1>1, <2>2, Zenon DEF Bak!doRestore, BackupInv
  <2> QED BY <2>1, <2>2
<1> QED BY <1>1, <1>2, <1>3, <1>4, BackupBudget, FilesStay, Zenon

LEMMA StageStep ==
    ASSUME BackupInv, NEW d \in BackupDesks, NEW n \in Nat, Bak!restoreFromCopy(d, n)
    PROVE  BackupInv'
<1>1. UNCHANGED <<data, away, dump>> /\ res.at = ""
  BY Zenon DEF Bak!restoreFromCopy
<1>2. data' \in Nat /\ dump' \in Dumps /\ ~Bak!Restaged
  BY <1>1, Zenon DEF BackupInv, Bak!Restaged
<1>3. CASE n \in Bak!Names(away) /\ disk' = Bak!Staged(n) /\ res' = [at |-> "safety", by |-> d, name |-> n]
           /\ log' = Bak!Tick(Bak!Acted)
  <2> DEFINE c == Bak!Named(away, n)
             s == [c EXCEPT !.at = Bak!Now]
  <2>1. c \in away /\ c \in BackupFiles /\ c.name = n
    BY <1>3 DEF Bak!Names, Bak!Named, BackupInv
  <2>2. s \in BackupFiles /\ s.name = n /\ s.at = log.clock + 1 /\ s.tag = c.tag /\ s.of = c.of
    BY <2>1 DEF BackupFiles, Bak!Now, BackupInv, BackupHists
  <2> HIDE DEF s, c
  <2>3. disk' = {f \in disk : f.name # n} \cup {s}
    BY <1>3 DEF Bak!Staged, s, c
  <2>4. log' \in BackupHists /\ log'.clock = log.clock + 1 /\ log'.undo = log.undo /\ log'.lost = log.lost
    BY <1>3, ActedHist, Ticked
  <2>5. res' \in Restores /\ res'.at = "safety" /\ res'.name = n
    BY <1>3 DEF Restores
  <2>6. disk' \in SUBSET BackupFiles /\ away' \in SUBSET BackupFiles
    BY <1>1, <2>2, <2>3, Zenon DEF BackupInv
  <2>7. SameFile(disk' \cup away')
    <3>1. \A g \in disk' \cup away' : \E f \in disk \cup away : g.name = f.name /\ g.tag = f.tag /\ g.of = f.of
      BY <1>1, <2>1, <2>2, <2>3, Zenon
    <3> QED BY <3>1, SameAgain DEF BackupInv
  <2>8. Dated(disk' \cup away', log.clock + 1)
    <3>1. \A f \in disk \cup away : f.name <= log.clock /\ f.at <= log.clock /\ f.name \in Nat /\ f.at \in Nat
      BY DEF Dated, BackupInv, BackupFiles
    <3>2. s.name \in Nat /\ s.name <= log.clock /\ s.at = log.clock + 1 /\ log.clock \in Nat
      BY <2>1, <2>2, <3>1 DEF BackupInv, BackupHists
    <3>3. \A f \in disk' \cup away' : f = s \/ f \in disk \cup away
      BY <1>1, <2>3, Zenon
    <3>4. \A f \in disk' \cup away' : f.name <= log.clock + 1 /\ f.at <= log.clock + 1
      BY <3>1, <3>2, <3>3
    <3> QED BY <3>4 DEF Dated
  <2>9. Once(disk')
    BY <2>2, <2>3 DEF Once, Dated, BackupInv, BackupFiles, BackupHists
  <2>10. ASSUME log.undo # 0
         PROVE  (\E f \in disk' : f.of = log.undo) /\ (Bak!Restaged' \/ NewestSafety(disk', log.undo))
    <3>1. PICK f \in disk : f.tag = Bak!Safety /\ f.of = log.undo /\ \A g \in disk : g.tag = Bak!Safety => g.at <= f.at
      BY <1>2, <2>10 DEF BackupInv, UndoFileKept, NewestSafety
    <3>2. CASE f.name = n
      <4>1. s.tag = Bak!Safety /\ s.of = log.undo
        BY <2>1, <2>2, <3>1, <3>2 DEF BackupInv, SameFile
      <4>2. \A g \in disk' : g.at <= s.at
        BY <2>2, <2>3 DEF BackupInv, Dated, BackupFiles, BackupHists
      <4> QED BY <2>3, <4>1, <4>2 DEF NewestSafety
    <3>3. CASE f.name # n /\ s.tag = Bak!Safety
      <4>1. n <= log.clock
        BY <2>1 DEF BackupInv, Dated
      <4>2. s.at # s.name
        BY <2>2, <4>1 DEF BackupInv, BackupHists
      <4>3. Bak!Restaged'
        BY <2>2, <2>3, <2>5, <3>3, <4>2 DEF Bak!Restaged
      <4> QED BY <2>3, <3>1, <3>3, <4>3
    <3>4. CASE f.name # n /\ s.tag # Bak!Safety
      BY <2>3, <3>1, <3>4 DEF NewestSafety
    <3> QED BY <3>2, <3>3, <3>4
  <2>11. UndoFileKept'
    BY <2>4, <2>10 DEF UndoFileKept
  <2>12. ~log'.lost
    BY <2>4 DEF BackupInv
  <2> QED BY <1>2, <2>4, <2>5, <2>6, <2>7, <2>8, <2>9, <2>11, <2>12 DEF BackupInv
<1>4. CASE UNCHANGED <<disk, res>> /\ log' = Bak!Acted
  <2>1. res' \in Restores
    BY <1>4 DEF BackupInv
  <2> QED BY <1>1, <1>2, <1>4, <2>1, ActedHist, FilesStay, Zenon
<1> QED BY <1>3, <1>4, Zenon DEF Bak!restoreFromCopy

(* The restore's own safety backup becomes the undo point. *)
LEMMA SafetyStep ==
    ASSUME BackupInv, Bak!SafetyBackup
    PROVE  BackupInv'
<1> DEFINE made == Bak!File(Bak!Now, Bak!Safety, data)
           h == [log EXCEPT !.undo = data]
<1>1. data \in Nat /\ Bak!Safety \in Tags
  BY DEF BackupInv, Tags
<1>2. /\ made \in BackupFiles /\ made.tag = Bak!Safety /\ made.of = data /\ made.at = log.clock + 1
      /\ SameFile(disk \cup away \cup {made}) /\ Dated(disk \cup away \cup {made}, log.clock + 1)
      /\ Once(disk \cup {made})
  BY <1>1, MadeFile
<1>3. h \in BackupHists /\ h.clock = log.clock /\ h.undo = data /\ h.lost = log.lost
  BY DEF BackupInv, BackupHists
<1>4. log' = Bak!Tick(h) /\ disk' = disk \cup {made} /\ UNCHANGED <<data, away, dump>> /\ res' = [res EXCEPT !.at = "drop"]
  BY DEF Bak!SafetyBackup, Bak!SafetyMade
<1> HIDE DEF made, h
<1>5. log' \in BackupHists /\ log'.clock = log.clock + 1 /\ log'.undo = data /\ log'.lost = log.lost
  BY <1>3, <1>4, Ticked
<1>6. res' \in Restores
  BY <1>4, Zenon DEF BackupInv, Restores
<1>7. \A g \in disk' : g.at <= made.at
  BY <1>2, <1>4 DEF BackupInv, Dated, BackupFiles, BackupHists
<1>8. NewestSafety(disk', data) /\ \E f \in disk' : f.of = data
  BY <1>2, <1>4, <1>7 DEF NewestSafety
<1>9. disk' \cup away' = disk \cup away \cup {made}
  BY <1>4
<1> QED BY <1>2, <1>4, <1>5, <1>6, <1>8, <1>9 DEF BackupInv, UndoFileKept

LEMMA DropStep ==
    ASSUME BackupInv, Bak!Drop
    PROVE  BackupInv'
<1>1. UNCHANGED <<disk, away>> /\ data' = 0 /\ dump' = Bak!NoDump /\ res.at = "drop" /\ res' = [res EXCEPT !.at = "filling"]
  BY DEF Bak!Drop
<1>2. res' \in Restores /\ res'.at = "filling" /\ dump' \in Dumps
  BY <1>1, Zenon DEF BackupInv, Restores, Dumps, Bak!NoDump, Bak!NoOne
<1>3. log' = [log EXCEPT !.lost = @ \/ data # log.undo]
  BY DEF Bak!Drop
<1>4. log' \in BackupHists /\ log'.clock = log.clock /\ log'.undo = log.undo /\ ~log'.lost
  BY <1>1, <1>3 DEF BackupInv, BackupHists
<1>5. ~Bak!Restaged
  BY <1>1 DEF Bak!Restaged
<1> QED BY <1>1, <1>2, <1>4, <1>5 DEF BackupInv, UndoFileKept

LEMMA EndSteps ==
    ASSUME BackupInv, "restage" \notin Without, Bak!SafetyFails \/ Bak!Crash \/ Bak!Fill
    PROVE  BackupInv'
<1>1. UNCHANGED <<disk, away>> /\ res' = Bak!NoRestore /\ dump' \in {dump, Bak!NoDump} /\ (Bak!Event \/ log' = log)
  BY Zenon DEF Bak!SafetyFails, Bak!Crash, Bak!Fill
<1>2. res' \in Restores /\ res'.at = "" /\ dump' \in Dumps
  BY <1>1, NothingDumped, Zenon DEF BackupInv, Bak!NoRestore, Restores, Bak!NoOne
<1>3. ~Bak!Restaged
  BY Zenon DEF Bak!SafetyFails, Bak!Crash, Bak!Settled, Bak!Fill, Bak!Restaged
<1>4. data' \in Nat
  <2>1. CASE Bak!Fill
    BY <2>1 DEF Bak!Fill, Bak!Names, Bak!Named, BackupInv, BackupFiles
  <2>2. CASE data' = data
    BY <2>2 DEF BackupInv
  <2> QED BY <2>1, <2>2, Zenon DEF Bak!SafetyFails, Bak!Crash
<1> QED BY <1>1, <1>2, <1>3, <1>4, BackupBudget, FilesStay, Zenon

LEMMA BackupStep ==
    ASSUME BackupInv, "busy" \notin Without, "restage" \notin Without, Bak!Next
    PROVE  BackupInv'
<1>1. CASE Bak!Work
  BY <1>1, WriteSteps
<1>2. CASE Bak!DumpDone
  BY <1>2, DumpDoneStep
<1>3. CASE Bak!SafetyBackup
  BY <1>3, SafetyStep
<1>4. CASE Bak!Drop
  BY <1>4, DropStep
<1>5. CASE Bak!SafetyFails \/ Bak!Crash \/ Bak!Fill
  BY <1>5, EndSteps
<1>6. CASE Bak!_scheduler_tick \/ Bak!NewDay \/ Bak!DumpFails
  BY <1>6, BackupPageSteps
<1>7. ASSUME NEW d \in BackupDesks, \/ Bak!load(d) \/ Bak!createBackup(d) \/ Bak!runScheduledNow(d)
                              \/ Bak!SwitchOn(d) \/ Bak!SaveRetention(d) \/ Bak!SwitchCopy(d) \/ Bak!saveLocation(d)
                              \/ Bak!cancelRestore(d) \/ \E n \in 1..log.clock : Bak!openRestore(d, n)
      PROVE  BackupInv'
  BY <1>7, BackupPageSteps
<1>8. ASSUME NEW d \in BackupDesks, Bak!onUploadFile(d)  PROVE BackupInv'
  BY <1>8, UploadStep
<1>9. ASSUME NEW d \in BackupDesks, Bak!doRestore(d)  PROVE BackupInv'
  BY <1>9, RestoreStep
<1>10. ASSUME NEW d \in BackupDesks, NEW n \in 1..log.clock, Bak!copyOffsite(d, n) \/ Bak!restoreFromCopy(d, n)  PROVE BackupInv'
  <2>1. n \in Nat
    BY DEF BackupInv, BackupHists
  <2> QED BY <1>10, <2>1, CopyStep, StageStep
<1> QED BY <1>1, <1>2, <1>3, <1>4, <1>5, <1>6, <1>7, <1>8, <1>9, <1>10 DEF Bak!Next

LEMMA BackupKept == ASSUME BackupInv PROVE Bak!UndoPointKept
  BY DEF BackupInv, Bak!UndoPointKept, UndoFileKept

LEMMA BackupRests == ASSUME BackupInv, UNCHANGED <<data, disk, away, sched, dump, res, bkPage, log>> PROVE BackupInv'
  BY DEF BackupInv, UndoFileKept, Bak!Restaged, NewestSafety, SameFile, Dated, Once

BackupPart == part = "backups" => BackupInv

(* What a restore replaced stays in a file of the backup directory until a later restore is done, whatever the
   retention sweep, the schedule and the off-site copy do (services/backup.py:357). Left out are work between the
   safety backup and the drop ("busy") and a brought-back safety backup overtaken before the restore has made its
   own ("restage"). *)
THEOREM UndoPointStays == ASSUME "busy" \notin Without, "restage" \notin Without PROVE PagesSpec => []UndoPointKept
<1>1. PagesInit => BackupPart
  BY BackupStart DEF PagesInit, BackupPart
<1>2. BackupPart /\ [PagesNext]_pages => BackupPart'
  <2> SUFFICES ASSUME BackupPart, [PagesNext]_pages, part' = "backups" PROVE BackupInv'
    BY DEF BackupPart
  <2>1. CASE BackupsStep
    BY <2>1, BackupStep DEF BackupPart, BackupsStep
  <2>2. CASE EstimatingStep \/ SalesStep \/ StockStep \/ PurchasingStep \/ CanvassStep \/ MaterialsStep
             \/ SiteStep \/ ProposalStep
    BY <2>2 DEF EstimatingStep, SalesStep, StockStep, PurchasingStep, CanvassStep, MaterialsStep,
             SiteStep, ProposalStep
  <2>3. CASE UNCHANGED pages
    BY <2>3, BackupRests DEF BackupPart, pages, backups
  <2> QED
    BY <2>1, <2>2, <2>3 DEF PagesNext
<1>3. BackupPart => UndoPointKept
  BY BackupKept DEF BackupPart, UndoPointKept
<1> QED
  BY <1>1, <1>2, <1>3, PTL DEF PagesSpec

(***************************************************************************)
(* The combined site plan: its saved versions and what is stored of them.  *)
(***************************************************************************)
\* A saved version, told from every other by the time of its write. K holds the versions that are anywhere.
PlanEntry(e) == e.v \in Nat \ {0} /\ e.at \in Nat
PlanSaves(K) == /\ \A e \in K : PlanEntry(e)
                /\ \A e, f \in K : e.at = f.at => e = f
Ascending(h) == \A i, j \in 1..Len(h) : i < j => h[i].v < h[j].v
PlanVersions(h, K) == h \in Seq(K) /\ Ascending(h)

PlanOk(plan, K) ==
    /\ DOMAIN plan = {"sent", "off", "history", "top"}
    /\ PlanVersions(plan.history, K)
    /\ plan.top = Sit!None \/ \E i \in 1..Len(plan.history) : plan.top = plan.history[i]
DocOk(doc, K) == DOMAIN doc = {"m", "scope", "plan"} /\ PlanOk(doc.plan, K)
FormOk(p, K) ==
    /\ DOMAIN p = {"doc", "base", "dirty", "review", "auto", "job", "local", "shown"}
    /\ DocOk(p.doc, K)
    /\ p.review = Sit!None \/ DocOk(p.review.doc, K)
    /\ p.job = Sit!None \/ p.job.print = Sit!Fingerprint(p.job.image)
    /\ p.local = Sit!None \/ p.local \in K

\* What is stored for a version is what its fingerprint says.
Depicts(stored, e, redrawn) ==
    /\ stored.image.m = e.print[1] /\ stored.image.off = e.print[2] /\ e.print = Sit!Fingerprint(stored.image)
    /\ redrawn \/ Sit!Fingerprint(stored.pdf) = e.print
Pictured(e, fs, redrawn) == e.v \in DOMAIN fs /\ Depicts(fs[e.v], e, redrawn)
HistOk(h) == /\ DOMAIN h = {"acts", "events", "resurrected", "redrawn"}
             /\ h.resurrected \in BOOLEAN /\ h.redrawn \in BOOLEAN

PlanInv(K) ==
    /\ PlanSaves(K)
    /\ planRev.token \in Nat
    /\ \A e \in K : e.at <= planRev.token
    /\ DocOk(planRev.doc, K)
    /\ planDesk = [d \in PlanDesks |-> planDesk[d]] /\ \A d \in PlanDesks : FormOk(planDesk[d], K)
    /\ HistOk(log)
    /\ ~log.resurrected => \A i \in 1..Len(planRev.doc.plan.history) : Pictured(planRev.doc.plan.history[i], planFiles, log.redrawn)
SiteInv == \E K : PlanInv(K)

LEMMA NewestLast == ASSUME NEW K, PlanSaves(K), NEW h, PlanVersions(h, K), h # <<>> PROVE Sit!Newest(h) = h[Len(h)]
<1>1. Len(h) \in 1..Len(h) /\ \A i \in 1..Len(h) : h[i] \in K /\ h[i].v \in Nat
  BY DEF PlanVersions, PlanSaves, PlanEntry
<1>2. \A i \in 1..Len(h) : h[i].v <= h[Len(h)].v
  BY <1>1 DEF PlanVersions, Ascending
<1>3. \A i \in 1..Len(h) : (\A j \in 1..Len(h) : h[j].v <= h[i].v) => i = Len(h)
  BY <1>1 DEF PlanVersions, Ascending
<1>4. Sit!ToSet(h) = {h[i] : i \in 1..Len(h)}
  BY DEF Sit!ToSet, PlanVersions
<1> QED
  BY <1>1, <1>2, <1>3, <1>4 DEF Sit!Newest

LEMMA NextIsNew ==
    ASSUME NEW K, PlanSaves(K), NEW h, PlanVersions(h, K)
    PROVE  Sit!NextVersion(h) \in Nat \ {0} /\ \A i \in 1..Len(h) : h[i].v < Sit!NextVersion(h)
<1>1. CASE h = <<>>
  BY <1>1 DEF Sit!NextVersion
<1>2. CASE h # <<>>
  <2>1. Len(h) \in 1..Len(h) /\ \A i \in 1..Len(h) : h[i] \in K /\ h[i].v \in Nat
    BY <1>2 DEF PlanVersions, PlanSaves, PlanEntry
  <2>2. Sit!NextVersion(h) = h[Len(h)].v + 1
    BY <1>2, NewestLast DEF Sit!NextVersion
  <2> QED
    BY <2>1, <2>2 DEF PlanVersions, Ascending
<1> QED
  BY <1>1, <1>2

\* The list once a version is added: that version, and of the earlier ones what is kept.
EndsWith(new, h, e, L) ==
    /\ PlanVersions(new, L) /\ \E i \in 1..Len(new) : e = new[i]
    /\ \A i \in 1..Len(new) : new[i] = e \/ \E j \in 1..Len(h) : new[i] = h[j]

LEMMA Appending ==
    ASSUME NEW K, PlanSaves(K), NEW h, PlanVersions(h, K), NEW e, e.v = Sit!NextVersion(h), NEW L, L = K \cup {e},
           NEW new, new = Sit!Trimmed(Append(h, e))
    PROVE  EndsWith(new, h, e, L)
<1> DEFINE a == Append(h, e)
           n == Sit!Most(Len(a) - Cap + 1, 1)
           t == SubSeq(a, n, Len(a))
<1>1. h \in Seq(L) /\ e \in L
  BY DEF PlanVersions
<1>2. a \in Seq(L) /\ Len(a) = Len(h) + 1 /\ a[Len(a)] = e /\ \A i \in 1..Len(h) : a[i] = h[i]
  BY <1>1
<1>3. n \in 1..Len(a)
  BY <1>2, PlanAssumption DEF Sit!Most
<1>4. /\ t \in Seq(L) /\ Len(t) = Len(a) - n + 1 /\ \A i \in 1..Len(t) : t[i] = a[n + i - 1]
  <2> HIDE DEF n
  <2> QED BY <1>2, <1>3
<1>5. Ascending(a)
  <2> HIDE DEF a
  <2> SUFFICES ASSUME NEW i \in 1..Len(a), NEW j \in 1..Len(a), i < j PROVE a[i].v < a[j].v
    BY DEF Ascending
  <2>1. i \in 1..Len(h) /\ a[i] = h[i] /\ (j \in 1..Len(h) \/ j = Len(a)) /\ Len(h) \in Nat
    BY <1>1, <1>2
  <2> QED
    BY <1>2, <2>1, NextIsNew DEF PlanVersions, Ascending
<1> HIDE DEF a, n, t
<1>6. Ascending(t)
  <2> SUFFICES ASSUME NEW i \in 1..Len(t), NEW j \in 1..Len(t), i < j PROVE t[i].v < t[j].v
    BY DEF Ascending
  <2>1. n + i - 1 \in 1..Len(a) /\ n + j - 1 \in 1..Len(a) /\ n + i - 1 < n + j - 1
    BY <1>2, <1>3, <1>4
  <2> QED
    BY <2>1, <1>4, <1>5 DEF Ascending
<1>7. Len(t) \in 1..Len(t) /\ t[Len(t)] = e
  BY <1>2, <1>3, <1>4
<1>8. \A i \in 1..Len(t) : t[i] = e \/ \E j \in 1..Len(h) : t[i] = h[j]
  <2> SUFFICES ASSUME NEW i \in 1..Len(t) PROVE t[i] = e \/ \E j \in 1..Len(h) : t[i] = h[j]
    OBVIOUS
  <2>1. PICK k \in 1..Len(a) : t[i] = a[k]
    BY <1>2, <1>3, <1>4
  <2>2. k \in 1..Len(h) \/ k = Len(a)
    BY <1>1, <1>2
  <2> QED
    BY <2>1, <2>2, <1>2
<1>9. new = t
  BY DEF Sit!Trimmed, t, n, a
<1> QED
  BY <1>4, <1>6, <1>7, <1>8, <1>9 DEF PlanVersions, EndsWith

LEMMA Dropping ==
    ASSUME NEW K, PlanSaves(K), NEW h, PlanVersions(h, K), NEW v
    PROVE  /\ PlanVersions(Sit!Delisted(h, v), K)
           /\ \A i \in 1..Len(Sit!Delisted(h, v)) : Sit!Delisted(h, v)[i].v # v /\ \E j \in 1..Len(h) : Sit!Delisted(h, v)[i] = h[j]
<1> DEFINE at == {i \in DOMAIN h : h[i].v = v}
<1>0. h \in Seq(K) /\ DOMAIN h = 1..Len(h) /\ Len(h) \in Nat /\ \A i \in 1..Len(h) : h[i] \in K /\ h[i].v \in Nat
  BY DEF PlanVersions, PlanSaves, PlanEntry
<1>1. CASE at = {}
  BY <1>0, <1>1 DEF Sit!Delisted
<1>2. CASE at # {}
  <2> DEFINE k == CHOOSE i \in at : TRUE
             t == SubSeq(h, 1, k - 1) \o SubSeq(h, k + 1, Len(h))
  <2>1. k \in 1..Len(h) /\ h[k].v = v
    BY <1>0, <1>2
  <2>2. Sit!Delisted(h, v) = t
    BY <1>2 DEF Sit!Delisted, Sit!RemoveAt
  <2> HIDE DEF k
  <2>3. /\ SubSeq(h, 1, k - 1) \in Seq(K) /\ Len(SubSeq(h, 1, k - 1)) = k - 1
        /\ \A i \in 1..(k - 1) : SubSeq(h, 1, k - 1)[i] = h[i]
    BY <1>0, <2>1
  <2>4. /\ SubSeq(h, k + 1, Len(h)) \in Seq(K) /\ Len(SubSeq(h, k + 1, Len(h))) = Len(h) - k
        /\ \A i \in 1..(Len(h) - k) : SubSeq(h, k + 1, Len(h))[i] = h[k + i]
    <3>1. \A i \in (k + 1)..Len(h) : h[i] \in K
      BY <1>0, <2>1
    <3>2. /\ SubSeq(h, k + 1, Len(h)) \in Seq(K)
          /\ Len(SubSeq(h, k + 1, Len(h))) = IF k + 1 <= Len(h) THEN Len(h) - (k + 1) + 1 ELSE 0
          /\ \A i \in 1..(Len(h) - (k + 1) + 1) : SubSeq(h, k + 1, Len(h))[i] = h[k + 1 + i - 1]
      BY <1>0, <2>1, <3>1, SubSeqProperties
    <3>0. k \in Int /\ Len(h) \in Int /\ k <= Len(h)
      BY <1>0, <2>1
    <3>3. Len(h) - (k + 1) + 1 = Len(h) - k
      BY <3>0
    <3>5. (IF k + 1 <= Len(h) THEN Len(h) - (k + 1) + 1 ELSE 0) = Len(h) - k
      BY <3>0
    <3>4. \A i \in 1..(Len(h) - k) : k + 1 + i - 1 = k + i
      BY <1>0, <2>1
    <3> QED
      BY <3>2, <3>3, <3>4, <3>5
  <2>5. /\ t \in Seq(K) /\ Len(t) = Len(h) - 1
        /\ \A i \in 1..Len(t) : t[i] = h[IF i < k THEN i ELSE i + 1]
    <3> DEFINE s1 == SubSeq(h, 1, k - 1)
               s2 == SubSeq(h, k + 1, Len(h))
    <3>1. s1 \in Seq(K) /\ s2 \in Seq(K) /\ Len(s1) = k - 1 /\ Len(s2) = Len(h) - k
      BY <2>3, <2>4
    <3>2. /\ \A i \in 1..(k - 1) : s1[i] = h[i]
          /\ \A i \in 1..(Len(h) - k) : s2[i] = h[k + i]
      BY <2>3, <2>4
    <3> HIDE DEF s1, s2
    <3>3. /\ s1 \o s2 \in Seq(K) /\ Len(s1 \o s2) = Len(s1) + Len(s2)
          /\ \A i \in 1..(Len(s1) + Len(s2)) : (s1 \o s2)[i] = IF i <= Len(s1) THEN s1[i] ELSE s2[i - Len(s1)]
      BY <3>1, ConcatProperties
    <3>4. s1 \o s2 \in Seq(K) /\ Len(s1 \o s2) = Len(h) - 1
      BY <1>0, <2>1, <3>1, <3>3
    <3>5. ASSUME NEW i \in 1..(Len(h) - 1) PROVE (s1 \o s2)[i] = h[IF i < k THEN i ELSE i + 1]
      <4>1. CASE i < k
        BY <1>0, <2>1, <3>1, <3>2, <3>3, <4>1
      <4>2. CASE i >= k
        <5>1. i - Len(s1) \in 1..(Len(h) - k) /\ k + (i - Len(s1)) = i + 1
          BY <1>0, <2>1, <3>1, <4>2
        <5>2. (s1 \o s2)[i] = s2[i - Len(s1)]
          BY <1>0, <2>1, <3>1, <3>3, <4>2
        <5>3. s2[i - Len(s1)] = h[i + 1]
          BY <3>2, <5>1
        <5>4. ~(i < k)
          BY <1>0, <2>1, <4>2
        <5> QED
          BY <5>2, <5>3, <5>4
      <4>3. i < k \/ i >= k
        BY <1>0, <2>1
      <4> QED
        BY <4>1, <4>2, <4>3
    <3> QED
      BY <3>4, <3>5 DEF s1, s2
  <2> HIDE DEF t
  <2>6. \A i \in 1..Len(t) : (IF i < k THEN i ELSE i + 1) \in (1..Len(h)) \ {k}
    BY <1>0, <2>1, <2>5
  <2>7. \A i \in 1..Len(t) : t[i].v # v /\ \E j \in 1..Len(h) : t[i] = h[j]
    <3> SUFFICES ASSUME NEW i \in 1..Len(t) PROVE t[i].v # v /\ \E j \in 1..Len(h) : t[i] = h[j]
      OBVIOUS
    <3>1. PICK j \in (1..Len(h)) \ {k} : t[i] = h[j]
      BY <2>5, <2>6
    <3>2. h[j].v # h[k].v
      BY <1>0, <2>1, <3>1 DEF PlanVersions, Ascending
    <3> QED
      BY <2>1, <3>1, <3>2
  <2>8. Ascending(t)
    BY <1>0, <2>1, <2>5, <2>6 DEF PlanVersions, Ascending
  <2> QED
    BY <2>2, <2>5, <2>7, <2>8 DEF PlanVersions
<1> QED
  BY <1>1, <1>2

LEMMA Widening ==
    ASSUME NEW K, NEW L, K \subseteq L
    PROVE  /\ \A h : PlanVersions(h, K) => PlanVersions(h, L)
           /\ \A doc : DocOk(doc, K) => DocOk(doc, L)
           /\ \A p : FormOk(p, K) => FormOk(p, L)
<1>1. \A h : PlanVersions(h, K) => PlanVersions(h, L)
  BY DEF PlanVersions
<1>2. \A doc : DocOk(doc, K) => DocOk(doc, L)
  BY <1>1 DEF DocOk, PlanOk
<1>3. \A p : FormOk(p, K) => FormOk(p, L)
  BY <1>2 DEF FormOk
<1> QED
  BY <1>1, <1>2, <1>3

LEMMA TopSaved == ASSUME NEW K, NEW plan, PlanOk(plan, K) PROVE plan.top = Sit!None \/ plan.top \in K
  BY DEF PlanOk, PlanVersions

LEMMA SiteCurrent == ASSUME SiteInv PROVE Sit!NoNudgeMeansCurrent
<1> PICK K : PlanInv(K)
  BY DEF SiteInv
<1> SUFFICES ASSUME NEW d \in PlanDesks, ~log.resurrected, planRev.doc.plan.top # Sit!None, Sit!SavedPlan(d) # Sit!None,
                    Sit!SavedPlan(d).at = planRev.doc.plan.top.at, ~Sit!PlanStale(d)
             PROVE  LET top == planRev.doc.plan.top
                        shows(drawing) == Sit!Fingerprint(drawing) = Sit!Fingerprint(Sit!Drawing(planDesk[d].doc))
                    IN  /\ top.v \in DOMAIN planFiles
                        /\ planFiles[top.v].image.m = planDesk[d].doc.m
                        /\ planFiles[top.v].image.off = planDesk[d].doc.plan.off
                        /\ log.redrawn \/ shows(planFiles[top.v].pdf)
  BY DEF Sit!NoNudgeMeansCurrent
<1> DEFINE top == planRev.doc.plan.top
<1>1. top \in K /\ \E i \in 1..Len(planRev.doc.plan.history) : top = planRev.doc.plan.history[i]
  BY TopSaved DEF PlanInv, DocOk, PlanOk
<1>2. Sit!SavedPlan(d) \in K
  BY TopSaved DEF PlanInv, FormOk, DocOk, Sit!SavedPlan
<1>3. Sit!SavedPlan(d) = top
  BY <1>1, <1>2 DEF PlanInv, PlanSaves
<1>4. top.print = Sit!Fingerprint(Sit!Drawing(planDesk[d].doc))
  BY <1>3 DEF Sit!PlanStale
<1>5. Pictured(top, planFiles, log.redrawn)
  BY <1>1 DEF PlanInv
<1> QED
  BY <1>4, <1>5 DEF Pictured, Depicts, Sit!Fingerprint, Sit!Drawing

LEMMA SiteStart == ASSUME Sit!Init PROVE SiteInv
<1> PICK m \in Measures, kept \in BOOLEAN :
        LET with(plan) == [m |-> m, scope |-> DOMAIN m, plan |-> plan]
            bare == [sent |-> FALSE, off |-> Sit!NoOffsets, history |-> <<>>, top |-> Sit!None]
            first == Sit!Drawing(with(bare))
            entry == [v |-> 1, at |-> 0, print |-> Sit!Fingerprint(first)]
            doc == with(IF kept THEN [sent |-> TRUE, off |-> Sit!NoOffsets, history |-> <<entry>>, top |-> entry] ELSE bare)
        IN  /\ planRev = [doc |-> doc, token |-> 0]
            /\ planFiles = [v \in (IF kept THEN {1} ELSE {}) |-> [image |-> first, pdf |-> first]]
            /\ planDesk = [d \in PlanDesks |-> Sit!Blank(doc, 0)]
            /\ log = [acts |-> 0, events |-> 0, resurrected |-> FALSE, redrawn |-> FALSE]
  BY DEF Sit!Init
<1> DEFINE bare == [sent |-> FALSE, off |-> Sit!NoOffsets, history |-> <<>>, top |-> Sit!None]
           first == Sit!Drawing([m |-> m, scope |-> DOMAIN m, plan |-> bare])
           entry == [v |-> 1, at |-> 0, print |-> Sit!Fingerprint(first)]
           K == IF kept THEN {entry} ELSE {}
           plan == IF kept THEN [sent |-> TRUE, off |-> Sit!NoOffsets, history |-> <<entry>>, top |-> entry] ELSE bare
           doc == [m |-> m, scope |-> DOMAIN m, plan |-> plan]
<1>1. planRev = [doc |-> doc, token |-> 0] /\ planDesk = [d \in PlanDesks |-> Sit!Blank(doc, 0)]
  OBVIOUS
<1>2. log = [acts |-> 0, events |-> 0, resurrected |-> FALSE, redrawn |-> FALSE]
  OBVIOUS
<1>3. entry.v = 1 /\ entry.at = 0 /\ entry.print = <<m, Sit!NoOffsets>> /\ entry = [v |-> entry.v, at |-> entry.at, print |-> entry.print]
  BY DEF Sit!Fingerprint, Sit!Drawing
<1>4. kept => Pictured(entry, planFiles, FALSE)
  <2> SUFFICES ASSUME kept PROVE Pictured(entry, planFiles, FALSE)
    OBVIOUS
  <2>1. planFiles = [v \in {1} |-> [image |-> first, pdf |-> first]]
    OBVIOUS
  <2>2. first.m = m /\ first.off = Sit!NoOffsets /\ entry.print = Sit!Fingerprint(first)
    BY DEF Sit!Drawing
  <2> HIDE DEF entry, first
  <2>3. 1 \in DOMAIN planFiles /\ planFiles[1].image = first /\ planFiles[1].pdf = first
    BY <2>1
  <2>4. entry.print[1] = m /\ entry.print[2] = Sit!NoOffsets
    BY <1>3
  <2> QED
    BY <2>2, <2>3, <2>4, <1>3 DEF Pictured, Depicts
<1> HIDE DEF entry
<1>5. PlanSaves(K) /\ \A e \in K : e.at <= 0
  BY <1>3 DEF PlanSaves, PlanEntry
<1>6. DocOk(doc, K)
  <2>1. PlanVersions(plan.history, K)
    <3>1. CASE kept
      <4>1. plan.history = <<entry>> /\ K = {entry}
        BY <3>1
      <4>2. <<entry>> \in Seq({entry}) /\ Len(<<entry>>) = 1 /\ \A i, j \in 1..1 : ~(i < j)
        OBVIOUS
      <4> QED
        BY <4>1, <4>2 DEF PlanVersions, Ascending
    <3>2. CASE ~kept
      <4>1. plan.history = <<>> /\ <<>> \in Seq(K) /\ Len(<<>>) = 0
        BY <3>2
      <4> QED
        BY <4>1 DEF PlanVersions, Ascending
    <3> QED
      BY <3>1, <3>2
  <2>2. plan.top = Sit!None \/ \E i \in 1..Len(plan.history) : plan.top = plan.history[i]
    OBVIOUS
  <2> QED
    BY <2>1, <2>2 DEF DocOk, PlanOk
<1>7. \A i \in 1..Len(doc.plan.history) : Pictured(doc.plan.history[i], planFiles, log.redrawn)
  <2>1. CASE kept
    <3>1. doc.plan.history = <<entry>> /\ Len(<<entry>>) = 1 /\ <<entry>>[1] = entry
      BY <2>1
    <3>2. log.redrawn = FALSE
      BY <1>2
    <3>3. \A i \in 1..1 : i = 1
      OBVIOUS
    <3> HIDE DEF doc
    <3>4. \A i \in 1..Len(doc.plan.history) : doc.plan.history[i] = entry
      BY <3>1, <3>3
    <3> QED
      BY <2>1, <1>4, <3>2, <3>4
  <2>2. CASE ~kept
    BY <2>2
  <2> QED
    BY <2>1, <2>2
<1> HIDE DEF doc, K
<1>8. FormOk(Sit!Blank(doc, 0), K)
  BY <1>6 DEF FormOk, Sit!Blank
<1>9. PlanInv(K)
  <2>1. planRev = [doc |-> planRev.doc, token |-> planRev.token] /\ planRev.token = 0 /\ planRev.doc = doc
    BY <1>1
  <2>2. planDesk = [d \in PlanDesks |-> planDesk[d]] /\ \A d \in PlanDesks : FormOk(planDesk[d], K)
    BY <1>1, <1>8
  <2>3. HistOk(log)
    BY <1>2 DEF HistOk
  <2> QED
    BY <1>5, <1>6, <1>7, <2>1, <2>2, <2>3 DEF PlanInv
<1> QED
  BY <1>9 DEF SiteInv

LEMMA Turning ==
    ASSUME NEW K, PlanInv(K), NEW d \in PlanDesks, NEW p, FormOk(p, K), planDesk' = [planDesk EXCEPT ![d] = p],
           UNCHANGED <<planRev, planFiles>>, HistOk(log'), log'.resurrected = log.resurrected, log.redrawn => log'.redrawn
    PROVE  SiteInv'
<1>1. planDesk' = [c \in PlanDesks |-> planDesk'[c]] /\ \A c \in PlanDesks : FormOk(planDesk'[c], K)
  BY DEF PlanInv
<1>2. ~log'.resurrected =>
        \A i \in 1..Len(planRev.doc.plan.history) : Pictured(planRev.doc.plan.history[i], planFiles, log'.redrawn)
  BY DEF PlanInv, Pictured, Depicts
<1>3. PlanInv(K)'
  BY <1>1, <1>2 DEF PlanInv
<1> QED
  BY <1>3 DEF SiteInv

LEMMA Acting == ASSUME HistOk(log), Sit!Act \/ Sit!Event PROVE /\ HistOk(log') /\ log'.resurrected = log.resurrected
                                                               /\ log'.redrawn = log.redrawn
  BY DEF HistOk, Sit!Act, Sit!Event

LEMMA DocEdited ==
    ASSUME NEW K, NEW doc, DocOk(doc, K)
    PROVE  /\ \A m : DocOk([doc EXCEPT !.m = m], K)
           /\ \A s : DocOk([doc EXCEPT !.scope = s], K)
           /\ \A off : DocOk([doc EXCEPT !.plan.off = off], K)
           /\ \A sent, off : DocOk([doc EXCEPT !.plan.sent = sent, !.plan.off = off], K)
           /\ \A plan : PlanOk(plan, K) => DocOk([doc EXCEPT !.plan = plan], K)
<1>1. \A m : DocOk([doc EXCEPT !.m = m], K)
  BY DEF DocOk
<1>2. \A s : DocOk([doc EXCEPT !.scope = s], K)
  BY DEF DocOk
<1>3. \A off : DocOk([doc EXCEPT !.plan.off = off], K)
  BY DEF DocOk, PlanOk
<1>4. \A sent, off : DocOk([doc EXCEPT !.plan.sent = sent, !.plan.off = off], K)
  BY DEF DocOk, PlanOk
<1>5. \A plan : PlanOk(plan, K) => DocOk([doc EXCEPT !.plan = plan], K)
  BY DEF DocOk
<1> QED
  BY <1>1, <1>2, <1>3, <1>4, <1>5, Zenon

LEMMA Editing == ASSUME SiteInv, NEW d \in PlanDesks, Sit!Type(d) \/ Sit!Drag(d) \/ Sit!ResetLayout(d) PROVE SiteInv'
<1> PICK K : PlanInv(K)
  BY DEF SiteInv
<1>1. DocOk(planDesk[d].doc, K) /\ FormOk(planDesk[d], K)
  BY DEF PlanInv, FormOk
<1>2. \E doc : DocOk(doc, K) /\ Sit!Edited(d, doc)
  <2>1. CASE Sit!Type(d)
    BY <2>1, <1>1, DocEdited, Zenon DEF Sit!Type
  <2>2. CASE Sit!Drag(d)
    <3>1. \E off : Sit!Edited(d, [planDesk[d].doc EXCEPT !.plan.sent = TRUE, !.plan.off = off])
      BY <2>2, Zenon DEF Sit!Drag
    <3> QED
      BY <3>1, <1>1, DocEdited, Zenon
  <2>3. CASE Sit!ResetLayout(d)
    BY <2>3, <1>1, DocEdited, Zenon DEF Sit!ResetLayout
  <2> QED
    BY <2>1, <2>2, <2>3
<1>3. PICK doc : DocOk(doc, K) /\ Sit!Edited(d, doc)
  BY <1>2
<1> DEFINE p == [planDesk[d] EXCEPT !.doc = doc, !.dirty = TRUE]
<1>4. FormOk(p, K)
  BY <1>1, <1>3 DEF FormOk
<1>5. planDesk' = [planDesk EXCEPT ![d] = p]
  BY <1>3, Zenon DEF Sit!Edited, PlanInv
<1>6. UNCHANGED <<planRev, planFiles>> /\ Sit!Act
  BY Zenon DEF Sit!Type, Sit!Drag, Sit!ResetLayout
<1> HIDE DEF p
<1> QED
  BY <1>4, <1>5, <1>6, Acting, Turning DEF PlanInv

LEMMA Adopting == ASSUME NEW K, PlanInv(K), NEW d \in PlanDesks, NEW doc, DocOk(doc, K), NEW token
                  PROVE  FormOk(Sit!Adopted(d, doc, token), K)
<1>1. FormOk(planDesk[d], K)
  BY DEF PlanInv
<1> QED
  BY <1>1 DEF FormOk, Sit!Adopted

LEMMA Replacing ==
    ASSUME NEW K, PlanInv(K), NEW doc, DocOk(doc, K), planRev' = [doc |-> doc, token |-> planRev.token + 1], UNCHANGED planFiles,
           planDesk' = [c \in PlanDesks |-> planDesk'[c]], \A c \in PlanDesks : FormOk(planDesk'[c], K),
           HistOk(log'), log'.redrawn = log.redrawn,
           ~log'.resurrected => ~log.resurrected /\ doc.plan.history = planRev.doc.plan.history
    PROVE  SiteInv'
<1>1. planRev'.doc = doc /\ planRev'.token = planRev.token + 1
  OBVIOUS
<1>2. planRev'.token \in Nat /\ \A e \in K : e.at <= planRev'.token
  BY <1>1 DEF PlanInv, PlanSaves, PlanEntry
<1>3. ~log'.resurrected =>
        \A i \in 1..Len(planRev'.doc.plan.history) : Pictured(planRev'.doc.plan.history[i], planFiles', log'.redrawn)
  BY <1>1 DEF PlanInv
<1>4. PlanInv(K)'
  BY <1>1, <1>2, <1>3 DEF PlanInv
<1> QED
  BY <1>4 DEF SiteInv

LEMMA Saving == ASSUME SiteInv, NEW d \in PlanDesks, Sit!Save(d) \/ Sit!KeepMine(d) PROVE SiteInv'
<1> PICK K : PlanInv(K)
  BY DEF SiteInv
<1>1. FormOk(planDesk[d], K) /\ DocOk(planRev.doc, K) /\ HistOk(log)
  BY DEF PlanInv
<1>2. CASE \E saves : Sit!Stored(d, saves)
  <2> PICK saves : Sit!Stored(d, saves)
    BY <1>2
  <2> DEFINE doc == Sit!Replaced(planDesk[d].doc)
             p == [Sit!Adopted(d, doc, planRev.token + 1) EXCEPT !.auto = @ \/ saves]
  <2>1. DocOk(doc, K)
    BY <1>1, DocEdited, Zenon DEF Sit!Replaced, FormOk, DocOk
  <2>2. FormOk(p, K)
    <3>1. FormOk(Sit!Adopted(d, doc, planRev.token + 1), K)
      BY <2>1, Adopting
    <3> QED
      BY <3>1 DEF FormOk
  <2>3. planRev' = [doc |-> doc, token |-> planRev.token + 1] /\ planDesk' = [planDesk EXCEPT ![d] = p]
    BY DEF Sit!Stored
  <2>4. log' = [log EXCEPT !.acts = @ + 1, !.resurrected = @ \/ doc.plan.history # planRev.doc.plan.history]
    BY DEF Sit!Stored
  <2> HIDE DEF doc, p
  <2>5. HistOk(log') /\ log'.redrawn = log.redrawn
        /\ (~log'.resurrected => ~log.resurrected /\ doc.plan.history = planRev.doc.plan.history)
    BY <1>1, <2>4 DEF HistOk
  <2>6. planDesk' = [c \in PlanDesks |-> planDesk'[c]] /\ \A c \in PlanDesks : FormOk(planDesk'[c], K)
    BY <2>2, <2>3 DEF PlanInv
  <2>7. UNCHANGED planFiles
    BY DEF Sit!Save, Sit!KeepMine
  <2> QED
    BY <2>1, <2>3, <2>5, <2>6, <2>7, Replacing
<1>3. CASE Sit!Refused(d)
  <2> DEFINE p == [planDesk[d] EXCEPT !.review = planRev]
  <2>1. FormOk(p, K)
    BY <1>1 DEF FormOk
  <2>2. planDesk' = [planDesk EXCEPT ![d] = p] /\ UNCHANGED <<planRev, planFiles>> /\ Sit!Act
    BY <1>3 DEF Sit!Refused, Sit!Save, Sit!KeepMine
  <2> HIDE DEF p
  <2> QED
    BY <1>1, <2>1, <2>2, Acting, Turning
<1> QED
  BY <1>2, <1>3 DEF Sit!Save, Sit!KeepMine

LEMMA Taking == ASSUME SiteInv, NEW d \in PlanDesks, Sit!UseLatest(d) \/ Sit!Poll(d) PROVE SiteInv'
<1> PICK K : PlanInv(K)
  BY DEF SiteInv
<1>1. FormOk(planDesk[d], K) /\ DocOk(planRev.doc, K) /\ HistOk(log)
  BY DEF PlanInv
<1>2. \E doc, token : DocOk(doc, K) /\ planDesk' = [planDesk EXCEPT ![d] = Sit!Adopted(d, doc, token)]
  <2>1. CASE Sit!UseLatest(d)
    <3>1. DocOk(planDesk[d].review.doc, K)
      BY <2>1, <1>1 DEF Sit!UseLatest, FormOk
    <3>2. planDesk' = [planDesk EXCEPT ![d] = Sit!Adopted(d, planDesk[d].review.doc, planDesk[d].review.token)]
      BY <2>1 DEF Sit!UseLatest
    <3> QED
      BY <3>1, <3>2
  <2>2. CASE Sit!Poll(d)
    BY <2>2, <1>1 DEF Sit!Poll
  <2> QED
    BY <2>1, <2>2
<1>3. PICK doc, token : DocOk(doc, K) /\ planDesk' = [planDesk EXCEPT ![d] = Sit!Adopted(d, doc, token)]
  BY <1>2
<1>4. FormOk(Sit!Adopted(d, doc, token), K)
  BY <1>3, Adopting
<1>5. UNCHANGED <<planRev, planFiles>> /\ HistOk(log') /\ log'.resurrected = log.resurrected /\ log'.redrawn = log.redrawn
  BY <1>1, Acting DEF Sit!UseLatest, Sit!Poll
<1> QED
  BY <1>3, <1>4, <1>5, Turning

LEMMA FieldSaving == ASSUME SiteInv, Sit!FieldSave PROVE SiteInv'
<1> PICK K : PlanInv(K)
  BY DEF SiteInv
<1>1. PICK m : planRev' = [doc |-> [planRev.doc EXCEPT !.m = m], token |-> planRev.token + 1]
  BY DEF Sit!FieldSave
<1> DEFINE doc == [planRev.doc EXCEPT !.m = m]
<1>2. DocOk(doc, K) /\ doc.plan.history = planRev.doc.plan.history
  BY DocEdited, Zenon DEF PlanInv, DocOk
<1>3. HistOk(log') /\ log'.resurrected = log.resurrected /\ log'.redrawn = log.redrawn
  BY Acting DEF Sit!FieldSave, PlanInv
<1>4. UNCHANGED <<planFiles, planDesk>>
  BY DEF Sit!FieldSave
<1>5. planDesk' = [c \in PlanDesks |-> planDesk'[c]] /\ \A c \in PlanDesks : FormOk(planDesk'[c], K)
  BY <1>4 DEF PlanInv
<1> HIDE DEF doc
<1> QED
  BY <1>1, <1>2, <1>3, <1>4, <1>5, Replacing DEF doc

LEMMA Drawn == ASSUME SiteInv, NEW d \in PlanDesks, Sit!AutoSave(d) \/ Sit!Resave(d) PROVE SiteInv'
<1> PICK K : PlanInv(K)
  BY DEF SiteInv
<1>1. FormOk(planDesk[d], K) /\ HistOk(log)
  BY DEF PlanInv
<1>2. Sit!Draw(d).print = Sit!Fingerprint(Sit!Draw(d).image)
  BY DEF Sit!Draw
<1>3. \E p : FormOk(p, K) /\ planDesk' = [planDesk EXCEPT ![d] = p]
  <2>1. CASE Sit!AutoSave(d)
    <3> DEFINE p == [planDesk[d] EXCEPT !.auto = FALSE, !.job = IF Sit!Order(planDesk[d].doc) = <<>> THEN Sit!None ELSE Sit!Draw(d)]
    <3>1. FormOk(p, K)
      BY <1>1, <1>2 DEF FormOk
    <3>2. planDesk' = [planDesk EXCEPT ![d] = p]
      BY <2>1 DEF Sit!AutoSave, PlanInv
    <3> QED
      BY <3>1, <3>2
  <2>2. CASE Sit!Resave(d)
    <3> DEFINE p == [planDesk[d] EXCEPT !.job = Sit!Draw(d)]
    <3>1. FormOk(p, K)
      BY <1>1, <1>2 DEF FormOk
    <3>2. planDesk' = [planDesk EXCEPT ![d] = p]
      BY <2>2 DEF Sit!Resave
    <3> QED
      BY <3>1, <3>2
  <2> QED
    BY <2>1, <2>2
<1>4. UNCHANGED <<planRev, planFiles>> /\ HistOk(log') /\ log'.resurrected = log.resurrected /\ log'.redrawn = log.redrawn
  BY <1>1, Acting DEF Sit!AutoSave, Sit!Resave
<1> QED
  BY <1>3, <1>4, Turning

\* A version saved now: it goes to the end of the list, under a number of its own.
LEMMA Placing ==
    ASSUME NEW K, PlanInv(K), NEW e, PlanEntry(e), e.v = Sit!NextVersion(planRev.doc.plan.history), e.at = planRev.token + 1,
           NEW stored, Sit!Kept(e.v, stored), Sit!Written(Sit!PlanWith(Sit!Trimmed(Append(planRev.doc.plan.history, e)), e)),
           NEW redrawn, log.redrawn => redrawn, ~log.resurrected => Depicts(stored, e, redrawn), NEW L, L = K \cup {e}
    PROVE  /\ PlanSaves(L) /\ planRev'.token \in Nat /\ \A f \in L : f.at <= planRev'.token
           /\ DocOk(planRev'.doc, L) /\ planRev'.doc.plan.top = e
           /\ ~log.resurrected =>
                \A i \in 1..Len(planRev'.doc.plan.history) : Pictured(planRev'.doc.plan.history[i], planFiles', redrawn)
<1> DEFINE h == planRev.doc.plan.history
           t == Sit!Trimmed(Append(h, e))
           plan == Sit!PlanWith(t, e)
<1>1. PlanSaves(K) /\ PlanVersions(h, K) /\ planRev.token \in Nat /\ DocOk(planRev.doc, K)
  BY DEF PlanInv, DocOk, PlanOk
<1>2. planRev' = [doc |-> [planRev.doc EXCEPT !.plan = plan], token |-> planRev.token + 1]
  BY DEF Sit!Written
<1>3. PlanSaves(L) /\ planRev'.token = planRev.token + 1 /\ \A f \in L : f.at <= planRev'.token
  BY <1>1, <1>2 DEF PlanSaves, PlanEntry, PlanInv
<1>4. /\ PlanVersions(t, L) /\ \E i \in 1..Len(t) : e = t[i]
      /\ \A i \in 1..Len(t) : t[i] = e \/ \E j \in 1..Len(h) : t[i] = h[j]
  <2>1. t = Sit!Trimmed(Append(h, e)) /\ e.v = Sit!NextVersion(h)
    OBVIOUS
  <2> HIDE DEF h, t
  <2>2. EndsWith(t, h, e, L)
    BY <1>1, <2>1, Appending
  <2> QED
    BY <2>2 DEF EndsWith
<1>5. \A i \in 1..Len(h) : h[i].v # e.v
  <2>1. \A i \in 1..Len(h) : h[i].v < e.v /\ h[i].v \in Nat
    BY <1>1, NextIsNew DEF PlanVersions, PlanSaves, PlanEntry
  <2> QED
    BY <2>1 DEF PlanEntry
<1> HIDE DEF t
<1>6. PlanOk(plan, L) /\ plan.top = e /\ plan.history = t
  BY <1>1, <1>4 DEF PlanOk, Sit!PlanWith, DocOk
<1> HIDE DEF plan
<1>7. planRev'.doc.plan = plan
  BY <1>1, <1>2 DEF DocOk
<1>8. DocOk(planRev'.doc, L)
  BY <1>1, <1>2, <1>6 DEF DocOk
<1>9. ASSUME ~log.resurrected, NEW i \in 1..Len(t) PROVE Pictured(t[i], planFiles', redrawn)
  <2>1. planFiles' = [k \in DOMAIN planFiles \cup {e.v} |-> IF k = e.v THEN stored ELSE planFiles[k]]
    BY DEF Sit!Kept
  <2>2. Pictured(e, planFiles', redrawn)
    BY <1>9, <2>1 DEF Pictured
  <2>3. ASSUME NEW j \in 1..Len(h) PROVE Pictured(h[j], planFiles', redrawn)
    BY <1>5, <1>9, <2>1, Zenon DEF Pictured, Depicts, PlanInv
  <2> QED
    BY <1>4, <2>2, <2>3
<1> QED
  BY <1>3, <1>6, <1>7, <1>8, <1>9, <1>1

LEMMA Filing ==
    ASSUME NEW K, PlanInv(K), NEW L, K \subseteq L, NEW d \in PlanDesks, NEW p, FormOk(p, L), planDesk' = [planDesk EXCEPT ![d] = p],
           PlanSaves(L), planRev'.token \in Nat, \A e \in L : e.at <= planRev'.token, DocOk(planRev'.doc, L), HistOk(log'),
           log'.resurrected = log.resurrected,
           ~log.resurrected =>
              \A i \in 1..Len(planRev'.doc.plan.history) : Pictured(planRev'.doc.plan.history[i], planFiles', log'.redrawn)
    PROVE  SiteInv'
<1>1. planDesk' = [c \in PlanDesks |-> planDesk'[c]] /\ \A c \in PlanDesks : FormOk(planDesk'[c], L)
  BY Widening DEF PlanInv
<1>2. PlanInv(L)'
  BY <1>1 DEF PlanInv
<1> QED
  BY <1>2 DEF SiteInv

\* The job's picture and the packet, stored.
LEMMA Storing ==
    ASSUME NEW K, PlanInv(K), NEW d \in PlanDesks, planDesk[d].job # Sit!None, Sit!StoreAssets(d)
    PROVE  \E L : /\ K \subseteq L /\ PlanSaves(L) /\ planRev'.token \in Nat /\ \A e \in L : e.at <= planRev'.token
                  /\ DocOk(planRev'.doc, L) /\ planRev'.doc.plan.top \in L
                  /\ ~log.resurrected =>
                        \A i \in 1..Len(planRev'.doc.plan.history) : Pictured(planRev'.doc.plan.history[i], planFiles', Sit!Redrawn(d))
<1> DEFINE e == [v |-> Sit!NextVersion(planRev.doc.plan.history), at |-> planRev.token + 1, print |-> planDesk[d].job.print]
           stored == [image |-> planDesk[d].job.image, pdf |-> Sit!Packet(d)]
           L == K \cup {e}
<1>1. Sit!Kept(e.v, stored) /\ Sit!Written(Sit!PlanWith(Sit!Trimmed(Append(planRev.doc.plan.history, e)), e))
  BY DEF Sit!StoreAssets
<1>2. e.v = Sit!NextVersion(planRev.doc.plan.history) /\ e.at = planRev.token + 1 /\ e.print = planDesk[d].job.print
  OBVIOUS
<1>3. stored.image = planDesk[d].job.image /\ stored.pdf = Sit!Packet(d)
  OBVIOUS
<1> HIDE DEF e, stored
<1>4. PlanEntry(e)
  <2>1. Sit!NextVersion(planRev.doc.plan.history) \in Nat \ {0}
    BY NextIsNew DEF PlanInv, DocOk, PlanOk
  <2> QED
    BY <1>2, <2>1 DEF PlanInv, PlanEntry
<1>5. e.print = Sit!Fingerprint(stored.image)
  BY <1>2, <1>3 DEF PlanInv, FormOk
<1>6. Depicts(stored, e, Sit!Redrawn(d))
  <2>1. stored.image.m = e.print[1] /\ stored.image.off = e.print[2]
    BY <1>5 DEF Sit!Fingerprint
  <2>2. Sit!Redrawn(d) \/ Sit!Fingerprint(stored.pdf) = e.print
    BY <1>3, <1>5 DEF Sit!Redrawn
  <2> QED
    BY <1>5, <2>1, <2>2 DEF Depicts
<1>7. log.redrawn => Sit!Redrawn(d)
  BY DEF Sit!Redrawn
<1>8. e \in L /\ K \subseteq L
  OBVIOUS
<1>9. /\ PlanSaves(L) /\ planRev'.token \in Nat /\ \A f \in L : f.at <= planRev'.token
      /\ DocOk(planRev'.doc, L) /\ planRev'.doc.plan.top = e
      /\ ~log.resurrected =>
           \A i \in 1..Len(planRev'.doc.plan.history) : Pictured(planRev'.doc.plan.history[i], planFiles', Sit!Redrawn(d))
  BY <1>1, <1>2, <1>4, <1>6, <1>7, Placing
<1> HIDE DEF L
<1> QED
  BY <1>8, <1>9

LEMMA AssetsAnswered == ASSUME SiteInv, NEW d \in PlanDesks, Sit!AssetsSaved(d) PROVE SiteInv'
<1> PICK K : PlanInv(K)
  BY DEF SiteInv
<1>1. FormOk(planDesk[d], K) /\ HistOk(log)
  BY DEF PlanInv
<1>2. PICK L : /\ K \subseteq L /\ PlanSaves(L) /\ planRev'.token \in Nat /\ \A e \in L : e.at <= planRev'.token
               /\ DocOk(planRev'.doc, L) /\ planRev'.doc.plan.top \in L
               /\ ~log.resurrected =>
                     \A i \in 1..Len(planRev'.doc.plan.history) : Pictured(planRev'.doc.plan.history[i], planFiles', Sit!Redrawn(d))
  BY Storing DEF Sit!AssetsSaved
<1> DEFINE p == [planDesk[d] EXCEPT !.job = Sit!None, !.local = planRev'.doc.plan.top, !.shown = planRev'.doc.plan.history]
<1>3. FormOk(p, L)
  <2>1. FormOk(planDesk[d], L)
    BY <1>1, <1>2, Widening
  <2> QED
    BY <1>2, <2>1 DEF FormOk
<1>4. planDesk' = [planDesk EXCEPT ![d] = p]
  BY DEF Sit!AssetsSaved, PlanInv
<1>5. HistOk(log') /\ log'.resurrected = log.resurrected /\ log'.redrawn = Sit!Redrawn(d)
  BY <1>1 DEF Sit!AssetsSaved, HistOk, Sit!Redrawn
<1> HIDE DEF p
<1> QED
  BY <1>2, <1>3, <1>4, <1>5, Filing

LEMMA Failing == ASSUME SiteInv, NEW d \in PlanDesks, Sit!AssetsFail(d) PROVE SiteInv'
<1> PICK K : PlanInv(K)
  BY DEF SiteInv
<1>1. FormOk(planDesk[d], K) /\ HistOk(log)
  BY DEF PlanInv
<1> DEFINE p == [planDesk[d] EXCEPT !.job = Sit!None]
<1>2. FormOk(p, K)
  BY <1>1 DEF FormOk
<1>3. planDesk' = [planDesk EXCEPT ![d] = p]
  BY DEF Sit!AssetsFail, PlanInv
<1>4. HistOk(log') /\ log'.resurrected = log.resurrected /\ log'.redrawn = Sit!Redrawn(d) /\ (log.redrawn => log'.redrawn)
  BY <1>1 DEF Sit!AssetsFail, HistOk, Sit!Redrawn
<1> HIDE DEF p
<1>5. CASE Sit!StoreAssets(d)
  <2>1. PICK L : /\ K \subseteq L /\ PlanSaves(L) /\ planRev'.token \in Nat /\ \A e \in L : e.at <= planRev'.token
                 /\ DocOk(planRev'.doc, L) /\ planRev'.doc.plan.top \in L
                 /\ ~log.resurrected =>
                       \A i \in 1..Len(planRev'.doc.plan.history) : Pictured(planRev'.doc.plan.history[i], planFiles', Sit!Redrawn(d))
    BY <1>5, Storing DEF Sit!AssetsFail
  <2>2. FormOk(p, L)
    BY <1>2, <2>1, Widening
  <2> QED
    BY <1>3, <1>4, <2>1, <2>2, Filing
<1>6. CASE UNCHANGED <<planRev, planFiles>>
  BY <1>2, <1>3, <1>4, <1>6, Turning
<1> QED
  BY <1>5, <1>6 DEF Sit!AssetsFail

LEMMA Resting == ASSUME SiteInv, UNCHANGED <<planRev, planFiles, planDesk>>, HistOk(log) => HistOk(log'),
                        log'.resurrected = log.resurrected, log'.redrawn = log.redrawn
                 PROVE  SiteInv'
<1> PICK K : PlanInv(K)
  BY DEF SiteInv
<1>1. PlanInv(K)'
  BY DEF PlanInv
<1> QED
  BY <1>1 DEF SiteInv

LEMMA Restoring == ASSUME SiteInv, NEW d \in PlanDesks, Sit!RestoreVersion(d) PROVE SiteInv'
<1> PICK K : PlanInv(K)
  BY DEF SiteInv
<1> DEFINE plan == planRev.doc.plan
<1>0. FormOk(planDesk[d], K) /\ HistOk(log) /\ PlanSaves(K) /\ PlanVersions(plan.history, K) /\ planRev.token \in Nat
  BY DEF PlanInv, DocOk, PlanOk
<1>1. HistOk(log') /\ log'.resurrected = log.resurrected /\ log'.redrawn = log.redrawn
  BY <1>0, Acting DEF Sit!RestoreVersion
<1>2. PICK w \in Sit!ToSet(planDesk[d].shown) :
        LET found == \E h \in Sit!ToSet(plan.history) : h.v = w.v /\ h.v \in DOMAIN planFiles
            src == CHOOSE h \in Sit!ToSet(plan.history) : h.v = w.v
            entry == [v |-> Sit!NextVersion(plan.history), at |-> planRev.token + 1, print |-> src.print]
        IN  IF ~found THEN UNCHANGED <<planRev, planFiles, planDesk>>
            ELSE /\ Sit!Kept(entry.v, planFiles[src.v])
                 /\ Sit!Written(Sit!PlanWith(Sit!Trimmed(Append(plan.history, entry)), entry))
                 /\ planDesk' = [planDesk EXCEPT ![d].shown = planRev'.doc.plan.history, ![d].local = entry]
  BY DEF Sit!RestoreVersion
<1> DEFINE found == \E h \in Sit!ToSet(plan.history) : h.v = w.v /\ h.v \in DOMAIN planFiles
           src == CHOOSE h \in Sit!ToSet(plan.history) : h.v = w.v
           e == [v |-> Sit!NextVersion(plan.history), at |-> planRev.token + 1, print |-> src.print]
           L == K \cup {e}
<1>3. CASE ~found
  BY <1>1, <1>2, <1>3, Resting DEF SiteInv
<1>4. CASE found
  <2>1. Sit!Kept(e.v, planFiles[src.v]) /\ Sit!Written(Sit!PlanWith(Sit!Trimmed(Append(plan.history, e)), e))
    BY <1>2, <1>4
  <2>2. planDesk' = [planDesk EXCEPT ![d].shown = planRev'.doc.plan.history, ![d].local = e]
    BY <1>2, <1>4
  <2>3. src \in Sit!ToSet(plan.history)
    BY <1>4
  <2>4. PICK i \in 1..Len(plan.history) : src = plan.history[i]
    BY <1>0, <2>3 DEF Sit!ToSet, PlanVersions
  <2>5. e.v = Sit!NextVersion(plan.history) /\ e.at = planRev.token + 1 /\ e.print = src.print
    OBVIOUS
  <2> HIDE DEF src, e
  <2>6. ~log.resurrected => Depicts(planFiles[src.v], e, log.redrawn)
    <3>1. ~log.resurrected => Pictured(src, planFiles, log.redrawn)
      BY <2>4 DEF PlanInv
    <3> QED
      BY <2>5, <3>1 DEF Pictured, Depicts
  <2>7. PlanEntry(e)
    <3>1. Sit!NextVersion(plan.history) \in Nat \ {0}
      BY <1>0, NextIsNew
    <3> QED
      BY <1>0, <2>5, <3>1 DEF PlanEntry
  <2>8. /\ PlanSaves(L) /\ planRev'.token \in Nat /\ \A f \in L : f.at <= planRev'.token
        /\ DocOk(planRev'.doc, L) /\ planRev'.doc.plan.top = e
        /\ ~log.resurrected =>
             \A k \in 1..Len(planRev'.doc.plan.history) : Pictured(planRev'.doc.plan.history[k], planFiles', log.redrawn)
    BY <2>1, <2>5, <2>6, <2>7, Placing
  <2>9. K \subseteq L /\ e \in L
    OBVIOUS
  <2> DEFINE p == [planDesk[d] EXCEPT !.shown = planRev'.doc.plan.history, !.local = e]
  <2> HIDE DEF L
  <2>10. FormOk(p, L)
    <3>1. FormOk(planDesk[d], L)
      BY <1>0, <2>9, Widening
    <3> QED
      BY <2>9, <3>1 DEF FormOk
  <2>11. planDesk' = [planDesk EXCEPT ![d] = p]
    BY <2>2 DEF PlanInv
  <2> HIDE DEF p
  <2> QED
    BY <1>1, <2>8, <2>9, <2>10, <2>11, Filing
<1> QED
  BY <1>3, <1>4

LEMMA Deleting == ASSUME SiteInv, NEW d \in PlanDesks, Sit!DeleteVersion(d) PROVE SiteInv'
<1> PICK K : PlanInv(K)
  BY DEF SiteInv
<1> DEFINE h == planRev.doc.plan.history
<1>0. FormOk(planDesk[d], K) /\ HistOk(log) /\ PlanSaves(K) /\ PlanVersions(h, K) /\ planRev.token \in Nat /\ DocOk(planRev.doc, K)
  BY DEF PlanInv, DocOk, PlanOk
<1>1. HistOk(log') /\ log'.resurrected = log.resurrected /\ log'.redrawn = log.redrawn
  BY <1>0, Acting DEF Sit!DeleteVersion
<1>2. PICK e \in Sit!ToSet(planDesk[d].shown) :
        LET left == Sit!Delisted(h, e.v)
        IN  IF left = h THEN UNCHANGED <<planRev, planFiles, planDesk>>
            ELSE /\ planFiles' = Sit!Restrict(planFiles, DOMAIN planFiles \ {e.v})
                 /\ Sit!Written(Sit!PlanWith(left, Sit!Repointed(left)))
                 /\ planDesk' = [planDesk EXCEPT ![d].shown = left]
  BY DEF Sit!DeleteVersion
<1> DEFINE left == Sit!Delisted(h, e.v)
           plan == Sit!PlanWith(left, Sit!Repointed(left))
<1>3. CASE left = h
  BY <1>1, <1>2, <1>3, Resting
<1>4. CASE left # h
  <2>1. /\ planFiles' = Sit!Restrict(planFiles, DOMAIN planFiles \ {e.v}) /\ Sit!Written(plan)
        /\ planDesk' = [planDesk EXCEPT ![d].shown = left]
    BY <1>2, <1>4
  <2>2. PlanVersions(left, K) /\ \A i \in 1..Len(left) : left[i].v # e.v /\ \E j \in 1..Len(h) : left[i] = h[j]
    BY <1>0, Dropping
  <2> HIDE DEF left
  <2>3. Sit!Repointed(left) = Sit!None \/ \E i \in 1..Len(left) : Sit!Repointed(left) = left[i]
    <3>1. CASE left = <<>>
      BY <3>1 DEF Sit!Repointed
    <3>2. CASE left # <<>>
      <4>1. Sit!Repointed(left) = left[Len(left)]
        BY <1>0, <2>2, <3>2, NewestLast DEF Sit!Repointed
      <4>2. Len(left) \in 1..Len(left)
        BY <2>2, <3>2 DEF PlanVersions
      <4> QED
        BY <4>1, <4>2
    <3> QED
      BY <3>1, <3>2
  <2>4. PlanOk(plan, K) /\ plan.history = left
    BY <1>0, <2>2, <2>3 DEF PlanOk, Sit!PlanWith, DocOk
  <2> HIDE DEF plan
  <2>5. planRev' = [doc |-> [planRev.doc EXCEPT !.plan = plan], token |-> planRev.token + 1]
    BY <2>1 DEF Sit!Written
  <2>6. DocOk(planRev'.doc, K) /\ planRev'.doc.plan = plan /\ planRev'.token = planRev.token + 1
    BY <1>0, <2>4, <2>5 DEF DocOk
  <2>7. planRev'.token \in Nat /\ \A f \in K : f.at <= planRev'.token
    BY <1>0, <2>6 DEF PlanInv, PlanSaves, PlanEntry
  <2>8. ASSUME ~log.resurrected, NEW i \in 1..Len(left) PROVE Pictured(left[i], planFiles', log.redrawn)
    <3>1. Pictured(left[i], planFiles, log.redrawn) /\ left[i].v # e.v
      BY <2>2, <2>8 DEF PlanInv
    <3>2. left[i].v \in DOMAIN planFiles' /\ planFiles'[left[i].v] = planFiles[left[i].v]
      BY <2>1, <3>1 DEF Sit!Restrict, Pictured
    <3> QED
      BY <3>1, <3>2 DEF Pictured
  <2> DEFINE p == [planDesk[d] EXCEPT !.shown = left]
  <2>9. FormOk(p, K) /\ planDesk' = [planDesk EXCEPT ![d] = p]
    BY <1>0, <2>1 DEF FormOk, PlanInv
  <2> HIDE DEF p
  <2> QED
    BY <1>0, <1>1, <2>4, <2>6, <2>7, <2>8, <2>9, Filing
<1> QED
  BY <1>3, <1>4

LEMMA Labelling == ASSUME SiteInv, NEW d \in PlanDesks, Sit!LabelVersion(d) PROVE SiteInv'
<1> PICK K : PlanInv(K)
  BY DEF SiteInv
<1>0. FormOk(planDesk[d], K) /\ HistOk(log) /\ DocOk(planRev.doc, K)
  BY DEF PlanInv
<1>1. HistOk(log') /\ log'.resurrected = log.resurrected /\ log'.redrawn = log.redrawn
  BY <1>0, Acting DEF Sit!LabelVersion
<1> DEFINE doc == [planRev.doc EXCEPT !.plan = planRev.doc.plan]
           p == [planDesk[d] EXCEPT !.shown = planRev.doc.plan.history]
<1>2. planRev' = [doc |-> doc, token |-> planRev.token + 1] /\ UNCHANGED planFiles
  BY DEF Sit!LabelVersion, Sit!Written
<1>3. DocOk(doc, K) /\ doc.plan.history = planRev.doc.plan.history
  BY <1>0 DEF DocOk
<1>4. FormOk(p, K) /\ planDesk' = [planDesk EXCEPT ![d] = p]
  BY <1>0 DEF FormOk, PlanInv, Sit!LabelVersion
<1> HIDE DEF p, doc
<1>5. planDesk' = [c \in PlanDesks |-> planDesk'[c]] /\ \A c \in PlanDesks : FormOk(planDesk'[c], K)
  BY <1>4 DEF PlanInv
<1> QED
  BY <1>1, <1>2, <1>3, <1>5, Replacing

LEMMA PlanSteps == ASSUME SiteInv, Sit!Next PROVE SiteInv'
<1>1. CASE Sit!FieldSave
  BY <1>1, FieldSaving
<1>2. ASSUME NEW d \in PlanDesks, Sit!Type(d) \/ Sit!Drag(d) \/ Sit!ResetLayout(d) PROVE SiteInv'
  BY <1>2, Editing
<1>3. ASSUME NEW d \in PlanDesks, Sit!Save(d) \/ Sit!KeepMine(d) PROVE SiteInv'
  BY <1>3, Saving
<1>4. ASSUME NEW d \in PlanDesks, Sit!UseLatest(d) \/ Sit!Poll(d) PROVE SiteInv'
  BY <1>4, Taking
<1>5. ASSUME NEW d \in PlanDesks, Sit!AutoSave(d) \/ Sit!Resave(d) PROVE SiteInv'
  BY <1>5, Drawn
<1>6. ASSUME NEW d \in PlanDesks, Sit!AssetsSaved(d) PROVE SiteInv'
  BY <1>6, AssetsAnswered
<1>7. ASSUME NEW d \in PlanDesks, Sit!AssetsFail(d) PROVE SiteInv'
  BY <1>7, Failing
<1>8. ASSUME NEW d \in PlanDesks, Sit!DeleteVersion(d) PROVE SiteInv'
  BY <1>8, Deleting
<1>9. ASSUME NEW d \in PlanDesks, Sit!RestoreVersion(d) PROVE SiteInv'
  BY <1>9, Restoring
<1>10. ASSUME NEW d \in PlanDesks, Sit!LabelVersion(d) PROVE SiteInv'
  BY <1>10, Labelling
<1> QED
  BY <1>1, <1>2, <1>3, <1>4, <1>5, <1>6, <1>7, <1>8, <1>9, <1>10 DEF Sit!Next

LEMMA PlanRests == ASSUME SiteInv, UNCHANGED Sit!vars PROVE SiteInv'
<1>1. UNCHANGED <<planRev, planFiles, planDesk>> /\ log' = log
  BY DEF Sit!vars
<1> QED
  BY <1>1, Resting

PlanPart == part = "site" => SiteInv

(* A worksheet that shows the saved plan without "Measurements changed" has the picture of what its form shows
   behind it, and the packet unless the form changed while it was drawn, over saves, re-saves, deletions, restores
   and labels from any number of desks (CombinedSitePlan.jsx:8), until an older list of versions was kept over a
   newer one. *)
THEOREM PlanStaysCurrent == PagesSpec => []NoNudgeMeansCurrent
<1>1. PagesInit => PlanPart
  BY SiteStart DEF PagesInit, PlanPart
<1>2. PlanPart /\ [PagesNext]_pages => PlanPart'
  <2> SUFFICES ASSUME PlanPart, [PagesNext]_pages, part' = "site" PROVE SiteInv'
    BY DEF PlanPart
  <2>1. CASE SiteStep
    BY <2>1, PlanSteps DEF PlanPart, SiteStep
  <2>2. CASE EstimatingStep \/ SalesStep \/ StockStep \/ PurchasingStep \/ CanvassStep \/ MaterialsStep
             \/ BackupsStep \/ ProposalStep
    BY <2>2 DEF EstimatingStep, SalesStep, StockStep, PurchasingStep, CanvassStep, MaterialsStep, BackupsStep, ProposalStep
  <2>3. CASE UNCHANGED pages
    BY <2>3, PlanRests DEF PlanPart, pages, site, Sit!vars
  <2> QED
    BY <2>1, <2>2, <2>3 DEF PagesNext
<1>3. PlanPart => NoNudgeMeansCurrent
  BY SiteCurrent DEF PlanPart, NoNudgeMeansCurrent
<1> QED
  BY <1>1, <1>2, <1>3, PTL DEF PagesSpec

(***************************************************************************)
(* A proposed sketch under review while the measurement changes.           *)
(***************************************************************************)
\* A candidate on the screen: what it was generated from is remembered with it.
ReviewOk(v, r) ==
    \/ v = Rev!Closed_
    \/ /\ DOMAIN v = {"open", "sides", "result", "doc", "identical", "fingerprint", "stale", "confirm"} /\ v.open
       /\ ~v.stale => v.fingerprint = Rev!Fingerprint(Rev!Scope(r)) /\ v.result = Proposed(Rev!Scope(r), v.sides)
ScreenOk(s, r) == DOMAIN s = {"sides", "sketch", "new", "proposal", "review"} /\ ReviewOk(s.review, r)
RevInv == ScreenOk(screen, roof)

LEMMA SameMeasure == ASSUME NEW r, NEW q, Rev!Fingerprint(Rev!Scope(r)) = Rev!Fingerprint(Rev!Scope(q)) PROVE Rev!Scope(r) = Rev!Scope(q)
<1>1. \A m : \E planes, lines : Rev!Scope(m) = Rev!Known(planes, lines)
  BY DEF Rev!Scope
<1>2. \A planes, lines : Rev!Fingerprint(Rev!Known(planes, lines)) = <<planes, lines>>
  BY DEF Rev!Fingerprint, Rev!Known
<1> QED
  BY <1>1, <1>2

LEMMA ReviewCurrent == ASSUME RevInv PROVE Rev!ReviewIsCurrent
<1>1. Rev!Closed_.open = FALSE
  BY DEF Rev!Closed_
<1> QED
  BY <1>1 DEF RevInv, ScreenOk, ReviewOk, Rev!ReviewIsCurrent, Rev!Now

LEMMA StartOk == ASSUME NEW r PROVE /\ ScreenOk(Rev!Start, r)
                                    /\ \A k : ScreenOk([Rev!Start EXCEPT !.new = FALSE, !.sketch = k], r)
                                    /\ \A k, s : ScreenOk([Rev!Start EXCEPT !.sketch = k, !.new = FALSE, !.sides = s], r)
<1>1. DOMAIN Rev!Start = {"sides", "sketch", "new", "proposal", "review"} /\ Rev!Start.review = Rev!Closed_
  BY DEF Rev!Start
<1> DEFINE t == Rev!Start
<1>2. DOMAIN t = {"sides", "sketch", "new", "proposal", "review"} /\ t.review = Rev!Closed_
  BY <1>1
<1> HIDE DEF t
<1>3. /\ ScreenOk(t, r)
      /\ \A k : ScreenOk([t EXCEPT !.new = FALSE, !.sketch = k], r)
      /\ \A k, s : ScreenOk([t EXCEPT !.sketch = k, !.new = FALSE, !.sides = s], r)
  BY <1>2 DEF ScreenOk, ReviewOk
<1> QED
  BY <1>3, Zenon DEF t

LEMMA ReviewStart == ASSUME Rev!Init PROVE RevInv
<1>1. screen = Rev!Start \/ \E k : screen = [Rev!Start EXCEPT !.new = FALSE, !.sketch = k]
  BY Zenon DEF Rev!Init
<1>2. CASE screen = Rev!Start
  BY <1>2, StartOk, Zenon DEF RevInv
<1>3. ASSUME NEW k, screen = [Rev!Start EXCEPT !.new = FALSE, !.sketch = k] PROVE RevInv
  <2>1. ScreenOk([Rev!Start EXCEPT !.new = FALSE, !.sketch = k], roof)
    BY StartOk, Zenon
  <2> QED
    BY <1>3, <2>1 DEF RevInv
<1> QED
  BY <1>1, <1>2, <1>3, Zenon

LEMMA Measuring == ASSUME RevInv, NEW next, Rev!Change(next) PROVE RevInv'
<1>1. /\ roof' = next
      /\ screen' = IF screen.review.open /\ Rev!Fingerprint(Rev!Scope(next)) # screen.review.fingerprint
                   THEN [screen EXCEPT !.review.stale = TRUE] ELSE screen
  BY DEF Rev!Change
<1>2. DOMAIN screen = {"sides", "sketch", "new", "proposal", "review"} /\ ReviewOk(screen.review, roof)
  BY DEF RevInv, ScreenOk
<1>3. CASE screen.review = Rev!Closed_
  <2>1. ~screen.review.open
    BY <1>3 DEF Rev!Closed_
  <2> QED
    BY <1>1, <1>2, <1>3, <2>1 DEF RevInv, ScreenOk, ReviewOk
<1>4. CASE screen.review # Rev!Closed_
  <2>1. /\ DOMAIN screen.review = {"open", "sides", "result", "doc", "identical", "fingerprint", "stale", "confirm"} /\ screen.review.open
        /\ ~screen.review.stale => /\ screen.review.fingerprint = Rev!Fingerprint(Rev!Scope(roof))
                                   /\ screen.review.result = Proposed(Rev!Scope(roof), screen.review.sides)
    BY <1>2, <1>4 DEF ReviewOk
  <2>2. CASE Rev!Fingerprint(Rev!Scope(next)) # screen.review.fingerprint
    BY <1>1, <1>2, <2>1, <2>2 DEF RevInv, ScreenOk, ReviewOk
  <2>3. CASE Rev!Fingerprint(Rev!Scope(next)) = screen.review.fingerprint
    <3>1. screen' = screen
      BY <1>1, <2>3
    <3>2. ~screen.review.stale => Rev!Scope(next) = Rev!Scope(roof)
      BY <2>1, <2>3, SameMeasure
    <3> QED
      BY <1>1, <1>2, <2>1, <2>3, <3>1, <3>2 DEF RevInv, ScreenOk, ReviewOk
  <2> QED
    BY <2>2, <2>3
<1> QED
  BY <1>3, <1>4

\* A tap that leaves the review alone.
LEMMA Tapping == ASSUME RevInv, UNCHANGED roof, DOMAIN screen' = DOMAIN screen, screen'.review = screen.review PROVE RevInv'
  BY DEF RevInv, ScreenOk

LEMMA SideSteps == ASSUME RevInv, (\E p, k : Rev!SetSide(p, k)) \/ Rev!generateProposed \/ Rev!useProposed \/ Rev!cancelProposed PROVE RevInv'
<1>1. DOMAIN screen = {"sides", "sketch", "new", "proposal", "review"}
  BY DEF RevInv, ScreenOk
<1>2. CASE \E p, k : Rev!SetSide(p, k)
  <2>1. \E sides : screen' = [screen EXCEPT !.sides = sides]
    BY <1>2 DEF Rev!SetSide
  <2> QED
    BY <1>1, <1>2, <2>1, Tapping DEF Rev!SetSide
<1>3. CASE Rev!generateProposed
  <2>1. \E p : screen' = [screen EXCEPT !.proposal = p]
    BY <1>3 DEF Rev!generateProposed
  <2> QED
    BY <1>1, <1>3, <2>1, Tapping DEF Rev!generateProposed
<1>4. CASE Rev!useProposed
  <2>1. \E k, p : screen' = [screen EXCEPT !.sketch = k, !.proposal = p]
    BY <1>4, Zenon DEF Rev!useProposed
  <2> QED
    BY <1>1, <1>4, <2>1, Tapping DEF Rev!useProposed
<1>5. CASE Rev!cancelProposed
  <2>1. \E p : screen' = [screen EXCEPT !.proposal = p]
    BY <1>5 DEF Rev!cancelProposed
  <2> QED
    BY <1>1, <1>5, <2>1, Tapping DEF Rev!cancelProposed
<1> QED
  BY <1>2, <1>3, <1>4, <1>5

LEMMA Reviewing == ASSUME RevInv, Rev!regenerate \/ Rev!regenKeep \/ Rev!regenUse \/ Rev!Reopen PROVE RevInv'
<1>1. DOMAIN screen = {"sides", "sketch", "new", "proposal", "review"} /\ ReviewOk(screen.review, roof)
  BY DEF RevInv, ScreenOk
<1>2. roof' = roof
  BY DEF Rev!regenerate, Rev!regenKeep, Rev!regenUse, Rev!Reopen
<1>3. CASE Rev!regenerate
  <2> DEFINE r == Proposed(Rev!Now, screen.sides)
             candidate == Rev!Sketch(Rev!Now, r, screen.sides)
             v == [open |-> TRUE, sides |-> screen.sides, result |-> r, doc |-> candidate,
                   identical |-> Rev!Identical(screen.sketch, candidate, r),
                   fingerprint |-> Rev!Fingerprint(Rev!Now), stale |-> FALSE, confirm |-> FALSE]
  <2>1. screen' = [screen EXCEPT !.review = v]
    BY <1>3 DEF Rev!regenerate
  <2>2. /\ DOMAIN v = {"open", "sides", "result", "doc", "identical", "fingerprint", "stale", "confirm"} /\ v.open
        /\ v.fingerprint = Rev!Fingerprint(Rev!Scope(roof)) /\ v.result = Proposed(Rev!Scope(roof), v.sides)
    BY DEF Rev!Now
  <2> HIDE DEF v
  <2> QED
    BY <1>1, <1>2, <2>1, <2>2 DEF RevInv, ScreenOk, ReviewOk
<1>4. CASE Rev!regenKeep
  BY <1>1, <1>4 DEF Rev!regenKeep, RevInv, ScreenOk, ReviewOk
<1>5. CASE Rev!regenUse
  <2>1. CASE screen' = [screen EXCEPT !.review.confirm = TRUE]
    <3>1. screen.review # Rev!Closed_
      BY <1>5 DEF Rev!regenUse, Rev!Closed_
    <3> QED
      BY <1>1, <1>2, <2>1, <3>1 DEF RevInv, ScreenOk, ReviewOk
  <2>2. CASE \E k : screen' = [screen EXCEPT !.sketch = k, !.review = Rev!Closed_]
    BY <1>1, <2>2 DEF RevInv, ScreenOk, ReviewOk
  <2> QED
    BY <1>5, <2>1, <2>2, Zenon DEF Rev!regenUse
<1>6. CASE Rev!Reopen
  <2>1. PICK k, s : screen' = [Rev!Start EXCEPT !.sketch = k, !.new = FALSE, !.sides = s]
    BY <1>6, Zenon DEF Rev!Reopen
  <2>2. ScreenOk([Rev!Start EXCEPT !.sketch = k, !.new = FALSE, !.sides = s], roof)
    BY StartOk, Zenon
  <2> QED
    BY <1>2, <2>1, <2>2 DEF RevInv
<1> QED
  BY <1>3, <1>4, <1>5, <1>6

LEMMA ReviewSteps == ASSUME RevInv, Rev!Next PROVE RevInv'
<1>1. ASSUME NEW l, Rev!EditLine(l) \/ Rev!DropLine(l) PROVE RevInv'
  <2>1. \E next : Rev!Change(next)
    BY <1>1 DEF Rev!EditLine, Rev!DropLine
  <2> QED
    BY <2>1, Measuring
<1>2. ASSUME NEW p, Rev!EditPlane(p) \/ Rev!DropPlane(p) PROVE RevInv'
  <2>1. \E next : Rev!Change(next)
    BY <1>2, Zenon DEF Rev!EditPlane, Rev!DropPlane
  <2> QED
    BY <2>1, Measuring
<1> QED
  BY <1>1, <1>2, SideSteps, Reviewing DEF Rev!Next

LEMMA ReviewRests == ASSUME RevInv, UNCHANGED Rev!vars PROVE RevInv'
<1>1. roof' = roof /\ screen' = screen
  BY DEF Rev!vars
<1> QED
  BY <1>1 DEF RevInv

ReviewPart == part = "proposal" => RevInv

(* A review not marked stale shows what the measurements now give for the sides it was generated with, over every
   change, answer and tap, and whatever the solver answers (RoofSketch.js:318): the fingerprint a review is checked
   by is the whole of what the solver reads. *)
THEOREM ReviewStaysCurrent == PagesSpec => []ReviewIsCurrent
<1>1. PagesInit => ReviewPart
  BY ReviewStart DEF PagesInit, ReviewPart
<1>2. ReviewPart /\ [PagesNext]_pages => ReviewPart'
  <2> SUFFICES ASSUME ReviewPart, [PagesNext]_pages, part' = "proposal" PROVE RevInv'
    BY DEF ReviewPart
  <2>1. CASE ProposalStep
    BY <2>1, ReviewSteps DEF ReviewPart, ProposalStep
  <2>2. CASE EstimatingStep \/ SalesStep \/ StockStep \/ PurchasingStep \/ CanvassStep \/ MaterialsStep
             \/ BackupsStep \/ SiteStep
    BY <2>2 DEF EstimatingStep, SalesStep, StockStep, PurchasingStep, CanvassStep, MaterialsStep, BackupsStep, SiteStep
  <2>3. CASE UNCHANGED pages
    BY <2>3, ReviewRests DEF ReviewPart, pages, proposal, Rev!vars
  <2> QED
    BY <2>1, <2>2, <2>3 DEF PagesNext
<1>3. ReviewPart => ReviewIsCurrent
  BY ReviewCurrent DEF ReviewPart, ReviewIsCurrent
<1> QED
  BY <1>1, <1>2, <1>3, PTL DEF PagesSpec
=============================================================================
