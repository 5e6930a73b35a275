----------------------------- MODULE Estimating -----------------------------
(***************************************************************************)
(* One estimate, two editor pages that may both have it open, the Takeoff  *)
(* page that generates lines into it, and the Office server.               *)
(*                                                                         *)
(*   est      lines (a line is a token; -k is the block of lines takeoff k *)
(*            generated), gen (the tokens still linked to the takeoff that *)
(*            generated them), repriced (a linked line no longer is as it  *)
(*            was generated), ids (which set of row ids the lines carry),  *)
(*            ver, book, quotes, accepted                                  *)
(*   desk     EstimateEditor.jsx; `shown` are the tokens its page has      *)
(*            shown or produced since it was opened, `behind` that its     *)
(*            version is newer than its lines                              *)
(*   takeoff  Takeoff.jsx                                                  *)
(***************************************************************************)
EXTENDS Integers, FiniteSets

CONSTANTS MaxLines,   \* bound: lines people add or rewrite
          MaxTakeoffs,\* bound: takeoffs applied
          MaxActs,    \* bound: what people do
          MaxEvents,  \* bound: what the network and customers do
          Windows     \* schedules left out unless named: "overlap", "gap"

VARIABLES est, desk, takeoff, hist

vars == <<est, desk, takeoff, hist>>

Desks == {"a", "b"}
None == 0
NoRead == [on |-> FALSE, lines |-> {}, ver |-> 0, book |-> 0]
NoDialog == [kind |-> "", ids |-> 0, recalc |-> FALSE]
\* the page before its first load has answered; what it asks at mount is in `read`
Blank == [loaded |-> FALSE, lines |-> {}, ver |-> 0, book |-> 0, read |-> NoRead, dialog |-> NoDialog,
          asks |-> "", sent |-> {}, ack |-> NoRead, shown |-> {}, behind |-> FALSE]
NoPreview == [on |-> FALSE, review |-> FALSE]
NoTakeoff == [picked |-> FALSE, preview |-> NoPreview, asks |-> "", answer |-> NoPreview]

Act == hist.acts < MaxActs /\ hist' = [hist EXCEPT !.acts = @ + 1]
Event == hist.events < MaxEvents /\ hist' = [hist EXCEPT !.events = @ + 1]
Typed == hist.acts < MaxActs /\ hist.typed < MaxLines
         /\ hist' = [hist EXCEPT !.acts = @ + 1, !.typed = @ + 1]

Takes == hist.acts < MaxActs /\ hist.takeoffs < MaxTakeoffs
         /\ hist' = [hist EXCEPT !.acts = @ + 1, !.takeoffs = @ + 1]

(***************************************************************************)
(* The server.                                                             *)
(***************************************************************************)
\* the PUT request is past its checks and holds the estimate it will rewrite
Saving == \E d \in Desks : desk[d].asks = "checked"
Free == ~Saving \/ "overlap" \in Windows

Reads(e) == [on |-> TRUE, lines |-> e.lines, ver |-> e.ver, book |-> e.book]

update_estimate_Unversioned(e, d) == ~e.accepted
\* update_estimate accepts the save of page d
update_estimate(e, d) == ~e.accepted /\ desk[d].ver = e.ver

\* ... and replaces every line: the takeoff links go with the rows
Rewrite(e, lines, book) ==
    [e EXCEPT !.lines = lines, !.gen = {}, !.repriced = FALSE, !.ids = @ + 1, !.ver = @ + 1,
              !.book = IF book = None THEN @ ELSE book]

\* cost_refresh_apply: only lines whose row ids were previewed
Refreshed(e, dialog) ==
    [e EXCEPT !.ver = @ + 1,
              !.repriced = @ \/ (dialog.recalc /\ dialog.ids = e.ids /\ e.gen # {})]

\* price_book_apply: every line a rule matches
Repriced(e, book) == [e EXCEPT !.ver = @ + 1, !.book = book, !.repriced = @ \/ e.gen # {}]

Replaced_Nothing(e) == {}
\* the linked lines apply_takeoff deletes
Replaced(e) == e.gen
apply_takeoff(e, k) ==
    [e EXCEPT !.lines = (@ \ Replaced(e)) \cup {-k}, !.gen = (@ \ Replaced(e)) \cup {-k},
              !.repriced = FALSE, !.ver = @ + 1]

(***************************************************************************)
(* The editor.                                                             *)
(***************************************************************************)
\* the estimate is new, or one takeoff has been applied to it
Init ==
    \E k \in {0, 1} \cap 0..MaxTakeoffs :
        /\ est = [lines |-> {-1} \cap {-k}, gen |-> {-1} \cap {-k}, repriced |-> FALSE, ids |-> 0,
                  ver |-> k + 1, book |-> None, quotes |-> 0, accepted |-> FALSE]
        /\ desk = [d \in Desks |-> [Blank EXCEPT !.read = Reads(est)]]
        /\ takeoff = [NoTakeoff EXCEPT !.picked = (k = 1)]
        /\ hist = [acts |-> 0, events |-> 0, typed |-> 0, takeoffs |-> k, resaved |-> FALSE]

Set(d, page) == desk' = [desk EXCEPT ![d] = page]
Idle(d) == desk[d].loaded /\ desk[d].asks = ""
Modal(d) == desk[d].dialog.kind # ""

\* load answers: the page shows what it read, whatever was typed meanwhile
LoadAnswer(d) ==
    LET p == desk[d] IN
    /\ p.read.on
    /\ \/ Set(d, [p EXCEPT !.loaded = TRUE, !.lines = p.read.lines, !.ver = p.read.ver,
                           !.book = p.read.book, !.shown = @ \cup p.read.lines, !.behind = FALSE,
                           !.read = NoRead]) /\ UNCHANGED hist
       \/ Event /\ p.loaded /\ Set(d, [p EXCEPT !.read = NoRead])
    /\ UNCHANGED <<est, takeoff>>

\* the page is opened again
Reopen(d) ==
    /\ Act /\ desk[d].asks = ""
    /\ Set(d, [Blank EXCEPT !.read = Reads(est)])
    /\ UNCHANGED <<est, takeoff>>

\* the lines table: its inputs and buttons work also while a request is out
LineTable(d) == desk[d].loaded /\ ~Modal(d)

\* a line takes the place of `old`
Write(d, old) ==
    Set(d, [desk[d] EXCEPT !.lines = (@ \ old) \cup {hist.typed + 1}, !.shown = @ \cup {hist.typed + 1}])

\* ProductPicker and the custom line add one, also when the product is there already
AddProduct(d) == Typed /\ LineTable(d) /\ Write(d, {}) /\ UNCHANGED <<est, takeoff>>

\* every input of a row; onMarkup and onSell write the other of the two as well
SetLine(d) ==
    /\ Typed /\ LineTable(d)
    /\ \E l \in desk[d].lines : Write(d, {l})
    /\ UNCHANGED <<est, takeoff>>

RemoveLine(d) ==
    /\ Act /\ LineTable(d)
    /\ \E l \in desk[d].lines : Set(d, [desk[d] EXCEPT !.lines = @ \ {l}])
    /\ UNCHANGED <<est, takeoff>>

\* AssemblyPicker: the expansion is asked of the server, and added when it answers
PickAssembly(d) ==
    /\ Typed /\ Idle(d) /\ ~Modal(d)
    /\ Set(d, [desk[d] EXCEPT !.dialog = [NoDialog EXCEPT !.kind = "assembly"],
                              !.asks = "expand", !.sent = {hist.typed + 1}])
    /\ UNCHANGED <<est, takeoff>>

ExpandAnswer(d) ==
    LET p == [desk[d] EXCEPT !.asks = "", !.sent = {}] IN
    /\ desk[d].asks = "expand"
    /\ \/ Set(d, [p EXCEPT !.lines = @ \cup desk[d].sent, !.shown = @ \cup desk[d].sent,
                           !.dialog = NoDialog]) /\ UNCHANGED hist
       \/ Event /\ Set(d, [p EXCEPT !.dialog = NoDialog])
    /\ UNCHANGED <<est, takeoff>>

\* the toolbar: Save, unless busy (estimates stay draft)
CanSave(d) == Idle(d) /\ ~Modal(d) /\ (desk[d].behind => "gap" \in Windows)

Save(d) ==
    LET p == desk[d] IN
    /\ Act /\ CanSave(d) /\ Free
    /\ Set(d, [p EXCEPT !.asks = IF update_estimate(est, d) THEN "checked" ELSE "refused",
                        !.sent = p.lines])
    /\ UNCHANGED <<est, takeoff>>

SaveCommit(d) ==
    LET e == Rewrite(est, desk[d].sent, desk[d].book) IN
    /\ desk[d].asks = "checked"
    /\ est' = e /\ hist' = [hist EXCEPT !.resaved = @ \/ est.gen # {}]
    /\ Set(d, [desk[d] EXCEPT !.asks = "saved", !.sent = {}, !.ack = Reads(e)])
    /\ UNCHANGED takeoff

\* a save, a refresh or a reprice answers: the version is the answer's at once, the
\* lines follow with the load this starts; an error only shows
Answer(d) ==
    LET p == [desk[d] EXCEPT !.asks = "", !.sent = {}, !.ack = NoRead] IN
    /\ \/ /\ desk[d].asks \in {"saved", "refreshed", "repriced"}
          /\ Set(d, [p EXCEPT !.ver = desk[d].ack.ver, !.behind = desk[d].asks # "saved",
                              !.book = IF desk[d].asks = "repriced" THEN desk[d].ack.book ELSE @,
                              !.dialog = NoDialog, !.read = Reads(est)])
          /\ UNCHANGED hist
       \/ desk[d].asks \in {"saved", "refreshed", "repriced"} /\ Event /\ Set(d, p)
       \/ desk[d].asks = "refused" /\ Set(d, p) /\ UNCHANGED hist
    /\ UNCHANGED <<est, takeoff>>

\* openRefresh, and the Recalculate box of RefreshDialog
OpenRefresh(d) ==
    /\ Act /\ Idle(d) /\ ~Modal(d)
    /\ \E recalc \in BOOLEAN :
         Set(d, [desk[d] EXCEPT !.dialog = [kind |-> "refresh", ids |-> est.ids, recalc |-> recalc]])
    /\ UNCHANGED <<est, takeoff>>

\* onPriceBookChange: a dialog opens only when a line matches a rule of the book
OnPriceBookChange(d) ==
    /\ Act /\ Idle(d) /\ ~Modal(d) /\ desk[d].book = None
    /\ Set(d, IF est.lines # {} THEN [desk[d] EXCEPT !.dialog = [NoDialog EXCEPT !.kind = "reprice"]]
              ELSE [desk[d] EXCEPT !.book = 1])
    /\ UNCHANGED <<est, takeoff>>

CancelDialog(d) ==
    /\ Act /\ desk[d].dialog.kind \in {"refresh", "reprice"} /\ desk[d].asks = ""
    /\ Set(d, [desk[d] EXCEPT !.dialog = NoDialog])
    /\ UNCHANGED <<est, takeoff>>

\* applyRefresh, applyReprice: no version goes with the request
ApplyDialog(d) ==
    LET kind == desk[d].dialog.kind
        e == IF kind = "refresh" THEN Refreshed(est, desk[d].dialog) ELSE Repriced(est, 1) IN
    /\ Act /\ kind \in {"refresh", "reprice"} /\ desk[d].asks = "" /\ Free
    /\ est' = e
    /\ Set(d, [desk[d] EXCEPT !.asks = IF kind = "refresh" THEN "refreshed" ELSE "repriced",
                              !.ack = Reads(e)])
    /\ UNCHANGED takeoff

\* generateQuote quotes what is stored and leaves the page, left out while the server is
\* writing a save of it; a customer accepts the quote
GenerateQuote(d) ==
    /\ Act /\ desk[d].loaded /\ ~Modal(d) /\ est.quotes = 0 /\ desk[d].asks # "checked"
    /\ est' = [est EXCEPT !.quotes = @ + 1]
    /\ Set(d, [Blank EXCEPT !.read = Reads(est)])
    /\ UNCHANGED takeoff
QuoteAccepted ==
    /\ Event /\ est.quotes > 0 /\ ~est.accepted
    /\ est' = [est EXCEPT !.accepted = TRUE]
    /\ UNCHANGED <<desk, takeoff>>

(***************************************************************************)
(* The Takeoff page.                                                       *)
(***************************************************************************)
\* the effects of choosing an estimate and its measurement drop the preview; a template
\* or a waste override chosen later does not
Select ==
    /\ Act /\ (~takeoff.picked \/ takeoff.preview.on)
    /\ takeoff' = [takeoff EXCEPT !.picked = TRUE, !.preview = NoPreview]
    /\ UNCHANGED <<est, desk>>

\* the workspace, unless busy or without a measurement
Ready == takeoff.picked /\ takeoff.asks = ""

doPreview ==
    /\ Act /\ Ready
    /\ takeoff' = [takeoff EXCEPT !.asks = "preview", !.answer = [on |-> TRUE, review |-> est.repriced]]
    /\ UNCHANGED <<est, desk>>

\* generated lines that are no longer as generated are replaced only by the button the
\* review shows
Reviewed == est.repriced => takeoff.preview.review

\* the server recomputes what it applies, for an accepted estimate as well
doApply ==
    /\ Takes /\ Ready /\ takeoff.preview.on /\ Free /\ Reviewed
    /\ est' = apply_takeoff(est, hist.takeoffs + 1)
    /\ takeoff' = [takeoff EXCEPT !.asks = "applied"]
    /\ UNCHANGED desk
doApplyRefused ==
    /\ Act /\ Ready /\ takeoff.preview.on /\ ~Reviewed
    /\ takeoff' = [takeoff EXCEPT !.asks = "modified"]
    /\ UNCHANGED <<est, desk>>

TakeoffAnswer ==
    LET t == [takeoff EXCEPT !.asks = "", !.answer = NoPreview] IN
    /\ takeoff.asks # ""
    /\ \/ /\ takeoff' = CASE takeoff.asks = "preview" -> [t EXCEPT !.preview = takeoff.answer]
                          [] takeoff.asks = "applied" -> [t EXCEPT !.preview = NoPreview]
                          [] takeoff.asks = "modified" -> [t EXCEPT !.preview = [on |-> TRUE, review |-> TRUE]]
          /\ UNCHANGED hist
       \/ Event /\ takeoff' = t
    /\ UNCHANGED <<est, desk>>

Next ==
    \/ \E d \in Desks : \/ LoadAnswer(d) \/ Reopen(d) \/ AddProduct(d) \/ SetLine(d) \/ RemoveLine(d)
                        \/ PickAssembly(d) \/ ExpandAnswer(d) \/ Save(d) \/ SaveCommit(d) \/ Answer(d)
                        \/ OpenRefresh(d) \/ OnPriceBookChange(d) \/ CancelDialog(d) \/ ApplyDialog(d) \/ GenerateQuote(d)
    \/ QuoteAccepted
    \/ Select \/ doPreview \/ doApply \/ doApplyRefused \/ TakeoffAnswer

Spec == Init /\ [][Next]_vars

(***************************************************************************)
(* Properties.                                                             *)
(***************************************************************************)
\* A line leaves the estimate only through a takeoff that generated it anew, or through
\* the save of a page that had shown it: the version update_estimate compares
\* (estimates.py:227) stands for lines the page has seen.
WorkKept ==
    \A l \in est.lines \ est'.lines :
        \/ l \in est.gen /\ takeoff'.asks = "applied"
        \/ \E d \in Desks : desk[d].asks = "checked" /\ l \in desk[d].shown
OthersWorkKept == [][WorkKept]_vars

\* Until an editor saves over linked lines (which unlinks them), the estimate holds the
\* lines of one takeoff at most: applying again replaces, it never adds a second set
\* (services/takeoff.py:386-388).
TakeoffOnce ==
    ~hist.resaved => \A j, k \in {l \in est.lines : l < 0} : j = k
=============================================================================
