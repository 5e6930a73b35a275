----------------------------- MODULE Purchasing -----------------------------
(***************************************************************************)
(* One purchase order for ABC Supply: two Office desks that may both have  *)
(* the order panel open, the Office server that submits it, and the        *)
(* supplier.                                                               *)
(*                                                                         *)
(*   po     the row: status, conf (which ABC order it is confirmed by),    *)
(*          norm (the supplier's status), price (of its one line), got     *)
(*          (units received), routed (webhooks find it)                    *)
(*   subs   AbcOrderSubmission: submission key -> status                   *)
(*   work   the abc-submit requests past their reservation                 *)
(*   desk   a person's page and AbcOrderPanel: desk "detail" is            *)
(*          PurchaseOrderDetail.jsx, desk "list" the order list of         *)
(*          Inventory.jsx                                                  *)
(*   abc    the supplier, external: its price and the orders it holds      *)
(*   mail, held   webhooks on their way, and those kept until Reconnect    *)
(*                                                                         *)
(* A webhook carries the time the supplier made it, and the server drops   *)
(* the one made before its last synchronisation: `old` marks those.        *)
(***************************************************************************)
EXTENDS Integers, Sequences, FiniteSets, SequencesExt

CONSTANTS Qty,        \* units ordered
          MaxPrice,   \* bound: prices the supplier asks
          MaxKeys,    \* bound: reviews made, each with a submission key
          MaxActs,    \* bound: what people do
          MaxEvents,  \* bound: what the network and the supplier do
          Windows     \* schedules left out unless named: "overtake"

VARIABLES po, subs, work, desk, abc, mail, held, keys, hist

vars == <<po, subs, work, desk, abc, mail, held, keys, hist>>

None == 0
Desks == {"detail", "list"}
Keys == 1..MaxKeys
Stages == <<"processing", "scheduled", "shipped", "delivered">>
Rank(s) == IF s = "cancelled" THEN Len(Stages) + 1
           ELSE IF s = "" THEN 0 ELSE CHOOSE i \in DOMAIN Stages : Stages[i] = s
Touched == {"received", "partially_received", "cancelled"}
Chosen == {"draft", "ordered", "partially_received", "received", "cancelled"}

Copy(p) == [status |-> p.status, conf |-> p.conf]
NoWork == [at |-> "none", desk |-> "", price |-> None, seen |-> None, fair |-> TRUE,
           was |-> "draft", order |-> None]
NoAsk == [stage |-> "", was |-> "draft"]
\* a page just loaded, its panel closed
Page(p) == [host |-> Copy(p), mine |-> Copy(p), open |-> FALSE, review |-> None, asks |-> FALSE,
            tick |-> FALSE, key |-> None, result |-> "", busy |-> FALSE, ask |-> NoAsk,
            fair |-> TRUE]

Act == hist.acts < MaxActs /\ hist' = [hist EXCEPT !.acts = @ + 1]
Event == hist.events < MaxEvents /\ hist' = [hist EXCEPT !.events = @ + 1]

(***************************************************************************)
(* The panel.                                                              *)
(***************************************************************************)
Submitted(s) == s.mine.conf # None
Loading(s) == s.ask # NoAsk

\* the price shown, and whether it differs from the order's; a review drops the
\* tick and makes a submission key
Reviewed(s, p, k) == [s EXCEPT !.review = abc.price, !.asks = abc.price # p.price,
                               !.tick = FALSE, !.key = k, !.fair = TRUE]

\* refreshStatus reads the supplier before it writes the row
Asking(s, p) == [s EXCEPT !.ask = [stage |-> abc.orders[p.conf].stage, was |-> p.status]]

\* loadReview, refreshStatus: what an open panel does for the order it shows
Opened(s, p, k) == IF Submitted(s) THEN Asking(s, p) ELSE Reviewed(s, p, k)

\* onChanged: the page reads the order again. The detail page passes it on to
\* the panel; the list keeps the row the panel was opened with.
Changed(d, s, p) ==
    LET t == [s EXCEPT !.host = Copy(p), !.mine = IF d = "detail" THEN Copy(p) ELSE @]
    IN  IF t.open /\ Submitted(t) /\ ~Submitted(s) THEN Asking(t, p) ELSE t
\* on the detail page the new order also starts a review of one not submitted
Restarts(d, s, p) == d = "detail" /\ s.open /\ p.conf = None

\* the answer of abc-submit
Told(d, s, p, answer) ==
    LET t == [s EXCEPT !.result = answer, !.busy = FALSE]
        u == [t EXCEPT !.mine = Copy(p), !.host = Copy(p)]
    IN  IF answer # "confirmed" THEN t
        ELSE IF t.open /\ ~Submitted(t) THEN Asking(u, p) ELSE u

\* which commands the screens offer
OffersPanel(d, s) ==
    d = "detail" => s.host.status \in {"draft", "ready_for_review"} \/ s.host.conf # None
OffersSubmit(s) ==
    /\ s.open /\ ~Submitted(s) /\ ~s.busy /\ ~Loading(s) /\ s.review # None
    /\ s.result # "unknown" /\ (s.asks => s.tick)
OffersReceive(d, s) ==
    s.host.status \notin {"cancelled", "received"} \cup (IF d = "detail" THEN {"draft"} ELSE {})
OffersCancel(s) == s.host.conf = None /\ s.host.status \notin {"cancelled", "received"}

\* a price written on the order behind the backs of the other panels
Behind(ds, d, p) ==
    [e \in Desks |-> IF e # d /\ p.price # po.price THEN [ds[e] EXCEPT !.fair = FALSE] ELSE ds[e]]

Init ==
    /\ po = [status |-> "draft", conf |-> None, norm |-> "", price |-> 1, got |-> 0, routed |-> FALSE]
    /\ subs = [k \in Keys |-> "none"] /\ work = [k \in Keys |-> NoWork]
    /\ desk = [d \in Desks |-> Page(po)]
    /\ abc = [price |-> 1, orders |-> << >>]
    /\ mail = {} /\ held = << >> /\ keys = 0
    /\ hist = [acts |-> 0, events |-> 0]

\* the page is opened anew: a request of the old page is no longer heard
Visit(d) ==
    /\ Act /\ desk' = [desk EXCEPT ![d] = Page(po)]
    /\ work' = [k \in Keys |-> IF work[k].desk = d THEN [work[k] EXCEPT !.desk = ""] ELSE work[k]]
    /\ UNCHANGED <<po, subs, abc, mail, held, keys>>

\* the dialog opens with the page's copy, and reviews or refreshes it
Open(d) ==
    /\ Act /\ ~desk[d].open /\ OffersPanel(d, desk[d]) /\ ~Loading(desk[d]) /\ keys < MaxKeys
    /\ LET s == [desk[d] EXCEPT !.open = TRUE, !.mine = IF d = "list" THEN desk[d].host ELSE @]
       IN  /\ desk' = [desk EXCEPT ![d] = Opened(s, po, keys + 1)]
           /\ keys' = IF Submitted(s) THEN keys ELSE keys + 1
    /\ UNCHANGED <<po, subs, work, abc, mail, held>>

Close(d) ==
    /\ Act /\ desk[d].open /\ desk' = [desk EXCEPT ![d].open = FALSE]
    /\ UNCHANGED <<po, subs, work, abc, mail, held, keys>>

\* "Refresh ABC pricing"
RefreshPricing(d) ==
    /\ Act /\ desk[d].open /\ ~Submitted(desk[d]) /\ ~Loading(desk[d]) /\ desk[d].review # None
    /\ keys < MaxKeys /\ keys' = keys + 1
    /\ desk' = [desk EXCEPT ![d] = Reviewed(@, po, keys + 1)]
    /\ UNCHANGED <<po, subs, work, abc, mail, held>>

Tick(d) ==
    /\ Act /\ desk[d].open /\ ~Submitted(desk[d]) /\ desk[d].asks
    /\ desk' = [desk EXCEPT ![d].tick = ~@]
    /\ UNCHANGED <<po, subs, work, abc, mail, held, keys>>

(***************************************************************************)
(* abc-submit. Under the lock of the row: the answer that needs no order,  *)
(* or a pending submission, whose commit releases the lock.                *)
(***************************************************************************)
Standing_NoPending(k) ==
    IF \E j \in Keys : subs[j] = "confirmed" THEN "confirmed"
    ELSE IF subs[k] = "unknown" THEN subs[k] ELSE "go"
\* Duplicate protection, then the submission key; "go" when neither answers
Standing(k) ==
    IF \E j \in Keys : subs[j] = "confirmed" THEN "confirmed"
    ELSE IF subs[k] \in {"pending", "unknown"} THEN subs[k] ELSE "go"

\* accept_price_changes of the request: changes were shown and ticked
Accepts(s) == s.asks /\ s.tick

\* The reservation of a new order: its price is the order's, or the supplier's
\* when the change was accepted
Verdict(s, valid) ==
    IF ~valid THEN "invalid"
    ELSE IF abc.price # po.price /\ ~Accepts(s) THEN "price_changed" ELSE "reserve"

Applied(s) == IF Accepts(s) THEN [po EXCEPT !.price = abc.price] ELSE po

Submit(d) == \E valid \in BOOLEAN :
    LET s == [desk[d] EXCEPT !.result = ""]
        k == s.key
        standing == Standing(k)
        verdict == Verdict(s, valid)
        now == Applied(s)
    IN
    /\ OffersSubmit(desk[d]) /\ Act
    /\ \/ /\ standing # "go" /\ valid
          /\ desk' = [desk EXCEPT ![d] = Told(d, s, po, standing)]
          /\ UNCHANGED <<po, subs, work>>
       \/ /\ standing = "go" /\ verdict = "invalid"
          /\ po' = now /\ desk' = Behind([desk EXCEPT ![d] = Told(d, s, now, "invalid")], d, now)
          /\ UNCHANGED <<subs, work>>
       \/ /\ standing = "go" /\ verdict = "price_changed"
          /\ desk' = [desk EXCEPT ![d] = [Told(d, s, po, "price_changed") EXCEPT
                          !.review = abc.price, !.asks = TRUE, !.tick = FALSE, !.fair = TRUE]]
          /\ UNCHANGED <<po, subs, work>>
       \/ /\ standing = "go" /\ verdict = "reserve"
          /\ po' = now /\ subs' = [subs EXCEPT ![k] = "pending"]
          /\ work' = [work EXCEPT ![k] = [at |-> "sent", desk |-> d, price |-> now.price,
                          seen |-> s.review, fair |-> s.fair, was |-> po.status, order |-> None]]
          /\ desk' = Behind([desk EXCEPT ![d] = [s EXCEPT !.busy = TRUE]], d, now)
    /\ UNCHANGED <<abc, mail, held, keys>>

\* place_order: the supplier takes the order and answers, takes it and the
\* answer is lost, refuses it, or is not reached
Place(k) == \E outcome \in {"ok", "lost", "refused", "unreached"} :
    /\ work[k].at = "sent"
    /\ IF outcome = "ok" THEN UNCHANGED hist ELSE Event
    /\ work' = [work EXCEPT ![k].at = IF outcome = "unreached" THEN "lost" ELSE outcome,
                            ![k].order = Len(abc.orders) + 1]
    /\ abc' = IF outcome \notin {"ok", "lost"} THEN abc
              ELSE [abc EXCEPT !.orders = Append(@, [key |-> k, price |-> work[k].price,
                          seen |-> work[k].seen, fair |-> work[k].fair, stage |-> "processing"])]
    /\ UNCHANGED <<po, subs, desk, mail, held, keys>>

Outcome(at) == CASE at = "ok" -> "confirmed" [] at = "lost" -> "unknown" [] at = "refused" -> "failed"

\* the answer is recorded, and told to the panel that still waits. The status is
\* written only when it is not the one read at the reservation.
Record(k) ==
    LET w == work[k]
        now == IF w.at # "ok" THEN po
               ELSE [po EXCEPT !.conf = w.order, !.norm = "processing", !.routed = TRUE,
                               !.status = IF w.was = "ordered" THEN @ ELSE "ordered"]
    IN
    /\ w.at \in {"ok", "lost", "refused"}
    /\ "overtake" \in Windows \/ (po.conf # w.order /\ po.got = 0)
    /\ po' = now /\ subs' = [subs EXCEPT ![k] = Outcome(w.at)]
    /\ work' = [work EXCEPT ![k] = NoWork]
    /\ desk' = [d \in Desks |-> IF d = w.desk THEN Told(d, desk[d], now, Outcome(w.at)) ELSE desk[d]]
    /\ mail' = IF w.at = "ok" THEN {[m EXCEPT !.old = TRUE] : m \in mail} ELSE mail
    /\ held' = IF w.at = "ok" THEN [i \in DOMAIN held |-> [held[i] EXCEPT !.old = TRUE]] ELSE held
    /\ UNCHANGED <<abc, keys, hist>>

\* the connection to the Office drops: a toast, and the key is kept
HangUp(k) ==
    /\ Event /\ work[k].desk # ""
    /\ work' = [work EXCEPT ![k].desk = ""] /\ desk' = [desk EXCEPT ![work[k].desk].busy = FALSE]
    /\ UNCHANGED <<po, subs, abc, mail, held, keys>>

\* the Office restarts: a pending submission stays pending
Restart ==
    /\ Event /\ work' = [k \in Keys |-> NoWork]
    /\ desk' = [d \in Desks |-> [desk[d] EXCEPT !.busy = FALSE, !.ask = NoAsk]]
    /\ UNCHANGED <<po, subs, abc, mail, held, keys>>

(***************************************************************************)
(* What the supplier says afterwards.                                      *)
(***************************************************************************)
Synced(p) == /\ po' = p
             /\ mail' = {[m EXCEPT !.old = TRUE] : m \in mail}
             /\ held' = [i \in DOMAIN held |-> [held[i] EXCEPT !.old = TRUE]]

\* "Verify ABC order": any order with this purchase order's number
Reconcile(d) ==
    LET s == [desk[d] EXCEPT !.result = ""]
        j == CHOOSE j \in Keys : subs[j] = "unknown"
    IN
    /\ Act /\ desk[d].open /\ ~Submitted(desk[d]) /\ ~Loading(desk[d]) /\ desk[d].result = "unknown"
    /\ \/ /\ abc.orders = << >>
          /\ subs' = subs /\ UNCHANGED <<mail, held>>
          /\ po' = po
       \/ \E i \in DOMAIN abc.orders :
             /\ subs' = [k \in Keys |-> IF subs[k] = "unknown" /\ k = j THEN "confirmed" ELSE subs[k]]
             /\ Synced([po EXCEPT !.conf = i, !.norm = abc.orders[i].stage,
                                  !.status = IF @ = "draft" THEN "ordered" ELSE @])
    /\ IF Restarts(d, s, po')
       THEN /\ keys < MaxKeys /\ keys' = keys + 1
            /\ desk' = [desk EXCEPT ![d] = Reviewed(Changed(d, s, po'), po', keys + 1)]
       ELSE /\ keys' = keys /\ desk' = [desk EXCEPT ![d] = Changed(d, s, po')]
    /\ UNCHANGED <<work, abc>>

\* "Refresh ABC status" of the panel
AskStatus(d) ==
    /\ Act /\ desk[d].open /\ Submitted(desk[d]) /\ ~Loading(desk[d])
    /\ desk' = [desk EXCEPT ![d] = Asking(@, po)]
    /\ UNCHANGED <<po, subs, work, abc, mail, held, keys>>

\* abc-refresh-status maps the supplier's status onto the order's, unless people
\* have received or cancelled it; the status it looks at was read before the
\* supplier was asked
Mapped(s, was) ==
    IF was \in Touched THEN was
    ELSE CASE s = "delivered" -> "received" [] s \in {"shipped", "scheduled"} -> "scheduled"
           [] s = "cancelled" -> "cancelled" [] OTHER -> was

InTime(a) == po.status = a.was /\ Rank(po.norm) <= Rank(a.stage)

ApplyStatus(d) ==
    LET a == desk[d].ask
        now == [po EXCEPT !.norm = a.stage,
                          !.status = IF Mapped(a.stage, a.was) = a.was THEN @ ELSE Mapped(a.stage, a.was)]
    IN
    /\ Loading(desk[d]) /\ ("overtake" \in Windows \/ InTime(a))
    /\ Synced(now) /\ desk' = [desk EXCEPT ![d] = Changed(d, [@ EXCEPT !.ask = NoAsk], now)]
    /\ UNCHANGED <<subs, work, abc, keys, hist>>

\* the answer of a refresh that was overtaken, or failed, is dropped
DropStatus(d) ==
    /\ Loading(desk[d]) /\ (Event \/ (~InTime(desk[d].ask) /\ UNCHANGED hist))
    /\ desk' = [desk EXCEPT ![d].ask = NoAsk]
    /\ UNCHANGED <<po, subs, work, abc, mail, held, keys>>

\* _process_delivery: an event from before the last synchronisation is dropped
Noted(p, m) ==
    IF m.old \/ ~p.routed THEN p ELSE [p EXCEPT !.norm = m.stage]

\* a webhook arrives, in any order; a failed one is kept for Reconnect
Webhook(m) ==
    /\ m \in mail
    /\ \/ /\ Noted(po, m) = po /\ mail' = mail \ {m} /\ UNCHANGED <<po, held, hist>>
       \/ /\ Noted(po, m) # po /\ po' = Noted(po, m)
          /\ mail' = {[n EXCEPT !.old = TRUE] : n \in mail \ {m}}
          /\ held' = [i \in DOMAIN held |-> [held[i] EXCEPT !.old = TRUE]] /\ UNCHANGED hist
       \/ /\ po.routed /\ Event /\ held' = Append(held, m) /\ mail' = mail \ {m} /\ UNCHANGED po
    /\ UNCHANGED <<subs, work, desk, abc, keys>>

\* the first kept update is applied and makes the others old
Reconnect ==
    LET fresh == {i \in DOMAIN held : ~held[i].old}
    IN
    /\ held # << >> /\ Act /\ held' = << >>
    /\ po' = IF fresh = {} THEN po ELSE Noted(po, held[Min(fresh)])
    /\ mail' = IF po' = po THEN mail ELSE {[n EXCEPT !.old = TRUE] : n \in mail}
    /\ UNCHANGED <<subs, work, desk, abc, keys>>

(***************************************************************************)
(* The page's own commands.                                                *)
(***************************************************************************)
\* receive: up to what remains
Receive(d) == \E n \in 1..Qty :
    /\ Act /\ OffersReceive(d, desk[d]) /\ ~desk[d].open
    /\ po.status # "cancelled" /\ po.got + n <= Qty
    /\ po' = [po EXCEPT !.got = @ + n,
                        !.status = IF po.got + n = Qty THEN "received" ELSE "partially_received"]
    /\ desk' = [desk EXCEPT ![d] = Changed(d, @, po')]
    /\ UNCHANGED <<subs, work, abc, mail, held, keys>>

\* set_status: "Cancel" of the detail page, the status choice of the list; an
\* order confirmed by the supplier is not cancelled here
MaySet(s) == ~(s = "cancelled" /\ po.conf # None)

SetStatus(d) == \E s \in Chosen :
    /\ Act /\ ~desk[d].open /\ MaySet(s)
    /\ d = "detail" => s = "cancelled" /\ OffersCancel(desk[d])
    /\ po' = [po EXCEPT !.status = s]
    /\ desk' = [desk EXCEPT ![d] = Changed(d, @, po')]
    /\ UNCHANGED <<subs, work, abc, mail, held, keys>>

(***************************************************************************)
(* The supplier moves on its own.                                          *)
(***************************************************************************)
Reprice ==
    /\ Event /\ \E p \in 1..MaxPrice : p # abc.price /\ abc' = [abc EXCEPT !.price = p]
    /\ desk' = [d \in Desks |-> IF desk[d].asks THEN [desk[d] EXCEPT !.fair = FALSE] ELSE desk[d]]
    /\ UNCHANGED <<po, subs, work, mail, held, keys>>

Advance(i) == \E s \in {"scheduled", "shipped", "delivered", "cancelled"} :
    /\ Event /\ abc.orders[i].stage # "cancelled" /\ Rank(abc.orders[i].stage) < Rank(s)
    /\ s = "cancelled" => abc.orders[i].stage # "delivered"
    /\ abc' = [abc EXCEPT !.orders[i].stage = s]
    /\ mail' = mail \cup {[order |-> i, stage |-> s, old |-> FALSE]}
    /\ UNCHANGED <<po, subs, work, desk, held, keys>>

Next ==
    \/ \E d \in Desks : \/ Visit(d) \/ Open(d) \/ Close(d) \/ RefreshPricing(d) \/ Tick(d)
                        \/ Submit(d) \/ Reconcile(d) \/ AskStatus(d) \/ ApplyStatus(d)
                        \/ DropStatus(d) \/ Receive(d) \/ SetStatus(d)
    \/ \E k \in Keys : Place(k) \/ Record(k) \/ HangUp(k)
    \/ \E m \in mail : Webhook(m)
    \/ \E i \in DOMAIN abc.orders : Advance(i)
    \/ Restart \/ Reconnect \/ Reprice

Spec == Init /\ [][Next]_vars

(***************************************************************************)
(* Properties.                                                             *)
(***************************************************************************)
\* However often a submission is retried, across lost answers, refusals and
\* restarts of the Office, the supplier never holds two orders under one
\* submission key; and an order goes out at the price its sender had on screen,
\* unless the price moved after a change was shown for acceptance, or another
\* desk wrote it.
OrderedOnceAsSeen ==
    \A i, j \in DOMAIN abc.orders :
        /\ abc.orders[i].key = abc.orders[j].key => i = j
        /\ abc.orders[i].fair => abc.orders[i].price = abc.orders[i].seen

=============================================================================
