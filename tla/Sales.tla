------------------------------- MODULE Sales --------------------------------
(***************************************************************************)
(* One lead on its way to a job: the lead page open on two Office desks,   *)
(* the customer's share link, and the Office server.                       *)
(*                                                                         *)
(*   office   customer, estimate, quote (status, accepted package; "gone"  *)
(*            once deleted), job (the package its total is taken from),    *)
(*            invoices (their statuses)                                    *)
(*   work     acceptances past the check of perform_quote_acceptance       *)
(*   page     LeadDetail.jsx: the rows it shows, rows hidden by Delete     *)
(*            with their 5 s timers, the accept dialog                     *)
(*   cust     PublicProposal.jsx                                           *)
(*   bill     InvoiceDocumentDialog.jsx                                    *)
(***************************************************************************)
EXTENDS Integers, Sequences, FiniteSets

CONSTANTS Packages,   \* the priced options of the quote
          MaxActs,    \* bound: what people do
          MaxEvents   \* bound: what networks and the calendar do

VARIABLES office, work, page, cust, bill, hist

vars == <<office, work, page, cust, bill, hist>>

Desks == {"a", "b"}
Accepting == Desks \cup {"customer"}
None == 0
NoQuote == [st |-> "none", pkg |-> None]
NoRows == [on |-> FALSE, customer |-> FALSE, estimate |-> FALSE, quote |-> NoQuote]
NoPage == [loaded |-> FALSE, rows |-> NoRows, read |-> NoRows, hidden |-> {}, timers |-> {},
           toasts |-> {}, accept |-> None, asks |-> ""]
NoProposal == [loaded |-> FALSE, can |-> FALSE, pkg |-> None, asks |-> "", done |-> FALSE]

Act == hist.acts < MaxActs /\ hist' = [hist EXCEPT !.acts = @ + 1]
Event == hist.events < MaxEvents /\ hist' = [hist EXCEPT !.events = @ + 1]

(***************************************************************************)
(* The server.                                                             *)
(***************************************************************************)
Live(q) == q.st \notin {"none", "gone"}
Rows(o) == [on |-> TRUE, customer |-> o.customer, estimate |-> o.estimate,
            quote |-> IF Live(o.quote) THEN o.quote ELSE NoQuote]

create_quote(o) == [o EXCEPT !.quote = [NoQuote EXCEPT !.st = "draft"]]

\* update_quote and delete_quote leave an accepted quote alone
update_quote(o) == Live(o.quote) /\ o.quote.st # "accepted"
delete_quote(o) == Live(o.quote) /\ o.quote.st # "accepted"
\* decline_quote asks nothing of the status
decline_quote(o) == Live(o.quote)
delete_estimate(o) == o.estimate /\ o.quote.st # "accepted"

\* public_accept, besides perform_quote_acceptance
public_accept(o) == o.quote.st \in {"draft", "sent"} /\ ~o.expired

\* perform_quote_acceptance returns the job there is
Idempotent(o) == o.quote.st = "accepted" /\ o.job # None

\* ... or accepts the package; the job made before stays as it is
Accepted(o, pkg) == [o EXCEPT !.quote = [st |-> "accepted", pkg |-> pkg],
                              !.job = IF @ = None THEN pkg ELSE @]

\* a lead with an estimate: not quoted yet, quoted and sent, or sold
Init ==
    /\ \E pkg \in Packages, st \in {"none", "sent", "accepted"} :
         office = [customer |-> st # "none", estimate |-> TRUE, expired |-> FALSE, invoices |-> <<>>,
                   quote |-> [st |-> st, pkg |-> IF st = "accepted" THEN pkg ELSE None],
                   job |-> IF st = "accepted" THEN pkg ELSE None]
    /\ work = [x \in Accepting |-> [on |-> FALSE, pkg |-> None, fresh |-> FALSE]]
    /\ page = [d \in Desks |-> [NoPage EXCEPT !.read = Rows(office)]]
    /\ cust = NoProposal
    /\ bill = [at |-> 0, doc |-> "", asks |-> FALSE]
    /\ hist = [acts |-> 0, events |-> 0, declined |-> FALSE]

Set(d, p) == page' = [page EXCEPT ![d] = p]
Idle(d) == page[d].loaded /\ page[d].asks = "" /\ page[d].accept = None
\* the Estimates and Quotes sections: the rows there are buttons for
ShowsEstimate(d) == page[d].rows.estimate /\ "estimate" \notin page[d].hidden
Shows(d) == IF "quote" \in page[d].hidden THEN "none" ELSE page[d].rows.quote.st

(***************************************************************************)
(* The lead page.                                                          *)
(***************************************************************************)
\* load answers; the rows of a Delete whose timer still runs are shown again
LoadAnswer(d) ==
    LET p == page[d] IN
    /\ p.read.on
    /\ \/ Set(d, [p EXCEPT !.loaded = TRUE, !.rows = p.read, !.hidden = {}, !.read = NoRows])
          /\ UNCHANGED hist
       \/ Event /\ p.loaded /\ Set(d, [p EXCEPT !.read = NoRows])
    /\ UNCHANGED <<office, work, cust, bill>>

\* the server has run what the page asked; `asks` waits for its answer
Ask(d, o) == office' = o /\ Set(d, [page[d] EXCEPT !.asks = "done"]) /\ UNCHANGED <<work, cust, bill>>

\* success loads again, an error or a lost answer only shows
Answer(d) ==
    LET p == [page[d] EXCEPT !.asks = "", !.accept = None] IN
    /\ page[d].asks = "done"
    /\ \/ Set(d, [p EXCEPT !.read = Rows(office)]) /\ UNCHANGED hist
       \/ Event /\ Set(d, [page[d] EXCEPT !.asks = ""])
    /\ UNCHANGED <<office, work, cust, bill>>

createCustomer(d) ==
    /\ Act /\ Idle(d) /\ ~page[d].rows.customer
    /\ Ask(d, [office EXCEPT !.customer = TRUE])

\* New, which needs a customer; duplicateEstimate leaves another, of no concern here
createDraftEstimate(d) ==
    /\ Act /\ Idle(d) /\ page[d].rows.customer /\ ~page[d].rows.estimate
    /\ Ask(d, [office EXCEPT !.estimate = TRUE])

\* one quote is followed; a second one of the same estimate would be another lead's story
generateQuote(d) ==
    /\ Act /\ Idle(d) /\ ShowsEstimate(d)
    /\ office.estimate /\ office.quote.st = "none"
    /\ Ask(d, create_quote(office))

\* Send is offered for a draft; the PUT carries no version
sendQuote(d) ==
    /\ Act /\ Idle(d) /\ Shows(d) = "draft"
    /\ Ask(d, IF update_quote(office) THEN [office EXCEPT !.quote.st = "sent"] ELSE office)

Open == {"draft", "sent"}
declineQuote(d) ==
    /\ hist.acts < MaxActs /\ Idle(d) /\ Shows(d) \in Open
    /\ hist' = [hist EXCEPT !.acts = @ + 1, !.declined = @ \/ office.quote.st = "accepted"]
    /\ Ask(d, IF decline_quote(office) THEN [office EXCEPT !.quote.st = "declined"] ELSE office)

\* deleteEstimate, deleteQuote: the row goes from the page, the request waits 5 s
Delete(d, x) ==
    /\ Act /\ Idle(d) /\ x \notin page[d].hidden \cup page[d].timers
    /\ x = "estimate" => ShowsEstimate(d)
    /\ x = "quote" => Shows(d) \notin {"none", "accepted"}
    /\ Set(d, [page[d] EXCEPT !.hidden = @ \cup {x}, !.timers = @ \cup {x}, !.toasts = @ \cup {x}])
    /\ UNCHANGED <<office, work, cust, bill>>

\* Undo also shows "Restored" when the timer has just fired
Undo(d, x) ==
    /\ Act /\ x \in page[d].toasts
    /\ Set(d, [page[d] EXCEPT !.timers = @ \ {x}, !.toasts = @ \ {x}, !.read = Rows(office)])
    /\ UNCHANGED <<office, work, cust, bill>>

\* the timer fires, also when the page was left; its answer loads in either case
TimerFires(d, x) ==
    LET o == CASE x = "estimate" /\ delete_estimate(office) -> [office EXCEPT !.estimate = FALSE]
               [] x = "quote" /\ delete_quote(office) -> [office EXCEPT !.quote = [NoQuote EXCEPT !.st = "gone"]]
               [] OTHER -> office IN
    /\ x \in page[d].timers
    /\ office' = o
    /\ Set(d, [page[d] EXCEPT !.timers = @ \ {x}, !.read = Rows(o)])
    /\ UNCHANGED <<work, cust, bill, hist>>

ToastCloses(d, x) ==
    /\ x \in page[d].toasts \ page[d].timers
    /\ Set(d, [page[d] EXCEPT !.toasts = @ \ {x}])
    /\ UNCHANGED <<office, work, cust, bill, hist>>

openAccept(d) ==
    /\ Act /\ Idle(d) /\ Shows(d) \in Open
    /\ \E k \in Packages : Set(d, [page[d] EXCEPT !.accept = k])
    /\ UNCHANGED <<office, work, cust, bill>>
cancelAccept(d) ==
    /\ Act /\ page[d].accept # None /\ page[d].asks = ""
    /\ Set(d, [page[d] EXCEPT !.accept = None])
    /\ UNCHANGED <<office, work, cust, bill>>

\* the server has looked for the job and does not hold the row
Begin(x, pkg) ==
    work' = [work EXCEPT ![x] = [on |-> TRUE, pkg |-> pkg, fresh |-> office.job = None]]

confirmAccept(d) ==
    /\ Act /\ page[d].accept # None /\ page[d].asks = ""
    /\ IF Live(office.quote) /\ ~Idempotent(office)
       THEN Begin(d, page[d].accept) /\ Set(d, [page[d] EXCEPT !.asks = "accept"])
       ELSE Set(d, [page[d] EXCEPT !.asks = "done"]) /\ UNCHANGED work
    /\ UNCHANGED <<office, cust, bill>>

Commits_Twice(x) == Live(office.quote)
\* the transaction stands if the quote is still there, and a job it inserts is the only
\* one of its quote (jobs.quote_id is unique)
Commits(x) == Live(office.quote) /\ (work[x].fresh => office.job = None)

AcceptCommit(x) ==
    /\ work[x].on
    /\ office' = IF Commits(x) THEN Accepted(office, work[x].pkg) ELSE office
    /\ work' = [work EXCEPT ![x] = [on |-> FALSE, pkg |-> None, fresh |-> FALSE]]
    /\ IF x = "customer"
       THEN cust' = [cust EXCEPT !.asks = IF Commits(x) THEN "ok" ELSE "error"] /\ UNCHANGED page
       ELSE Set(x, [page[x] EXCEPT !.asks = "done"]) /\ UNCHANGED cust
    /\ UNCHANGED <<bill, hist>>

\* createInvoice sends no idempotency key
createInvoice(d) ==
    /\ Act /\ Idle(d) /\ Shows(d) = "accepted" /\ Len(office.invoices) < 2
    /\ Ask(d, IF office.quote.st = "accepted"
              THEN [office EXCEPT !.invoices = Append(@, "draft")] ELSE office)

(***************************************************************************)
(* The share link.                                                         *)
(***************************************************************************)
OpenProposal ==
    /\ Act /\ Live(office.quote)
    /\ cust' = [NoProposal EXCEPT !.loaded = TRUE, !.can = public_accept(office),
                                  !.done = office.quote.st = "accepted"]
    /\ UNCHANGED <<office, work, page, bill>>

\* the acceptance form, or one of the two notices in its place
Offered == cust.can /\ ~cust.done /\ cust.asks = ""

\* name, agreement and package given; a quote already accepted is answered with ok,
\* whatever package was accepted
accept ==
    /\ Act /\ Offered
    /\ \E k \in Packages :
         IF public_accept(office)
         THEN Begin("customer", k) /\ cust' = [cust EXCEPT !.asks = "accept", !.pkg = k]
         ELSE /\ cust' = [cust EXCEPT !.asks = IF office.quote.st = "accepted" THEN "ok" ELSE "error", !.pkg = k]
              /\ UNCHANGED work
    /\ UNCHANGED <<office, page, bill>>

ProposalAnswer ==
    /\ cust.asks \in {"ok", "error"}
    /\ \/ cust' = [cust EXCEPT !.asks = "", !.done = @ \/ cust.asks = "ok"] /\ UNCHANGED hist
       \/ Event /\ cust.asks = "ok" /\ cust' = [cust EXCEPT !.asks = ""]
    /\ UNCHANGED <<office, work, page, bill>>

Expires ==
    /\ Event /\ Live(office.quote) /\ ~office.expired
    /\ office' = [office EXCEPT !.expired = TRUE]
    /\ UNCHANGED <<work, page, cust, bill>>

(***************************************************************************)
(* The invoice dialog: the copy it shows is not loaded again after a send. *)
(***************************************************************************)
OpenInvoice ==
    /\ Act /\ bill.at = 0
    /\ \E i \in DOMAIN office.invoices : bill' = [at |-> i, doc |-> office.invoices[i], asks |-> FALSE]
    /\ UNCHANGED <<office, work, page, cust>>
emailInvoice ==
    /\ Act /\ bill.at # 0 /\ ~bill.asks
    /\ bill' = [bill EXCEPT !.asks = TRUE]
    /\ \E stubbed \in BOOLEAN :
         office' = IF stubbed \/ office.invoices[bill.at] # "draft" THEN office
                   ELSE [office EXCEPT !.invoices[bill.at] = "issued"]
    /\ UNCHANGED <<work, page, cust>>
InvoiceAnswer ==
    /\ bill.asks /\ bill' = [bill EXCEPT !.asks = FALSE]
    /\ UNCHANGED <<office, work, page, cust, hist>>

Next ==
    \/ \E d \in Desks :
         \/ LoadAnswer(d) \/ Answer(d) \/ createCustomer(d) \/ createDraftEstimate(d) \/ generateQuote(d)
         \/ sendQuote(d) \/ declineQuote(d) \/ openAccept(d) \/ cancelAccept(d) \/ confirmAccept(d)
         \/ createInvoice(d)
         \/ \E x \in {"estimate", "quote"} : Delete(d, x) \/ Undo(d, x) \/ TimerFires(d, x) \/ ToastCloses(d, x)
    \/ \E x \in Accepting : AcceptCommit(x)
    \/ OpenProposal \/ accept \/ ProposalAnswer \/ Expires
    \/ OpenInvoice \/ emailInvoice \/ InvoiceAnswer

Spec == Init /\ [][Next]_vars

(***************************************************************************)
(* Properties.                                                             *)
(***************************************************************************)
\* A job stands for the package of an accepted quote that is still there: whoever
\* accepts, sends, deletes or lets a deletion run out meanwhile. Declining an accepted
\* quote from a page that shows it open is the one way out (quotes.py:465).
JobKeepsItsQuote ==
    office.job # None /\ ~hist.declined => office.quote = [st |-> "accepted", pkg |-> office.job]
=============================================================================
