------------------------------- MODULE JobStock ------------------------------
(***************************************************************************)
(* One material, the places that store it and the jobs that need it: job   *)
(* pages open on two Office desks, the stock clerk's pages, the server.    *)
(*                                                                         *)
(*   srv    balance per place, company on-hand, the ledger (sum of its     *)
(*          on-hand deltas; per job the sum of its job_reservation deltas, *)
(*          negative while held), the plan lines and open orders of a job  *)
(*   work   reserve and release of services/job_planning.py, which read    *)
(*          first and lock nothing                                         *)
(*   page   JobDetail.jsx with its JobMaterialPlan.jsx                     *)
(*   clerk  InventoryLocations.jsx                                         *)
(***************************************************************************)
EXTENDS Integers, Sequences, FiniteSets, SequencesExt

CONSTANTS MaxQty,     \* bound: units of one movement
          MaxStock,   \* bound: units the company has or has ordered for a job
          MaxActs,    \* bound: what people do
          MaxEvents,  \* bound: what networks and suppliers do
          Windows     \* schedules left out unless named: "overlap"

VARIABLES srv, work, page, clerk, hist

vars == <<srv, work, page, clerk, hist>>

Jobs == {"j", "k"}
Stores == {"yard", "truck"}       \* the yard is the default location
Yard == "yard"
Suppliers == {1, 2}
Desks == {"a", "b"}
Qtys == 1..MaxQty
NoOne == "no job"                 \* an adjustment names no job
Quoted == 2                       \* units of the accepted quote's line
Abs(n) == IF n < 0 THEN -n ELSE n
AtLeast0(n) == IF n < 0 THEN 0 ELSE n
AtMost(m, n) == IF m < n THEN m ELSE n
Total(f) == FoldFunction(+, 0, f)
Idle == [on |-> FALSE, job |-> NoOne, delta |-> 0]
NoMove == [kind |-> "", qty |-> 0, at |-> Yard]
NoPlan == [lines |-> 0, reserved |-> FALSE, available |-> FALSE, short |-> FALSE]
\* a page that has just been opened and waits for its plan
NewPage(j) == [job |-> j, plan |-> NoPlan, want |-> TRUE, move |-> NoMove,
               prop |-> <<>>, todo |-> {}]
NoClerk == [at |-> "", shown |-> 0, count |-> -1]

\* nothing overtakes a reservation that has read and not written, but in the window
Calm == "overlap" \in Windows \/ \A d \in Desks : ~work[d].on
Act == Calm /\ hist.acts < MaxActs /\ hist' = [hist EXCEPT !.acts = @ + 1]
Event == Calm /\ hist.events < MaxEvents /\ hist' = [hist EXCEPT !.events = @ + 1]

(***************************************************************************)
(* The server.                                                             *)
(***************************************************************************)
reserved_for_job(o, j) == Abs(o.held[j])
compute_available(o) == o.onhand - Abs(o.held["j"] + o.held["k"] + o.held[NoOne])

\* rollup: the lines of one material share the job's reservation and its orders
shortage(o, j, required) == AtLeast0(required - reserved_for_job(o, j) - o.ordered[j])
shortages(o, j) == [i \in DOMAIN o.need[j] |-> shortage(o, j, o.need[j][i])]
\* what the page tells apart of a job's plan
rollup(o, j) ==
    [lines |-> Len(o.need[j]), reserved |-> reserved_for_job(o, j) > 0,
     available |-> compute_available(o) > 0,
     short |-> \E i \in DOMAIN o.need[j] : shortages(o, j)[i] > 0]

\* what goes to a place, and to the company, with its ledger entry
add_at_location(o, at, qty) ==
    [o EXCEPT !.bal[at] = @ + qty, !.onhand = @ + qty, !.ledger = @ + qty]
remove_at_location(o, at, qty) == add_at_location(o, at, -qty)
Held(o, j, delta) == [o EXCEPT !.held[j] = @ + delta]

transfer(o, src, dst, qty) ==
    IF qty > o.bal[src] THEN o ELSE [o EXCEPT !.bal[src] = @ - qty, !.bal[dst] = @ + qty]

consumed_All(o, j, qty) == qty
consumed(o, j, qty) == AtMost(reserved_for_job(o, j), qty)
issue(o, at, qty, j) ==
    IF qty > o.bal[at] THEN o
    ELSE Held(remove_at_location(o, at, qty), j, consumed(o, j, qty))

\* a return is taken whatever was issued
return_to_stock(o, at, qty) == add_at_location(o, at, qty)

disposition(o, at, qty) == IF qty > o.bal[at] THEN o ELSE remove_at_location(o, at, qty)

cycle_count_adjust(o, at, counted) == add_at_location(o, at, counted - o.bal[at])

\* sync_default_balance: the default location takes what the company total changed by
adjust_material(o, delta, reservation) ==
    CASE reservation -> Held(o, NoOne, delta)
      [] ~reservation /\ o.onhand + delta >= 0 -> add_at_location(o, Yard, delta)
      [] OTHER -> o

\* generate_from_quote skips the line it has made before
Generated(o, j) == [o EXCEPT !.need[j] = IF o.made[j] THEN @ ELSE Append(@, Quoted), !.made[j] = TRUE]

\* update_job, for a status of completed or cancelled; the other statuses change nothing here
auto_release_reservations(o, j) == Held(o, j, reserved_for_job(o, j))

\* job "j" is open on one desk or two, its plan made or not
Init ==
    /\ \E n \in Qtys, made \in BOOLEAN :
         srv = [bal |-> [yard |-> n, truck |-> 1], onhand |-> n + 1, opening |-> n + 1, ledger |-> 0,
                held |-> [x \in Jobs \cup {NoOne} |-> 0],
                need |-> [j \in Jobs |-> IF made THEN <<Quoted>> ELSE <<>>],
                made |-> [j \in Jobs |-> made], ordered |-> [j \in Jobs |-> 0]]
    /\ work = [d \in Desks |-> Idle]
    /\ \E j \in Jobs : page = [d \in Desks |-> NewPage(IF d = "a" THEN "j" ELSE j)]
    /\ clerk = NoClerk
    /\ hist = [acts |-> 0, events |-> 0]

Set(d, p) == page' = [page EXCEPT ![d] = p]
Within(o) == o.onhand \in 0..MaxStock /\ \A j \in Jobs : o.ordered[j] \in 0..MaxStock

(***************************************************************************)
(* The job page.                                                           *)
(***************************************************************************)
Shown(d) == page[d].plan
Free(d) == page[d].move = NoMove /\ page[d].prop = <<>>

\* load of the plan answers, or fails with a toast; the request is not made again
LoadAnswer(d) ==
    /\ page[d].want
    /\ \/ Set(d, [page[d] EXCEPT !.want = FALSE, !.plan = rollup(srv, page[d].job)]) /\ UNCHANGED hist
       \/ Event /\ Set(d, [page[d] EXCEPT !.want = FALSE])
    /\ UNCHANGED <<srv, work, clerk>>

Post(d, o) ==
    /\ Within(o) /\ srv' = o /\ Set(d, [page[d] EXCEPT !.want = TRUE, !.move = NoMove])
    /\ UNCHANGED <<work, clerk>>

generate(d) == Act /\ Free(d) /\ Post(d, Generated(srv, page[d].job))

\* JobDetail.addMaterial: the job is loaded again, the plan is not
addMaterial(d) ==
    /\ Act /\ Free(d) /\ Len(srv.need[page[d].job]) < 2
    /\ srv' = [srv EXCEPT !.need[page[d].job] = Append(@, 1)]
    /\ UNCHANGED <<work, page, clerk>>

\* saveSchedule sends the form's status, no version; the plan is not loaded again
saveSchedule(d) ==
    /\ Act /\ Free(d) /\ srv' = auto_release_reservations(srv, page[d].job)
    /\ UNCHANGED <<work, page, clerk>>

\* the lock button of a line that shows no reservation and stock available
\* can: the outstanding requirement, at most what is available
reserve(o, j, required) ==
    AtLeast0(AtMost(AtLeast0(required - reserved_for_job(o, j)), compute_available(o)))

ReserveReads(d) ==
    /\ Act /\ ~work[d].on
    /\ ~Shown(d).reserved /\ Shown(d).available
    /\ \E i \in 1..Shown(d).lines :
         LET j == page[d].job  n == reserve(srv, j, srv.need[j][i]) IN
         work' = [work EXCEPT ![d] = [on |-> TRUE, job |-> j, delta |-> -n]]
    /\ UNCHANGED <<srv, page, clerk>>
ReleaseReads(d) ==
    /\ Act /\ ~work[d].on /\ Shown(d).reserved
    /\ work' = [work EXCEPT ![d] = [on |-> TRUE, job |-> page[d].job,
                                    delta |-> reserved_for_job(srv, page[d].job)]]
    /\ UNCHANGED <<srv, page, clerk>>
Writes(d) ==
    /\ work[d].on
    /\ srv' = Held(srv, work[d].job, work[d].delta)
    /\ work' = [work EXCEPT ![d] = Idle]
    /\ Set(d, [page[d] EXCEPT !.want = TRUE])
    /\ UNCHANGED <<clerk, hist>>

\* the move dialog keeps the row it was opened on
OpenMove(d) ==
    /\ Act /\ Free(d) /\ Shown(d).lines > 0
    /\ \E kind \in {"issue", "return", "waste"}, q \in Qtys, at \in Stores :
         Set(d, [page[d] EXCEPT !.move = [kind |-> kind, qty |-> q, at |-> at]])
    /\ UNCHANGED <<srv, work, clerk>>
submitMove(d) ==
    LET m == page[d].move  j == page[d].job IN
    /\ Calm /\ m.kind # "" /\ UNCHANGED hist
    /\ \/ m.kind = "issue" /\ Post(d, issue(srv, m.at, m.qty, j))
       \/ m.kind = "return" /\ Post(d, return_to_stock(srv, m.at, m.qty))
       \/ m.kind = "waste" /\ Post(d, disposition(srv, m.at, m.qty))

\* openProposal: the shortages of now, offered where the page shows one; a supplier a line
openProposal(d) ==
    LET short == shortages(srv, page[d].job) IN
    /\ Act /\ Free(d) /\ Shown(d).short
    /\ \E sup \in [DOMAIN short -> Suppliers] :
         LET lines == [i \in DOMAIN short |-> [qty |-> short[i], sup |-> sup[i]]] IN
         Set(d, [page[d] EXCEPT !.prop = SelectSeq(lines, LAMBDA l : l.qty > 0)])
    /\ UNCHANGED <<srv, work, clerk>>

\* createPOs: an order per supplier, one request after the other
createPOs(d) ==
    /\ Act /\ page[d].prop # <<>> /\ page[d].todo = {}
    /\ Set(d, [page[d] EXCEPT !.todo = {l.sup : l \in ToSet(page[d].prop)}])
    /\ UNCHANGED <<srv, work, clerk>>
CreateNext(d) ==
    LET p == page[d]
        Group(s) == SelectSeq(p.prop, LAMBDA l : l.sup = s)
        Sum(q) == Total([i \in DOMAIN q |-> q[i].qty]) IN
    \E s \in p.todo :
      /\ Calm /\ \A r \in p.todo : s <= r
      /\ \/ /\ srv' = [srv EXCEPT !.ordered[p.job] = @ + Sum(Group(s))]
            /\ Within(srv')
            /\ Set(d, IF p.todo = {s} THEN [p EXCEPT !.todo = {}, !.prop = <<>>, !.want = TRUE]
                      ELSE [p EXCEPT !.todo = @ \ {s}])
            /\ UNCHANGED hist
         \* a failed request ends the loop; the dialog stays with all its lines
         \/ Event /\ Set(d, [p EXCEPT !.todo = {}]) /\ UNCHANGED srv
      /\ UNCHANGED <<work, clerk>>
CancelProposal(d) ==
    /\ Act /\ page[d].prop # <<>> /\ page[d].todo = {}
    /\ Set(d, [page[d] EXCEPT !.prop = <<>>]) /\ UNCHANGED <<srv, work, clerk>>

(***************************************************************************)
(* Stock pages.                                                            *)
(***************************************************************************)
\* openDetail lists what the place stores; startCount copies it
openDetail ==
    /\ Act /\ clerk.count = -1
    /\ \E s \in Stores : srv.bal[s] # 0 /\ clerk' = [at |-> s, shown |-> srv.bal[s], count |-> -1]
    /\ UNCHANGED <<srv, work, page>>
startCount ==
    /\ Act /\ clerk.at # "" /\ clerk.count = -1
    /\ \E n \in 0..MaxQty : clerk' = [clerk EXCEPT !.count = n]
    /\ UNCHANGED <<srv, work, page>>
\* submitCount posts the lines that differ from the copy, and opens the place again
submitCount ==
    LET o == IF clerk.count = clerk.shown THEN srv ELSE cycle_count_adjust(srv, clerk.at, clerk.count) IN
    /\ Calm /\ clerk.count # -1 /\ Within(o) /\ srv' = o
    /\ clerk' = IF o.bal[clerk.at] = 0 THEN NoClerk
                ELSE [at |-> clerk.at, shown |-> o.bal[clerk.at], count |-> -1]
    /\ UNCHANGED <<work, page, hist>>
doTransfer ==
    /\ Act
    /\ \E src, dst \in Stores, q \in Qtys : src # dst /\ srv' = transfer(srv, src, dst, q)
    /\ UNCHANGED <<work, page, clerk>>
\* MaterialDetail.doAdjust, any transaction type
doAdjust ==
    /\ Act
    /\ \E delta \in {-1, 1}, r \in BOOLEAN : srv' = adjust_material(srv, delta, r)
    /\ Within(srv') /\ UNCHANGED <<work, page, clerk>>
\* an order of a job arrives and is received into a place
Receive ==
    /\ Event
    /\ \E j \in Jobs, at \in Stores :
         /\ srv.ordered[j] > 0
         /\ srv' = [add_at_location(srv, at, srv.ordered[j]) EXCEPT !.ordered[j] = 0]
    /\ Within(srv') /\ UNCHANGED <<work, page, clerk>>

Next ==
    \/ \E d \in Desks :
         \/ LoadAnswer(d) \/ generate(d) \/ addMaterial(d) \/ saveSchedule(d)
         \/ ReserveReads(d) \/ ReleaseReads(d) \/ Writes(d) \/ OpenMove(d) \/ submitMove(d)
         \/ openProposal(d) \/ createPOs(d) \/ CreateNext(d) \/ CancelProposal(d)
    \/ openDetail \/ startCount \/ submitCount \/ doTransfer \/ doAdjust \/ Receive

Spec == Init /\ [][Next]_vars

(***************************************************************************)
(* Properties.                                                             *)
(***************************************************************************)
\* A job never gives back more than it holds, by release, issue or closing: rollup takes
\* the size of the sum, so the excess would be a reservation again.
ReservedIsHeld == \A j \in Jobs : srv.held[j] <= 0
=============================================================================
