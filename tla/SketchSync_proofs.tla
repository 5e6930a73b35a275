-------------------------- MODULE SketchSync_proofs --------------------------
(***************************************************************************)
(* Theorems about SketchSync, for every value of its bounds.               *)
(***************************************************************************)
EXTENDS SketchSync, TLAPS

(* The absent records have their types. *)
LEMMA NullTypes ==
    /\ 0 \in Docs /\ Docs \subseteq Int
    /\ NoSketch \in Sketches /\ NoDraft \in Drafts /\ NoRow \in Rows /\ NoEditor \in Editors
    /\ NoOpening \in Openings /\ NoReview \in Reviews /\ NoPass \in Passes
<1>1. 0 \in Docs /\ Docs \subseteq Int
  BY BoundsAssumption DEF Docs
<1>2. NoSketch \in Sketches
  BY <1>1 DEF NoSketch, Sketches, Versions
<1>3. NoDraft \in Drafts
  BY <1>1 DEF NoDraft, Drafts, Versions
<1>4. NoRow \in Rows
  BY <1>1, <1>2 DEF NoRow, Rows, States, Versions
<1>5. NoEditor \in Editors
  BY <1>1, <1>2 DEF NoEditor, Editors, Versions
<1>6. NoOpening \in Openings /\ NoReview \in Reviews
  BY <1>1, <1>2, <1>3 DEF NoOpening, Openings, NoReview, Reviews
<1>7. NoPass \in Passes
  BY <1>4 DEF NoPass, Passes, Phases
<1> QED
  BY <1>1, <1>2, <1>3, <1>4, <1>5, <1>6, <1>7

(* runSync starts a pass or asks for another one. *)
LEMMA RunSyncType ==
    ASSUME pass \in Passes, rerun \in BOOLEAN, RunSync
    PROVE  pass' \in Passes /\ rerun' \in BOOLEAN
BY NullTypes DEF RunSync, Passes, Phases

(* What the helpers return. *)
LEMMA MaxOfType ==
    \A a, b \in Nat : MaxOf(a, b) \in Nat /\ MaxOf(a, b) >= a /\ MaxOf(a, b) >= b
BY DEF MaxOf

LEMMA DraftTypes ==
    /\ \A c, n \in Drafts, s \in Sketches : WriteDraft(c, n, s) \in Drafts
    /\ \A d \in Drafts, g \in Nat, v \in Versions : AckedDraft(d, g, v) \in Drafts
    /\ \A e \in Editors : AsDraft(e) \in Drafts
<1>1. \A c, n \in Drafts, s \in Sketches : WriteDraft(c, n, s) \in Drafts
  BY MaxOfType DEF WriteDraft, Drafts, Sketches, Versions
<1>2. \A d \in Drafts, g \in Nat, v \in Versions : AckedDraft(d, g, v) \in Drafts
  BY MaxOfType, NullTypes DEF AckedDraft, Drafts, Versions
<1>3. \A e \in Editors : AsDraft(e) \in Drafts
  BY DEF AsDraft, Editors, Drafts
<1> QED
  BY <1>1, <1>2, <1>3

LEMMA RowTypes ==
    /\ \A r \in Rows, v \in Versions : FlooredRow(r, v) \in Rows
    /\ \A r, i \in Rows : Writeback(r, i) \in Rows
    /\ \A r \in Rows, s \in States, v \in Sketches : [r EXCEPT !.state = s, !.srv = v] \in Rows
<1>1. \A r \in Rows, v \in Versions : FlooredRow(r, v) \in Rows
  BY MaxOfType DEF FlooredRow, Rows, Versions
<1>2. \A r, i \in Rows : Writeback(r, i) \in Rows
  BY DEF Writeback
<1>3. \A r \in Rows, s \in States, v \in Sketches : [r EXCEPT !.state = s, !.srv = v] \in Rows
  BY DEF Rows
<1> QED
  BY <1>1, <1>2, <1>3

LEMMA EditorTypes ==
    /\ \A e \in Editors, v \in Versions : Adopt(e, v) \in Editors
    /\ \A e \in Editors, s \in Sketches : [e EXCEPT !.offer = s] \in Editors
    /\ \A e \in Editors : [e EXCEPT !.ui = "ok"] \in Editors
    /\ \A e \in Editors, d \in Docs, g \in Nat :
          [e EXCEPT !.doc = d, !.gen = g, !.due = TRUE] \in Editors
    /\ \A d \in Drafts : LocalEditor(d) \in Editors
    /\ \A s \in Sketches : ServerEditor(s) \in Editors
<1>1. \A e \in Editors, v \in Versions : Adopt(e, v) \in Editors
  BY MaxOfType DEF Adopt, Editors, Versions
<1>2. \A e \in Editors, s \in Sketches : [e EXCEPT !.offer = s] \in Editors
  BY DEF Editors
<1>3. \A e \in Editors : [e EXCEPT !.ui = "ok"] \in Editors
  BY DEF Editors
<1>4. \A d \in Drafts : LocalEditor(d) \in Editors
  BY NullTypes DEF LocalEditor, Drafts, Editors
<1>5. \A s \in Sketches : ServerEditor(s) \in Editors
  BY NullTypes DEF ServerEditor, Sketches, Editors
<1>6. \A e \in Editors, d \in Docs, g \in Nat :
          [e EXCEPT !.doc = d, !.gen = g, !.due = TRUE] \in Editors
  BY DEF Editors
<1> QED
  BY <1>1, <1>2, <1>3, <1>4, <1>5, <1>6

LEMMA FaultType ==
    \A b \in Budgets : b.faults < MaxFaults => [b EXCEPT !.faults = b.faults + 1] \in Budgets
BY BoundsAssumption DEF Budgets

(* The same for the other counted events. *)
LEMMA BudgetTypes ==
    \A b \in Budgets :
        /\ b.opens < MaxOpens => [b EXCEPT !.opens = b.opens + 1] \in Budgets
        /\ b.saves < MaxSaves => [b EXCEPT !.saves = b.saves + 1] \in Budgets
        /\ b.removals < MaxRemovals => [b EXCEPT !.removals = b.removals + 1] \in Budgets
<1> SUFFICES ASSUME NEW b \in Budgets
             PROVE  /\ b.opens < MaxOpens => [b EXCEPT !.opens = b.opens + 1] \in Budgets
                    /\ b.saves < MaxSaves => [b EXCEPT !.saves = b.saves + 1] \in Budgets
                    /\ b.removals < MaxRemovals => [b EXCEPT !.removals = b.removals + 1] \in Budgets
  OBVIOUS
<1>1. b.opens < MaxOpens => [b EXCEPT !.opens = b.opens + 1] \in Budgets
  BY BoundsAssumption DEF Budgets
<1>2. b.saves < MaxSaves => [b EXCEPT !.saves = b.saves + 1] \in Budgets
  BY BoundsAssumption DEF Budgets
<1>3. b.removals < MaxRemovals => [b EXCEPT !.removals = b.removals + 1] \in Budgets
  BY BoundsAssumption DEF Budgets
<1> QED
  BY <1>1, <1>2, <1>3

(* Every step keeps the types. *)
LEMMA TypeStep ==
    ASSUME TypeOK, [Next]_vars
    PROVE  TypeOK'
<1>1. CASE OpenLoadDraft
  <2>1. opening' \in Openings
    BY <1>1, NullTypes DEF TypeOK, OpenLoadDraft, Openings
  <2>2. budget' \in Budgets
    BY <1>1, BudgetTypes DEF TypeOK, OpenLoadDraft
  <2> QED
    BY <1>1, <2>1, <2>2, NullTypes DEF TypeOK, OpenLoadDraft, engine, server, history, Versions
<1>2. CASE OpenFinish
  <2>1. opening.draft \in Drafts /\ opening.server \in Sketches
    BY <1>2 DEF TypeOK, OpenFinish, Openings
  <2>2. LocalEditor(opening.draft) \in Editors /\ ServerEditor(opening.server) \in Editors
       /\ [LocalEditor(opening.draft) EXCEPT !.offer = opening.server] \in Editors
    BY <1>2, <2>1, EditorTypes DEF TypeOK, OpenFinish
  <2>3. editor' \in Editors
    BY <1>2, <2>2 DEF TypeOK, OpenFinish
  <2>4. draft' \in Drafts /\ detail' \in Sketches
    BY <1>2, NullTypes DEF TypeOK, OpenFinish, Openings
  <2> QED
    BY <1>2, <2>1, <2>2, <2>3, <2>4, NullTypes DEF TypeOK, OpenFinish, engine, server, history
<1>3. CASE OpenUseOffice
  <2>1. editor' \in Editors
    BY <1>3, NullTypes DEF TypeOK, OpenUseOffice, Editors, Sketches
  <2>2. detail' \in Sketches
    BY <1>3 DEF TypeOK, OpenUseOffice, Editors
  <2> QED
    BY <1>3, <2>1, <2>2, NullTypes DEF TypeOK, OpenUseOffice, engine, server
<1>4. CASE OpenKeepMine
  <2>1. editor.offer.ver \in Versions /\ NoSketch \in Sketches
    BY <1>4, NullTypes DEF TypeOK, OpenKeepMine, Editors, Sketches
  <2>2. editor' \in Editors
    BY <1>4, <2>1, EditorTypes DEF TypeOK, OpenKeepMine
  <2>3. chain' \in Seq(Drafts)
    BY <1>4, <2>2, DraftTypes DEF TypeOK, OpenKeepMine
  <2>4. known' \in [Docs -> SUBSET Docs]
    BY <1>4 DEF TypeOK, OpenKeepMine, Editors, Sketches
  <2> QED
    BY <1>4, <2>1, <2>2, <2>3, <2>4, NullTypes DEF TypeOK, OpenKeepMine, engine, server
<1>5. CASE CloseEditor
  <2>1. editor' \in Editors
    BY <1>5, NullTypes DEF TypeOK, CloseEditor, Editors
  <2> QED
    BY <1>5, <2>1, NullTypes DEF TypeOK, CloseEditor, engine, server, history
<1>6. ASSUME NEW online \in BOOLEAN, OpenFetch(online) PROVE TypeOK'
  <2>1. detail' \in Sketches
    BY <1>6 DEF TypeOK, OpenFetch
  <2>2. opening' \in Openings
    BY <1>6, <2>1, NullTypes DEF TypeOK, OpenFetch, Openings
  <2> QED
    BY <1>6, <2>1, <2>2, NullTypes DEF TypeOK, OpenFetch, engine, server, history
<1>7. CASE Commit
  <2>1. budget.commits + 1 \in Docs /\ budget.commits + 1 \in 0..MaxCommits
    BY <1>7, BoundsAssumption DEF TypeOK, Commit, Budgets, Docs
  <2>2. editor.gen + 1 \in Nat
    BY <1>7 DEF TypeOK, Commit, Editors
  <2>3. editor' \in Editors
    BY <1>7, <2>1, <2>2, EditorTypes DEF TypeOK, Commit
  <2>4. chain' \in Seq(Drafts)
    BY <1>7, <2>3, DraftTypes DEF TypeOK, Commit
  <2>5. budget' \in Budgets
    BY <1>7, <2>1 DEF TypeOK, Commit, Budgets
  <2>6. known' \in [Docs -> SUBSET Docs]
    BY <1>7, <2>1 DEF TypeOK, Commit, Editors
  <2> QED
    BY <1>7, <2>1, <2>2, <2>3, <2>4, <2>5, <2>6, NullTypes DEF TypeOK, Commit, engine, server
<1>8. CASE Persist
  <2>1. Head(chain) \in Drafts /\ Tail(chain) \in Seq(Drafts)
    BY <1>8 DEF TypeOK, Persist
  <2>2. draft' \in Drafts /\ newest' \in Docs
    BY <1>8, <2>1, DraftTypes DEF TypeOK, Persist, Drafts
  <2>3. MaxOf(editor.persisted, Head(chain).gen) \in Nat
    BY <1>8, <2>1, MaxOfType DEF TypeOK, Persist, Editors, Drafts
  <2>4. editor' \in Editors
    BY <1>8, <2>3 DEF TypeOK, Persist, Editors
  <2> QED
    BY <1>8, <2>1, <2>2, <2>3, <2>4, NullTypes DEF TypeOK, Persist, engine, server
<1>9. CASE PersistFails
  <2>1. Tail(chain) \in Seq(Drafts)
    BY <1>9 DEF TypeOK, PersistFails
  <2>2. editor' \in Editors
    BY <1>9 DEF TypeOK, PersistFails, Editors
  <2>3. budget' \in Budgets
    BY <1>9, FaultType DEF TypeOK, PersistFails
  <2> QED
    BY <1>9, <2>1, <2>2, <2>3, NullTypes DEF TypeOK, PersistFails, engine, server, history
<1>10. CASE RetrySave
  <2>1. pass' \in Passes /\ rerun' \in BOOLEAN
    BY <1>10, RunSyncType DEF TypeOK, RetrySave
  <2>2. chain' \in Seq(Drafts)
    BY <1>10, DraftTypes DEF TypeOK, RetrySave
  <2> QED
    BY <1>10, <2>1, <2>2, NullTypes DEF TypeOK, RetrySave, server, history
<1>11. CASE Stage
  <2>1. pass' \in Passes /\ rerun' \in BOOLEAN
    BY <1>11, RunSyncType DEF TypeOK, Stage
  <2>2. editor.doc \in Docs /\ editor.gen \in Nat /\ MaxOf(editor.ver, floor) \in Nat
    BY <1>11, MaxOfType DEF TypeOK, Stage, Editors, Versions
  <2>3. NoSketch \in Sketches /\ NextGeneration(row) \in Nat
    BY <1>11, NullTypes DEF TypeOK, Stage, Rows, NextGeneration
  <2>4. row' \in Rows
    BY <1>11, <2>2, <2>3 DEF TypeOK, Stage, Rows, Versions, States
  <2>5. editor' \in Editors
    BY <1>11 DEF TypeOK, Stage, Editors
  <2> QED
    BY <1>11, <2>1, <2>2, <2>3, <2>4, <2>5, NullTypes DEF TypeOK, Stage, server, history
<1>12. CASE StageSkips
  <2>1. editor' \in Editors
    BY <1>12 DEF TypeOK, StageSkips, Editors
  <2> QED
    BY <1>12, <2>1, NullTypes DEF TypeOK, StageSkips, engine, server, history
<1>13. CASE RefreshScreen
  <2>1. [editor EXCEPT !.ui = UiOf(row.state)] \in Editors
    BY <1>13 DEF TypeOK, RefreshScreen, Editors, UiOf
  <2>2. editor' \in Editors
    BY <1>13, <2>1, EditorTypes DEF TypeOK, RefreshScreen, Drafts, Rows, Sketches
  <2> QED
    BY <1>13, <2>1, <2>2, NullTypes DEF TypeOK, RefreshScreen, engine, server, history
<1>14. ASSUME NEW choice \in {"use_office", "keep_local"}, BeginResolve(choice) PROVE TypeOK'
  <2>1. review' \in Reviews
    BY <1>14 DEF TypeOK, BeginResolve, Reviews, Rows, Drafts
  <2> QED
    BY <1>14, <2>1, NullTypes DEF TypeOK, BeginResolve, engine, server, history
<1>15. CASE ResolveStale
  BY <1>15, NullTypes DEF TypeOK, ResolveStale, engine, server, history
<1>16. CASE ResolveUseOffice
  <2>1. editor' \in Editors
    BY <1>16 DEF TypeOK, ResolveUseOffice, Editors, Reviews, Sketches
  <2>2. detail' \in Sketches /\ floor' \in Versions
    BY <1>16, MaxOfType DEF TypeOK, ResolveUseOffice, Reviews, Sketches, Versions
  <2> QED
    BY <1>16, <2>1, <2>2, NullTypes DEF TypeOK, ResolveUseOffice, engine, server
<1>17. CASE ResolveKeepLocal
  <2>1. pass' \in Passes /\ rerun' \in BOOLEAN
    BY <1>17, RunSyncType DEF TypeOK, ResolveKeepLocal
  <2>2. review.lgen \in Nat /\ review.local \in Docs /\ review.office.ver \in Nat /\ review.office.doc \in Docs
    BY <1>17 DEF TypeOK, ResolveKeepLocal, Reviews, Sketches, Versions
  <2>3. NoSketch \in Sketches /\ NextGeneration(row) \in Nat
    BY <1>17, NullTypes DEF TypeOK, ResolveKeepLocal, Rows, NextGeneration
  <2>4. row' \in Rows /\ draft' \in Drafts
    BY <1>17, <2>2, <2>3 DEF TypeOK, ResolveKeepLocal, Rows, Drafts, Versions, States
  <2>5. editor' \in Editors
    BY <1>17, <2>2, EditorTypes DEF TypeOK, ResolveKeepLocal, Versions
  <2>6. floor' \in Versions
    BY <1>17, <2>2, MaxOfType DEF TypeOK, ResolveKeepLocal, Versions
  <2>7. known' \in [Docs -> SUBSET Docs]
    BY <1>17, <2>2 DEF TypeOK, ResolveKeepLocal
  <2> QED
    BY <1>17, <2>1, <2>2, <2>3, <2>4, <2>5, <2>6, <2>7, NullTypes DEF TypeOK, ResolveKeepLocal, server
<1>18. CASE Trigger
  <2>1. pass' \in Passes /\ rerun' \in BOOLEAN
    BY <1>18, RunSyncType DEF TypeOK, Trigger
  <2> QED
    BY <1>18, <2>1, NullTypes DEF TypeOK, Trigger, device, server, history
<1>19. CASE TimerFires
  <2>1. pass' \in Passes /\ rerun' \in BOOLEAN
    BY <1>19, RunSyncType DEF TypeOK, TimerFires
  <2> QED
    BY <1>19, <2>1, NullTypes DEF TypeOK, TimerFires, device, server, history
<1>20. CASE PassOffline
  <2>1. pass' \in Passes
    BY <1>20 DEF TypeOK, PassOffline, Passes, Phases
  <2>2. budget' \in Budgets
    BY <1>20, FaultType DEF TypeOK, PassOffline
  <2> QED
    BY <1>20, <2>1, <2>2, NullTypes DEF TypeOK, PassOffline, device, server, history
<1>21. CASE PassLoad
  <2>1. pass' \in Passes
    BY <1>21, NullTypes DEF TypeOK, PassLoad, Passes, Phases
  <2>2. [doc |-> row.doc, exp |-> row.exp, live |-> TRUE] \in Requests
    BY <1>21 DEF TypeOK, PassLoad, Rows, Requests
  <2>3. wire' \subseteq Requests
    BY <1>21, <2>2 DEF TypeOK, PassLoad
  <2> QED
    BY <1>21, <2>1, <2>2, <2>3, NullTypes DEF TypeOK, PassLoad, device, history
<1>22. ASSUME NEW late \in BOOLEAN, PassTimesOut(late) PROVE TypeOK'
  <2>1. pass' \in Passes
    BY <1>22 DEF TypeOK, PassTimesOut, Passes, Phases, Rows, States, Answer
  <2>2. \A r \in wire : [r EXCEPT !.live = FALSE] \in Requests
    BY <1>22 DEF TypeOK, PassTimesOut, Requests
  <2>3. wire' \subseteq Requests
    BY <1>22, <2>2 DEF TypeOK, PassTimesOut
  <2>4. budget' \in Budgets
    BY <1>22, FaultType DEF TypeOK, PassTimesOut
  <2> QED
    BY <1>22, <2>1, <2>2, <2>3, <2>4, NullTypes DEF TypeOK, PassTimesOut, device, history
<1>23. CASE PassWriteback
  <2>1. pass' \in Passes
    BY <1>23, NullTypes DEF TypeOK, PassWriteback, Passes, Phases, AckPhases
  <2>2. row' \in Rows
    BY <1>23, RowTypes DEF TypeOK, PassWriteback, Passes
  <2> QED
    BY <1>23, <2>1, <2>2, NullTypes DEF TypeOK, PassWriteback, server, history
<1>24. CASE AckDetail
  <2>1. pass' \in Passes
    BY <1>24 DEF TypeOK, AckDetail, Passes, Phases, AckPhases
  <2>2. detail' \in Sketches
    BY <1>24 DEF TypeOK, AckDetail, Passes, Rows
  <2> QED
    BY <1>24, <2>1, <2>2, NullTypes DEF TypeOK, AckDetail, server, history
<1>25. CASE AckDraft
  <2>1. pass' \in Passes
    BY <1>25 DEF TypeOK, AckDraft, Passes, Phases, AckPhases
  <2>2. draft' \in Drafts
    BY <1>25, DraftTypes DEF TypeOK, AckDraft, Passes, Rows, Sketches
  <2> QED
    BY <1>25, <2>1, <2>2, NullTypes DEF TypeOK, AckDraft, server, history
<1>26. CASE AckRow
  <2>1. pass' \in Passes
    BY <1>26 DEF TypeOK, AckRow, Passes, Phases, AckPhases
  <2>2. row' \in Rows
    BY <1>26, RowTypes DEF TypeOK, AckRow, Passes, Rows, Sketches
  <2> QED
    BY <1>26, <2>1, <2>2, NullTypes DEF TypeOK, AckRow, server, history
<1>27. CASE AckFloor
  <2>1. pass' \in Passes
    BY <1>27, NullTypes DEF TypeOK, AckFloor, Passes, Phases
  <2>2. floor' \in Versions
    BY <1>27, MaxOfType DEF TypeOK, AckFloor, Passes, Rows, Sketches, Versions
  <2> QED
    BY <1>27, <2>1, <2>2, NullTypes DEF TypeOK, AckFloor, server, history
<1>28. CASE PassFinish
  <2>1. pass' \in Passes
    BY <1>28 DEF TypeOK, PassFinish, Passes, Phases
  <2> QED
    BY <1>28, <2>1, NullTypes DEF TypeOK, PassFinish, device, server, history, RetryDue
<1>29. CASE PassEnd
  <2>1. pass' \in Passes
    BY <1>29, NullTypes DEF TypeOK, PassEnd, Passes, Phases
  <2> QED
    BY <1>29, <2>1, NullTypes DEF TypeOK, PassEnd, device, server, history
<1>30. ASSUME NEW r \in wire, OfficeHandles(r) PROVE TypeOK'
  <2>1. r.doc \in Docs /\ r.exp \in Versions /\ [ver |-> office.ver + 1, doc |-> r.doc] \in Sketches
    BY <1>30 DEF TypeOK, OfficeHandles, Requests, Sketches, Versions
  <2>2. pass \in Passes /\ office \in Sketches /\ pass.item \in Rows /\ pass.item.srv \in Sketches
    BY <1>30 DEF TypeOK, OfficeHandles, Passes, Rows
  <2>3. ASSUME NEW s \in {"locked", "synced", "conflict"}, NEW v \in Sketches, Answer(s, v)
        PROVE  pass' \in Passes
    BY <2>3, <2>2, RowTypes DEF Passes, Phases, States, Answer
  <2>4. pass' \in Passes
    BY <1>30, <2>1, <2>2, <2>3 DEF OfficeHandles
  <2>5. office' \in Sketches /\ wire' \subseteq Requests /\ accepted' \subseteq Docs
    BY <1>30, <2>1 DEF TypeOK, OfficeHandles
  <2> QED
    BY <1>30, <2>1, <2>2, <2>3, <2>4, <2>5, NullTypes DEF TypeOK, OfficeHandles, device
<1>31. ASSUME NEW r \in wire, OfficeRefuses(r) PROVE TypeOK'
  <2>1. pass' \in Passes
    BY <1>31 DEF TypeOK, OfficeRefuses, Passes, Phases, Rows, States, Answer
  <2>2. budget' \in Budgets
    BY <1>31, FaultType DEF TypeOK, OfficeRefuses
  <2> QED
    BY <1>31, <2>1, <2>2, NullTypes DEF TypeOK, OfficeRefuses, device, history
<1>32. CASE OfficeSaves
  <2>1. office' \in Sketches
    <3>1. budget.saves \in 0..MaxSaves /\ budget.saves < MaxSaves
      BY <1>32 DEF TypeOK, OfficeSaves, Budgets
    <3>2. -(budget.saves + 1) \in Docs
      BY <3>1, BoundsAssumption DEF Docs
    <3>3. office.ver + 1 \in Versions
      BY DEF TypeOK, Sketches, Versions
    <3> QED
      BY <1>32, <3>2, <3>3 DEF OfficeSaves, Sketches
  <2>2. budget' \in Budgets
    BY <1>32, BudgetTypes DEF TypeOK, OfficeSaves
  <2> QED
    BY <1>32, <2>1, <2>2, NullTypes DEF TypeOK, OfficeSaves, device, engine, history
<1>33. CASE OfficeLocks
  BY <1>33, NullTypes DEF TypeOK, OfficeLocks, device, engine, history
<1>34. CASE RefreshDecide
  <2>1. floor' \in Versions
    BY <1>34, MaxOfType DEF TypeOK, RefreshDecide, Sketches, Versions
  <2> QED
    BY <1>34, <2>1, NullTypes DEF TypeOK, RefreshDecide, engine, server, history
<1>35. ASSUME NEW online \in BOOLEAN, RefreshPull(online) PROVE TypeOK'
  BY <1>35, NullTypes DEF TypeOK, RefreshPull, engine, server, history
<1>36. CASE RemoveRow
  <2>1. budget' \in Budgets
    BY <1>36, BudgetTypes DEF TypeOK, RemoveRow
  <2> QED
    BY <1>36, <2>1, NullTypes DEF TypeOK, RemoveRow, engine, server, history
<1>37. CASE RestoreRow
  BY <1>37, NullTypes DEF TypeOK, RestoreRow, engine, server, history
<1>38. CASE CrashRestart
  <2>1. pass' \in Passes
    BY <1>38, NullTypes DEF TypeOK, CrashRestart, Passes, Phases
  <2>2. \A r \in wire : [r EXCEPT !.live = FALSE] \in Requests
    BY <1>38 DEF TypeOK, CrashRestart, Requests
  <2>3. wire' \subseteq Requests
    BY <1>38, <2>2 DEF TypeOK, CrashRestart
  <2>4. budget' \in Budgets
    BY <1>38, FaultType DEF TypeOK, CrashRestart
  <2> QED
    BY <1>38, <2>1, <2>2, <2>3, <2>4, NullTypes DEF TypeOK, CrashRestart, history, Versions
<1>39. CASE UNCHANGED vars
  BY <1>39 DEF TypeOK, vars, device, engine, server, history
<1> QED
  BY <1>1, <1>2, <1>3, <1>4, <1>5, <1>6, <1>7, <1>8, <1>9, <1>10, <1>11, <1>12, <1>13, <1>14, <1>15, <1>16, <1>17, <1>18, <1>19, <1>20, <1>21, <1>22, <1>23, <1>24, <1>25, <1>26, <1>27, <1>28, <1>29, <1>30, <1>31, <1>32, <1>33, <1>34, <1>35, <1>36, <1>37, <1>38, <1>39
     DEF Next, ScreenNext, EngineNext, OfficeNext

(* Every variable always has its type. *)
THEOREM TypeCorrect == Spec => []TypeOK
<1>1. Init => TypeOK
  <2>1. Init => budget \in Budgets
    BY BoundsAssumption DEF Init, Budgets
  <2>2. Init => known \in [Docs -> SUBSET Docs]
    BY NullTypes DEF Init
  <2> QED
    BY <2>1, <2>2, NullTypes DEF Init, TypeOK, Versions
<1>2. TypeOK /\ [Next]_vars => TypeOK'
  BY TypeStep
<1> QED
  BY <1>1, <1>2, PTL DEF Spec

-----------------------------------------------------------------------------
(* Steps that concern only the screen, the cached copy or Office's own editing:
   neither the row, the pass nor the requests are touched. *)
Quiet ==
    \/ OpenLoadDraft \/ OpenFinish \/ OpenUseOffice \/ OpenKeepMine \/ CloseEditor
    \/ \E online \in BOOLEAN : OpenFetch(online) \/ RefreshPull(online)
    \/ Commit \/ Persist \/ PersistFails \/ StageSkips \/ RefreshScreen
    \/ \E choice \in {"use_office", "keep_local"} : BeginResolve(choice)
    \/ ResolveStale \/ OfficeSaves \/ OfficeLocks \/ RefreshDecide

LEMMA QuietSteps ==
    ASSUME Quiet
    PROVE  UNCHANGED <<row, wire, pass, timer, rerun, accepted, removed>>
<1>1. CASE OpenLoadDraft \/ OpenFinish \/ OpenUseOffice \/ OpenKeepMine \/ CloseEditor
  BY <1>1 DEF OpenLoadDraft, OpenFinish, OpenUseOffice, OpenKeepMine, CloseEditor, engine, server,
              history
<1>2. CASE \E online \in BOOLEAN : OpenFetch(online) \/ RefreshPull(online)
  BY <1>2 DEF OpenFetch, RefreshPull, engine, server, history
<1>3. CASE Commit \/ Persist \/ PersistFails \/ StageSkips \/ RefreshScreen
  BY <1>3 DEF Commit, Persist, PersistFails, StageSkips, RefreshScreen, engine, server, history
<1>4. CASE (\E choice \in {"use_office", "keep_local"} : BeginResolve(choice)) \/ ResolveStale
  BY <1>4 DEF BeginResolve, ResolveStale, engine, server, history
<1>5. CASE OfficeSaves \/ OfficeLocks \/ RefreshDecide
  BY <1>5 DEF OfficeSaves, OfficeLocks, RefreshDecide, device, engine, server, history
<1> QED
  BY <1>1, <1>2, <1>3, <1>4, <1>5 DEF Quiet

-----------------------------------------------------------------------------
(* A request whose answer the device still awaits is the one the pass has sent. *)
LiveRequests ==
    \A r \in wire : r.live => /\ pass.phase = "waiting"
                              /\ r.doc = pass.item.doc /\ r.exp = pass.item.exp

LEMMA OneLiveRequest ==
    ASSUME TypeOK, LiveRequests, NEW r \in wire, NEW s \in wire, r.live, s.live
    PROVE  r = s
BY DEF TypeOK, LiveRequests, Requests

(* An answer changes the state of the pass's copy, never what it is a copy of. *)
LEMMA AnswerKeeps ==
    ASSUME TypeOK, NEW s, NEW v, Answer(s, v)
    PROVE  /\ pass'.phase = "answered" /\ pass'.item.state = s /\ pass'.item.srv = v
           /\ pass'.item.doc = pass.item.doc /\ pass'.item.lgen = pass.item.lgen
           /\ pass'.item.gen = pass.item.gen
BY DEF TypeOK, Passes, Rows, Answer

(* "synced" is Office's word.  The answer a pass holds is about the very request the
   pass has on the wire, and what Undo may restore was never acknowledged. *)
SyncInv ==
    /\ SyncedMeansAccepted
    /\ LiveRequests
    /\ pass.phase = "answered" /\ pass.item.state = "synced" => pass.item.doc \in accepted
    /\ removed.state # "synced"

LEMMA SyncStep ==
    ASSUME SyncInv, TypeOK, TypeOK', [Next]_vars
    PROVE  SyncInv'
<1>1. CASE Quiet
  BY <1>1, QuietSteps DEF SyncInv, SyncedMeansAccepted, LiveRequests
<1>2. CASE RetrySave
  BY <1>2 DEF SyncInv, SyncedMeansAccepted, LiveRequests, RetrySave, RunSync, NoPass, device, server, history
<1>3. CASE Stage
  BY <1>3 DEF SyncInv, SyncedMeansAccepted, LiveRequests, Stage, RunSync, NoPass, device, server, history
<1>4. CASE ResolveUseOffice
  BY <1>4 DEF SyncInv, SyncedMeansAccepted, LiveRequests, ResolveUseOffice, NoRow, engine, server
<1>5. CASE ResolveKeepLocal
  BY <1>5 DEF SyncInv, SyncedMeansAccepted, LiveRequests, ResolveKeepLocal, RunSync, NoPass, device, server, history
<1>6. CASE Trigger
  BY <1>6 DEF SyncInv, SyncedMeansAccepted, LiveRequests, Trigger, RunSync, NoPass, device, server, history
<1>7. CASE TimerFires
  BY <1>7 DEF SyncInv, SyncedMeansAccepted, LiveRequests, TimerFires, RunSync, NoPass, device, server, history
<1>8. CASE PassOffline
  BY <1>8 DEF SyncInv, SyncedMeansAccepted, LiveRequests, PassOffline, device, server, history
<1>9. CASE PassLoad
  BY <1>9 DEF SyncInv, SyncedMeansAccepted, LiveRequests, PassLoad, device, history, Unsynced, NoRow
<1>10. ASSUME NEW late \in BOOLEAN, PassTimesOut(late) PROVE SyncInv'
  <2>1. \A s \in wire' : ~s.live
    BY <1>10 DEF PassTimesOut, TypeOK, Requests
  <2> QED
    BY <1>10, <2>1 DEF SyncInv, SyncedMeansAccepted, LiveRequests, PassTimesOut, device, history, Answer, TypeOK, Passes, Rows
<1>11. CASE PassWriteback
  BY <1>11 DEF SyncInv, SyncedMeansAccepted, LiveRequests, PassWriteback, server, history, Writeback, NoPass
<1>12. CASE AckDetail
  BY <1>12 DEF SyncInv, SyncedMeansAccepted, LiveRequests, AckDetail, server, history, NoPass
<1>13. CASE AckDraft
  BY <1>13 DEF SyncInv, SyncedMeansAccepted, LiveRequests, AckDraft, server, history, NoPass
<1>14. CASE AckRow
  BY <1>14 DEF SyncInv, SyncedMeansAccepted, LiveRequests, AckRow, server, history, FlooredRow, TypeOK, Rows
<1>15. CASE AckFloor
  BY <1>15 DEF SyncInv, SyncedMeansAccepted, LiveRequests, AckFloor, server, history, NoPass
<1>16. CASE PassFinish
  BY <1>16 DEF SyncInv, SyncedMeansAccepted, LiveRequests, PassFinish, device, server, history
<1>17. CASE PassEnd
  BY <1>17 DEF SyncInv, SyncedMeansAccepted, LiveRequests, PassEnd, device, server, history, NoPass
<1>18. ASSUME NEW r \in wire, OfficeHandles(r) PROVE SyncInv'
  <2>1. \A s \in wire : s.live /\ r.live => s = r
    BY <1>18, OneLiveRequest DEF SyncInv
  <2>2. LiveRequests'
    BY <1>18, <2>1 DEF SyncInv, LiveRequests, OfficeHandles, Answer
  <2>3. r.live => \E s, v : Answer(s, v) /\ (s = "synced" => r.doc \in accepted')
    BY <1>18 DEF OfficeHandles
  <2>4. r.live => /\ pass.phase = "waiting" /\ pass'.phase = "answered"
                  /\ pass'.item.doc = pass.item.doc /\ pass'.item.lgen = pass.item.lgen
                  /\ pass'.item.gen = pass.item.gen
                  /\ pass'.item.state = "synced" => pass'.item.doc \in accepted'
    BY <1>18, <2>3, AnswerKeeps DEF SyncInv, LiveRequests
  <2>5. ~r.live => pass' = pass
    BY <1>18 DEF OfficeHandles
  <2>6. UNCHANGED <<row, removed>> /\ accepted \subseteq accepted'
    BY <1>18 DEF OfficeHandles, device
  <2>7. ~r.live => (pass'.phase = "answered" /\ pass'.item.state = "synced"
                  => pass'.item.doc \in accepted')
    BY <1>18, <2>5, <2>6 DEF SyncInv
  <2>8. pass'.phase = "answered" /\ pass'.item.state = "synced" => pass'.item.doc \in accepted'
    BY <1>18, <2>4, <2>7
  <2> QED
    BY <1>18, <2>2, <2>6, <2>8 DEF SyncInv, SyncedMeansAccepted
<1>19. ASSUME NEW r \in wire, OfficeRefuses(r) PROVE SyncInv'
  <2>1. \A s \in wire : s.live /\ r.live => s = r
    BY <1>19, OneLiveRequest DEF SyncInv
  <2>2. LiveRequests'
    BY <1>19, <2>1 DEF SyncInv, LiveRequests, OfficeRefuses, Answer
  <2>3. r.live => \E s, v : Answer(s, v) /\ (s = "synced" => r.doc \in accepted')
    BY <1>19 DEF OfficeRefuses
  <2>4. r.live => /\ pass.phase = "waiting" /\ pass'.phase = "answered"
                  /\ pass'.item.doc = pass.item.doc /\ pass'.item.lgen = pass.item.lgen
                  /\ pass'.item.gen = pass.item.gen
                  /\ pass'.item.state = "synced" => pass'.item.doc \in accepted'
    BY <1>19, <2>3, AnswerKeeps DEF SyncInv, LiveRequests
  <2>5. ~r.live => pass' = pass
    BY <1>19 DEF OfficeRefuses
  <2>6. UNCHANGED <<row, removed>> /\ accepted \subseteq accepted'
    BY <1>19 DEF OfficeRefuses, device, history
  <2>7. ~r.live => (pass'.phase = "answered" /\ pass'.item.state = "synced"
                  => pass'.item.doc \in accepted')
    BY <1>19, <2>5, <2>6 DEF SyncInv
  <2>8. pass'.phase = "answered" /\ pass'.item.state = "synced" => pass'.item.doc \in accepted'
    BY <1>19, <2>4, <2>7
  <2> QED
    BY <1>19, <2>2, <2>6, <2>8 DEF SyncInv, SyncedMeansAccepted
<1>20. CASE RemoveRow
  BY <1>20 DEF SyncInv, SyncedMeansAccepted, LiveRequests, RemoveRow, NoRow, engine, server, history
<1>21. CASE RestoreRow
  BY <1>21 DEF SyncInv, SyncedMeansAccepted, LiveRequests, RestoreRow, NoRow, engine, server, history
<1>22. CASE CrashRestart
  BY <1>22 DEF SyncInv, SyncedMeansAccepted, LiveRequests, CrashRestart, NoRow, NoPass, history, TypeOK, Requests
<1>23. CASE UNCHANGED vars
  BY <1>23 DEF SyncInv, SyncedMeansAccepted, LiveRequests, vars, device, engine, server, history
<1> QED
  BY <1>1, <1>2, <1>3, <1>4, <1>5, <1>6, <1>7, <1>8, <1>9, <1>10, <1>11, <1>12, <1>13,
     <1>14, <1>15, <1>16, <1>17, <1>18, <1>19, <1>20, <1>21, <1>22, <1>23
     DEF Next, ScreenNext, EngineNext, OfficeNext, Quiet

(* A row reads "synced" only if Office stored the document of that row, whatever is lost,
   late, crashed, removed or undone. *)
THEOREM SyncedIsAccepted == Spec => []SyncedMeansAccepted
<1>1. Init => SyncInv
  BY NullTypes DEF Init, SyncInv, SyncedMeansAccepted, LiveRequests, NoRow, NoPass
<1>2. SyncInv /\ TypeOK /\ TypeOK' /\ [Next]_vars => SyncInv'
  BY SyncStep
<1>3. SyncInv => SyncedMeansAccepted
  BY DEF SyncInv, SyncedMeansAccepted
<1> QED
  BY <1>1, <1>2, <1>3, TypeCorrect, PTL DEF Spec

-----------------------------------------------------------------------------
(* A pending row has a pass or a timer to take it.  The finally block is the place
   where a wake-up could be lost: a pass about to end must know of another one. *)
ScheduleInv ==
    /\ PendingIsScheduled
    /\ pass.phase = "ending" /\ row.state = "pending" => timer \/ rerun
    /\ removed = NoRow

LEMMA ScheduleStep ==
    ASSUME MaxRemovals = 0, ScheduleInv, TypeOK, TypeOK', [Next]_vars
    PROVE  ScheduleInv'
<1>1. CASE Quiet
  BY <1>1, QuietSteps DEF ScheduleInv, PendingIsScheduled
<1>2. CASE RetrySave
  BY <1>2 DEF ScheduleInv, PendingIsScheduled, RetrySave, RunSync, NoPass, device, server, history
<1>3. CASE Stage
  BY <1>3 DEF ScheduleInv, PendingIsScheduled, Stage, RunSync, NoPass, device, server, history
<1>4. CASE ResolveUseOffice
  BY <1>4 DEF ScheduleInv, PendingIsScheduled, ResolveUseOffice, NoRow, engine, server
<1>5. CASE ResolveKeepLocal
  BY <1>5 DEF ScheduleInv, PendingIsScheduled, ResolveKeepLocal, RunSync, NoPass, device, server, history
<1>6. CASE Trigger
  BY <1>6 DEF ScheduleInv, PendingIsScheduled, Trigger, RunSync, NoPass, device, server, history
<1>7. CASE TimerFires
  BY <1>7 DEF ScheduleInv, PendingIsScheduled, TimerFires, RunSync, NoPass, device, server, history
<1>8. CASE PassOffline
  BY <1>8 DEF ScheduleInv, PendingIsScheduled, PassOffline, device, server, history, Unsynced
<1>9. CASE PassLoad
  BY <1>9 DEF ScheduleInv, PendingIsScheduled, PassLoad, device, history
<1>10. ASSUME NEW late \in BOOLEAN, PassTimesOut(late) PROVE ScheduleInv'
  BY <1>10 DEF ScheduleInv, PendingIsScheduled, PassTimesOut, device, history, Answer
<1>11. CASE PassWriteback
  BY <1>11 DEF ScheduleInv, PendingIsScheduled, PassWriteback, server, history, NoPass, TypeOK, Passes
<1>12. CASE AckDetail
  BY <1>12 DEF ScheduleInv, PendingIsScheduled, AckDetail, server, history, NoPass, TypeOK, Passes
<1>13. CASE AckDraft
  BY <1>13 DEF ScheduleInv, PendingIsScheduled, AckDraft, server, history, NoPass, TypeOK, Passes
<1>14. CASE AckRow
  BY <1>14 DEF ScheduleInv, PendingIsScheduled, AckRow, server, history, NoPass, TypeOK, Passes
<1>15. CASE AckFloor
  BY <1>15 DEF ScheduleInv, PendingIsScheduled, AckFloor, server, history, NoPass, TypeOK, Passes
<1>16. CASE PassFinish
  BY <1>16 DEF ScheduleInv, PendingIsScheduled, PassFinish, device, server, history, RetryDue
<1>17. CASE PassEnd
  BY <1>17 DEF ScheduleInv, PendingIsScheduled, PassEnd, device, server, history, NoPass
<1>18. ASSUME NEW r \in wire, OfficeHandles(r) PROVE ScheduleInv'
  BY <1>18 DEF ScheduleInv, PendingIsScheduled, OfficeHandles, device, Answer, TypeOK, Passes, Rows, Requests
<1>19. ASSUME NEW r \in wire, OfficeRefuses(r) PROVE ScheduleInv'
  BY <1>19 DEF ScheduleInv, PendingIsScheduled, OfficeRefuses, device, history, Answer
<1>20. CASE RemoveRow
  BY <1>20 DEF ScheduleInv, PendingIsScheduled, RemoveRow, TypeOK, Budgets
<1>21. CASE RestoreRow
  BY <1>21 DEF ScheduleInv, PendingIsScheduled, RestoreRow
<1>22. CASE CrashRestart
  BY <1>22 DEF ScheduleInv, PendingIsScheduled, CrashRestart, NoPass, history
<1>23. CASE UNCHANGED vars
  BY <1>23 DEF ScheduleInv, PendingIsScheduled, vars, device, engine, server, history
<1> QED
  BY <1>1, <1>2, <1>3, <1>4, <1>5, <1>6, <1>7, <1>8, <1>9, <1>10, <1>11, <1>12, <1>13,
     <1>14, <1>15, <1>16, <1>17, <1>18, <1>19, <1>20, <1>21, <1>22, <1>23
     DEF Next, ScreenNext, EngineNext, OfficeNext, Quiet

(* Without the Sync Center's Undo, no wake-up is lost: a pending row always has a pass
   running or a retry armed. *)
THEOREM NoLostWakeUp ==
    ASSUME MaxRemovals = 0
    PROVE  Spec => []PendingIsScheduled
<1>1. Init => ScheduleInv
  BY NullTypes DEF Init, ScheduleInv, PendingIsScheduled, NoRow, NoPass
<1>2. ScheduleInv /\ TypeOK /\ TypeOK' /\ [Next]_vars => ScheduleInv'
  BY ScheduleStep
<1>3. ScheduleInv => PendingIsScheduled
  BY DEF ScheduleInv, PendingIsScheduled
<1> QED
  BY <1>1, <1>2, <1>3, TypeCorrect, PTL DEF Spec

-----------------------------------------------------------------------------
(* The generation guard.  While a pass waits for Office the row cannot be in conflict,
   so no resolution can delete it and let its generation be used again; once the
   answer is there, the write back comes before the rep's next tap. *)
GuardInv ==
    /\ pass.phase = "waiting" => row.state \in {"pending", "failed"}
    /\ pass.phase = "answered" => row.state # "none"
    /\ pass.phase \in {"waiting", "answered"} =>
         /\ row.gen >= pass.item.gen
         /\ row.gen = pass.item.gen => row.doc = pass.item.doc /\ row.lgen = pass.item.lgen
    /\ LiveRequests
    /\ removed = NoRow

LEMMA GuardStep ==
    ASSUME ~OtherRows, ~TapsMidWrite, MaxRemovals = 0, GuardInv, TypeOK, TypeOK', [Next]_vars
    PROVE  GuardInv'
<1>1. CASE Quiet
  BY <1>1, QuietSteps DEF GuardInv, LiveRequests
<1>2. CASE RetrySave
  BY <1>2 DEF GuardInv, LiveRequests, RetrySave, RunSync, NoPass, device, server, history
<1>3. CASE Stage
  BY <1>3 DEF GuardInv, LiveRequests, Stage, RunSync, NoPass, device, server, history, NextGeneration, TypeOK, Rows, Passes, ReviewCurrent
<1>4. CASE ResolveUseOffice
  BY <1>4 DEF GuardInv, LiveRequests, ResolveUseOffice, NoRow, engine, server, Burst, ReviewCurrent
<1>5. CASE ResolveKeepLocal
  BY <1>5 DEF GuardInv, LiveRequests, ResolveKeepLocal, RunSync, NoPass, device, server, history, NextGeneration, TypeOK, Rows, Passes, ReviewCurrent
<1>6. CASE Trigger
  BY <1>6 DEF GuardInv, LiveRequests, Trigger, RunSync, NoPass, device, server, history
<1>7. CASE TimerFires
  BY <1>7 DEF GuardInv, LiveRequests, TimerFires, RunSync, NoPass, device, server, history
<1>8. CASE PassOffline
  BY <1>8 DEF GuardInv, LiveRequests, PassOffline, device, server, history
<1>9. CASE PassLoad
  BY <1>9 DEF GuardInv, LiveRequests, PassLoad, device, history, Unsynced, NoRow, TypeOK, Rows
<1>10. ASSUME NEW late \in BOOLEAN, PassTimesOut(late) PROVE GuardInv'
  <2>1. \A s \in wire' : ~s.live
    BY <1>10 DEF PassTimesOut, TypeOK, Requests
  <2> QED
    BY <1>10, <2>1 DEF GuardInv, LiveRequests, PassTimesOut, device, history, Answer, TypeOK, Passes, Rows
<1>11. CASE PassWriteback
  BY <1>11 DEF GuardInv, LiveRequests, PassWriteback, server, history, NoPass, Writeback
<1>12. CASE AckDetail
  BY <1>12 DEF GuardInv, LiveRequests, AckDetail, server, history, NoPass
<1>13. CASE AckDraft
  BY <1>13 DEF GuardInv, LiveRequests, AckDraft, server, history, NoPass
<1>14. CASE AckRow
  BY <1>14 DEF GuardInv, LiveRequests, AckRow, server, history, NoPass
<1>15. CASE AckFloor
  BY <1>15 DEF GuardInv, LiveRequests, AckFloor, server, history, NoPass
<1>16. CASE PassFinish
  BY <1>16 DEF GuardInv, LiveRequests, PassFinish, device, server, history
<1>17. CASE PassEnd
  BY <1>17 DEF GuardInv, LiveRequests, PassEnd, device, server, history, NoPass
<1>18. ASSUME NEW r \in wire, OfficeHandles(r) PROVE GuardInv'
  <2>1. \A s \in wire : s.live /\ r.live => s = r
    BY <1>18, OneLiveRequest DEF GuardInv
  <2>2. LiveRequests'
    BY <1>18, <2>1 DEF GuardInv, LiveRequests, OfficeHandles, Answer
  <2>3. r.live => \E s, v : Answer(s, v) /\ (s = "synced" => r.doc \in accepted')
    BY <1>18 DEF OfficeHandles
  <2>4. r.live => /\ pass.phase = "waiting" /\ pass'.phase = "answered"
                  /\ pass'.item.doc = pass.item.doc /\ pass'.item.lgen = pass.item.lgen
                  /\ pass'.item.gen = pass.item.gen
    BY <1>18, <2>3, AnswerKeeps DEF GuardInv, LiveRequests
  <2>5. ~r.live => pass' = pass
    BY <1>18 DEF OfficeHandles
  <2> QED
    BY <1>18, <2>2, <2>4, <2>5 DEF GuardInv, OfficeHandles, device, LiveRequests
<1>19. ASSUME NEW r \in wire, OfficeRefuses(r) PROVE GuardInv'
  <2>1. \A s \in wire : s.live /\ r.live => s = r
    BY <1>19, OneLiveRequest DEF GuardInv
  <2>2. LiveRequests'
    BY <1>19, <2>1 DEF GuardInv, LiveRequests, OfficeRefuses, Answer
  <2>3. r.live => \E s, v : Answer(s, v) /\ (s = "synced" => r.doc \in accepted')
    BY <1>19 DEF OfficeRefuses
  <2>4. r.live => /\ pass.phase = "waiting" /\ pass'.phase = "answered"
                  /\ pass'.item.doc = pass.item.doc /\ pass'.item.lgen = pass.item.lgen
                  /\ pass'.item.gen = pass.item.gen
    BY <1>19, <2>3, AnswerKeeps DEF GuardInv, LiveRequests
  <2>5. ~r.live => pass' = pass
    BY <1>19 DEF OfficeRefuses
  <2> QED
    BY <1>19, <2>2, <2>4, <2>5 DEF GuardInv, OfficeRefuses, device, history, LiveRequests
<1>20. CASE RemoveRow
  BY <1>20 DEF GuardInv, LiveRequests, RemoveRow, TypeOK, Budgets
<1>21. CASE RestoreRow
  BY <1>21 DEF GuardInv, LiveRequests, RestoreRow
<1>22. CASE CrashRestart
  BY <1>22 DEF GuardInv, LiveRequests, CrashRestart, NoPass, history, TypeOK, Requests
<1>23. CASE UNCHANGED vars
  BY <1>23 DEF GuardInv, LiveRequests, vars, device, engine, server, history
<1> QED
  BY <1>1, <1>2, <1>3, <1>4, <1>5, <1>6, <1>7, <1>8, <1>9, <1>10, <1>11, <1>12, <1>13,
     <1>14, <1>15, <1>16, <1>17, <1>18, <1>19, <1>20, <1>21, <1>22, <1>23
     DEF Next, ScreenNext, EngineNext, OfficeNext, Quiet

(* With one sketch to send, no tap between device writes and no Undo, the stored row of the
   generation a pass holds is the row it sent: a result lands on the edit it belongs to. *)
THEOREM GenerationIsIdentity ==
    ASSUME ~OtherRows, ~TapsMidWrite, MaxRemovals = 0
    PROVE  Spec => []GenerationIdentifiesRow
<1>1. Init => GuardInv
  BY NullTypes DEF Init, GuardInv, LiveRequests, NoPass, NoRow
<1>2. GuardInv /\ TypeOK /\ TypeOK' /\ [Next]_vars => GuardInv'
  BY GuardStep
<1>3. GuardInv => GenerationIdentifiesRow
  BY DEF GuardInv, GenerationIdentifiesRow
<1> QED
  BY <1>1, <1>2, <1>3, TypeCorrect, PTL DEF Spec

-----------------------------------------------------------------------------
(* Field work is never lost.  An unacknowledged row, and the copy of it that a pass
   holds until its acknowledgement has retired the draft, are covered: the durable
   draft is as new as they are, and what the editor still has to write or to stage is
   newer. *)
Unstaged(e) == e.persisted >= e.gen /\ e.gen > e.staged

Covers(d, e, c, r) ==
    /\ r.lgen >= 1 /\ d.gen >= r.lgen
    /\ d.gen = r.lgen => d.doc = r.doc
    /\ e.gen = 0 \/ e.gen >= r.lgen
    /\ e.gen = r.lgen => ~Unstaged(e) /\ ~e.err
    /\ \A i \in 1..Len(c) : c[i].gen > r.lgen

Covered(r) == Covers(draft, editor, chain, r)

Held == pass.phase = "waiting" \/ (pass.phase \in {"answered", "ackDetail", "ackDraft"}
                                     /\ pass.item.state # "locked")

(* The persist chain is the newest work in order, and what is durable and not staged
   is the draft. *)
ScreenInv ==
    /\ editor.staged <= editor.persisted /\ editor.persisted <= editor.gen
    /\ editor.err => editor.persisted < editor.gen
    /\ editor.open => editor.gen >= 1
    /\ draft.gen = 0 => draft.doc = 0
    /\ \A i \in 1..Len(chain) :
         /\ editor.persisted < chain[i].gen /\ chain[i].gen <= editor.gen
         /\ chain[i].gen = editor.gen => chain[i].doc = editor.doc
         /\ \A j \in 1..Len(chain) : i < j => chain[i].gen < chain[j].gen
    /\ Unstaged(editor) => draft.gen >= editor.gen /\ (draft.gen = editor.gen => draft.doc = editor.doc)

(* While the screen asks or is being opened nothing is written and nothing is queued;
   while a conflict is reviewed its row stays. *)
OfferInv ==
    editor.offer # NoSketch =>
        /\ row.state \notin Active /\ ~Held
        /\ chain = <<>> /\ editor.persisted = 0 /\ ~editor.err /\ editor.gen >= 1
OpeningInv ==
    opening.step # "no" =>
        /\ editor = NoEditor /\ chain = <<>>
        /\ draft.gen = 0 \/ (draft.gen = opening.draft.gen /\ draft.doc = opening.draft.doc)
ReviewInv ==
    review # NoReview =>
        /\ row.state = "conflict" /\ row.gen = review.gen /\ row.lgen = review.lgen /\ review.office = row.srv
        /\ chain = <<>> /\ opening.step = "no" /\ (editor.gen = 0 \/ editor.ui = "conflict")
        /\ draft.gen = row.lgen => review.local = row.doc

PassInv ==
    /\ pass.phase = "waiting" => row.state \in {"pending", "failed"} /\ pass.item.state \in {"pending", "failed"}
    /\ pass.phase \in {"ackDetail", "ackDraft"} => pass.item.state = "synced" /\ pass.item.doc \in accepted
    /\ row.state = "conflict" => pass.phase \notin AckPhases
    /\ row.state = "conflict" /\ pass.phase = "answered" => pass.item = row
    /\ Held /\ row.state \in Active /\ (row.gen # pass.item.gen \/ pass.phase \in AckPhases)
         => row.lgen > pass.item.lgen \/ pass.item.state = "conflict"

(* A copy of Office's document is Office's own work or an accepted Field document. *)
Theirs(s) == s.doc <= 0 \/ s.doc \in accepted
TheirsInv ==
    /\ Theirs(office) /\ Theirs(detail) /\ Theirs(opening.server) /\ Theirs(pass.item.srv)
    /\ Theirs(row.srv) /\ Theirs(review.office) /\ Theirs(editor.offer)

RowCovered == row.state \in Active => Covered(row)
HeldCovered == Held => Covered(pass.item)

KeepInv ==
    /\ NewestEditKept /\ RowCovered /\ HeldCovered
    /\ ScreenInv /\ OfferInv /\ OpeningInv /\ ReviewInv /\ PassInv /\ TheirsInv
    /\ removed = NoRow

(* The head of the persist chain is newer than what is durable and older than the rest. *)
LEMMA HeadOfChain ==
    ASSUME TypeOK, ScreenInv, chain # <<>>
    PROVE  /\ 1 \in 1..Len(chain) /\ Head(chain) = chain[1] /\ chain[1] \in Drafts /\ chain[1].gen \in Nat
           /\ editor.persisted < chain[1].gen /\ chain[1].gen <= editor.gen
           /\ chain[1].gen = editor.gen => chain[1].doc = editor.doc
           /\ \A i \in 1..Len(Tail(chain)) : /\ i + 1 \in 1..Len(chain) /\ Tail(chain)[i] = chain[i + 1]
                                             /\ Tail(chain)[i].gen > chain[1].gen
<1>1. chain \in Seq(Drafts) /\ Len(chain) \in Nat /\ Len(chain) >= 1 /\ 1 \in 1..Len(chain)
  BY DEF TypeOK
<1>2. Head(chain) = chain[1] /\ chain[1] \in Drafts /\ chain[1].gen \in Nat
  <2>1. Head(chain) = chain[1] /\ chain[1] \in Drafts
    BY <1>1
  <2> QED
    BY <2>1 DEF Drafts
<1>3. /\ editor.persisted < chain[1].gen /\ chain[1].gen <= editor.gen
      /\ chain[1].gen = editor.gen => chain[1].doc = editor.doc
  BY <1>1 DEF ScreenInv
<1>4. ASSUME NEW i \in 1..Len(Tail(chain))
      PROVE  i + 1 \in 1..Len(chain) /\ 1 < i + 1 /\ Tail(chain)[i] = chain[i + 1]
  BY <1>1
<1>5. ASSUME NEW i \in 1..Len(Tail(chain))  PROVE Tail(chain)[i].gen > chain[1].gen
  <2>1. chain[1].gen < chain[i + 1].gen
    BY <1>1, <1>4 DEF ScreenInv
  <2>2. chain[i + 1].gen \in Nat
    <3>1. chain[i + 1] \in Drafts
      BY <1>1, <1>4
    <3> QED
      BY <3>1 DEF Drafts
  <2> QED
    BY <2>1, <2>2, <1>2, <1>4
<1> QED
  BY <1>1, <1>2, <1>3, <1>4, <1>5

(* The screen is built from what the device and Office hold; nothing is lost by it. *)
LEMMA KeepOpenFinish ==
    ASSUME ~OtherRows, ~TapsMidWrite, MaxRemovals = 0, KeepInv, SyncInv, TypeOK, TypeOK',
           OpenFinish
    PROVE  KeepInv'
<1>t. /\ editor \in Editors /\ row \in Rows /\ draft \in Drafts /\ pass \in Passes /\ opening \in Openings
      /\ review \in Reviews /\ chain \in Seq(Drafts) /\ \A i \in 1..Len(chain) : chain[i] \in Drafts
  BY DEF TypeOK
<1>1. NewestEditKept'
  <2>1. CASE draft' = draft
    BY <2>1 DEF OpenFinish, KeepInv, NewestEditKept, history
  <2>2. CASE draft' = NoDraft /\ opening.draft.gen > 0 /\ opening.server.doc = opening.draft.doc
    BY <2>2, <1>t DEF OpenFinish, KeepInv, NewestEditKept, ScreenInv, OpeningInv, TheirsInv, Theirs,
       Docs, Drafts, history
  <2> QED
    BY <2>1, <2>2 DEF OpenFinish, InitialDecision
<1>2. RowCovered'
  BY <1>t DEF OpenFinish, LocalEditor, ServerEditor, InitialDecision, KeepInv, RowCovered, Covers,
     HeldCovered, Covered, Held, ScreenInv, Unstaged, OfferInv, OpeningInv, ReviewInv, PassInv, Active,
     Editors, Rows, Drafts, Passes, Openings, Reviews, NoSketch, NoEditor, NoRow, NoReview, NoOpening,
     NoDraft, AckPhases, engine, server, history, Tap, Burst
<1>3. HeldCovered'
  BY <1>t DEF OpenFinish, LocalEditor, ServerEditor, InitialDecision, KeepInv, RowCovered, Covers,
     HeldCovered, Covered, Held, ScreenInv, Unstaged, OfferInv, OpeningInv, ReviewInv, PassInv, Active,
     Editors, Rows, Drafts, Passes, Openings, Reviews, NoSketch, NoEditor, NoRow, NoReview, NoOpening,
     NoDraft, AckPhases, engine, server, history, Tap, Burst
<1>4. ScreenInv'
  <2>1. chain' = <<>>
    BY DEF OpenFinish, KeepInv, OpeningInv
  <2>2. opening.draft \in Drafts
    BY <1>t DEF Openings
  <2>3. /\ editor'.staged = 0 /\ editor'.persisted = 0 /\ ~editor'.err
        /\ editor'.gen \in Nat /\ (editor'.open => editor'.gen >= 1)
    BY <2>2 DEF OpenFinish, LocalEditor, ServerEditor, InitialDecision, NoEditor, Drafts
  <2>4. draft' = draft \/ draft' = NoDraft
    BY DEF OpenFinish
  <2>5. draft'.gen = 0 => draft'.doc = 0
    BY <2>4 DEF KeepInv, ScreenInv, NoDraft
  <2>6. ~Unstaged(editor')
    BY <2>3 DEF Unstaged
  <2> QED
    BY <2>1, <2>3, <2>5, <2>6 DEF ScreenInv
<1>5. OfferInv'
  <2>1. editor'.offer # NoSketch => editor' = [LocalEditor(opening.draft) EXCEPT !.offer = opening.server]
                                    /\ opening.draft.gen > 0 /\ row.state \notin Active
    BY <1>t DEF OpenFinish, InitialDecision, LocalEditor, ServerEditor, NoEditor, NoSketch, Openings,
       Drafts
  <2>2. row.state \notin Active => ~Held'
    BY DEF OpenFinish, KeepInv, PassInv, Held, Active, Tap, Burst, AckPhases, engine
  <2>3. editor'.offer # NoSketch => editor'.persisted = 0 /\ ~editor'.err /\ editor'.gen >= 1
    <3> SUFFICES ASSUME editor'.offer # NoSketch
                 PROVE  editor'.persisted = 0 /\ ~editor'.err /\ editor'.gen >= 1
      OBVIOUS
    <3>1. opening.draft.gen \in Nat /\ opening.draft.gen > 0
      BY <2>1, <1>t DEF Openings, Drafts
    <3>2. editor' = [NoEditor EXCEPT !.open = TRUE, !.doc = opening.draft.doc, !.gen = opening.draft.gen,
                                     !.ver = opening.draft.ver, !.offer = opening.server]
      BY <2>1 DEF LocalEditor, NoEditor
    <3>3. editor'.persisted = 0 /\ editor'.err = FALSE /\ editor'.gen = opening.draft.gen
      BY <3>2 DEF NoEditor
    <3> QED
      BY <3>1, <3>3
  <2>4. chain' = <<>> /\ row' = row
    BY DEF OpenFinish, KeepInv, OpeningInv
  <2> QED
    BY <2>1, <2>2, <2>3, <2>4 DEF OfferInv
<1>6. OpeningInv'
  BY <1>t DEF OpenFinish, LocalEditor, ServerEditor, InitialDecision, KeepInv, OpeningInv, ScreenInv,
     Editors, Rows, Drafts, Passes, Openings, Reviews, NoSketch, NoEditor, NoRow, NoReview, NoOpening,
     NoDraft, AckPhases, engine, server, history, Tap, Burst
<1>7. ReviewInv'
  BY <1>t DEF OpenFinish, LocalEditor, ServerEditor, InitialDecision, KeepInv, ReviewInv, OfferInv,
     OpeningInv, RowCovered, Covered, Active, PassInv, Editors, Rows, Drafts, Passes, Openings, Reviews,
     NoSketch, NoEditor, NoRow, NoReview, NoOpening, NoDraft, AckPhases, engine, server, history, Tap,
     Burst
<1>8. PassInv'
  BY QuietSteps DEF Quiet, KeepInv, PassInv, Held
<1>9. TheirsInv'
  BY <1>t DEF OpenFinish, LocalEditor, ServerEditor, InitialDecision, KeepInv, TheirsInv, Theirs,
     ReviewInv, Editors, Rows, Drafts, Passes, Openings, Reviews, NoSketch, NoEditor, NoRow, NoReview,
     NoOpening, NoDraft, AckPhases, engine, server, history, Tap, Burst
<1>10. removed' = NoRow
  BY DEF OpenFinish, KeepInv
<1> QED
  BY <1>1, <1>2, <1>3, <1>4, <1>5, <1>6, <1>7, <1>8, <1>9, <1>10 DEF KeepInv

(* Keeping the local sketch queues its document again. *)
LEMMA KeepOpenKeepMine ==
    ASSUME ~OtherRows, ~TapsMidWrite, MaxRemovals = 0, KeepInv, SyncInv, TypeOK, TypeOK',
           OpenKeepMine
    PROVE  KeepInv'
<1>t. /\ editor \in Editors /\ row \in Rows /\ draft \in Drafts /\ pass \in Passes /\ opening \in Openings
      /\ review \in Reviews /\ chain \in Seq(Drafts) /\ \A i \in 1..Len(chain) : chain[i] \in Drafts
  BY DEF TypeOK
<1>1. NewestEditKept'
  BY <1>t DEF OpenKeepMine, Adopt, AsDraft, KeepInv, NewestEditKept, RowCovered, Covers, HeldCovered,
     Covered, Held, ScreenInv, Unstaged, ReviewInv, PassInv, TheirsInv, Theirs, Editors, Rows, Drafts,
     Passes, Openings, Reviews, NoSketch, NoRow, NoReview, AckPhases, engine, server, Tap, Burst
<1>2. RowCovered'
  BY <1>t DEF OpenKeepMine, Adopt, AsDraft, KeepInv, RowCovered, Covers, HeldCovered, Covered, Held,
     ScreenInv, Unstaged, OfferInv, OpeningInv, ReviewInv, PassInv, Active, Editors, Rows, Drafts,
     Passes, Openings, Reviews, NoSketch, NoEditor, NoRow, NoReview, AckPhases, engine, server, Tap,
     Burst
<1>3. HeldCovered'
  BY <1>t DEF OpenKeepMine, Adopt, AsDraft, KeepInv, RowCovered, Covers, HeldCovered, Covered, Held,
     ScreenInv, Unstaged, OfferInv, OpeningInv, ReviewInv, PassInv, Active, Editors, Rows, Drafts,
     Passes, Openings, Reviews, NoSketch, NoEditor, NoRow, NoReview, AckPhases, engine, server, Tap,
     Burst
<1>4. ScreenInv'
  BY <1>t DEF OpenKeepMine, Adopt, AsDraft, KeepInv, ScreenInv, Unstaged, OfferInv, OpeningInv,
     ReviewInv, Editors, Rows, Drafts, Passes, Openings, Reviews, NoSketch, NoEditor, NoRow, NoReview,
     AckPhases, engine, server, Tap, Burst
<1>5. OfferInv'
  BY <1>t DEF OpenKeepMine, Adopt, AsDraft, KeepInv, OfferInv, OpeningInv, Held, Active, ReviewInv,
     Editors, Rows, Drafts, Passes, Openings, Reviews, NoSketch, NoEditor, NoRow, NoReview, AckPhases,
     engine, server, Tap, Burst
<1>6. OpeningInv'
  BY <1>t DEF OpenKeepMine, Adopt, AsDraft, KeepInv, OpeningInv, ScreenInv, Editors, Rows, Drafts,
     Passes, Openings, Reviews, NoSketch, NoEditor, NoRow, NoReview, AckPhases, engine, server, Tap,
     Burst
<1>7. ReviewInv'
  BY <1>t DEF OpenKeepMine, Adopt, AsDraft, KeepInv, ReviewInv, OfferInv, OpeningInv, RowCovered,
     Covered, Active, PassInv, Editors, Rows, Drafts, Passes, Openings, Reviews, NoSketch, NoEditor,
     NoRow, NoReview, AckPhases, engine, server, Tap, Burst
<1>8. PassInv'
  BY QuietSteps DEF Quiet, KeepInv, PassInv, Held
<1>9. TheirsInv'
  BY <1>t DEF OpenKeepMine, Adopt, AsDraft, KeepInv, TheirsInv, Theirs, ReviewInv, Editors, Rows,
     Drafts, Passes, Openings, Reviews, NoSketch, NoRow, NoReview, AckPhases, engine, server, Tap, Burst
<1>10. removed' = NoRow
  BY DEF OpenKeepMine, KeepInv
<1> QED
  BY <1>1, <1>2, <1>3, <1>4, <1>5, <1>6, <1>7, <1>8, <1>9, <1>10 DEF KeepInv

(* A commit extends the persist chain with the newest generation. *)
LEMMA KeepCommit ==
    ASSUME ~OtherRows, ~TapsMidWrite, MaxRemovals = 0, KeepInv, SyncInv, TypeOK, TypeOK',
           Commit
    PROVE  KeepInv'
<1>t. /\ editor \in Editors /\ row \in Rows /\ draft \in Drafts /\ pass \in Passes /\ opening \in Openings
      /\ review \in Reviews /\ chain \in Seq(Drafts) /\ \A i \in 1..Len(chain) : chain[i] \in Drafts
  BY DEF TypeOK
<1>1. NewestEditKept'
  BY <1>t DEF Commit, AsDraft, KeepInv, NewestEditKept, RowCovered, Covers, HeldCovered, Covered, Held,
     ScreenInv, Unstaged, ReviewInv, PassInv, TheirsInv, Theirs, Editors, Rows, Drafts, Passes,
     Openings, Reviews, NoSketch, NoRow, NoReview, AckPhases, engine, server
<1>2. RowCovered'
  BY <1>t DEF Commit, AsDraft, KeepInv, RowCovered, Covers, HeldCovered, Covered, Held, ScreenInv,
     Unstaged, OfferInv, OpeningInv, ReviewInv, PassInv, Active, Editors, Rows, Drafts, Passes,
     Openings, Reviews, NoSketch, NoEditor, NoRow, NoReview, AckPhases, engine, server
<1>3. HeldCovered'
  BY SMTT(30), <1>t DEF Commit, AsDraft, KeepInv, RowCovered, Covers, HeldCovered, Covered, Held, ScreenInv,
     Unstaged, OfferInv, OpeningInv, ReviewInv, PassInv, Active, Editors, Rows, Drafts, Passes,
     Openings, Reviews, NoSketch, NoEditor, NoRow, NoReview, AckPhases, engine, server
<1>4. ScreenInv'
  <2>1. editor' = [editor EXCEPT !.doc = budget.commits + 1, !.gen = editor.gen + 1, !.due = TRUE]
        /\ chain' = Append(chain, AsDraft(editor')) /\ draft' = draft
    BY DEF Commit
  <2>t. AsDraft(editor') \in Drafts
    BY DraftTypes DEF TypeOK
  <2>2. \A i \in 1..Len(chain') : \/ i \in 1..Len(chain) /\ chain'[i] = chain[i]
                                  \/ i = Len(chain) + 1 /\ chain'[i] = AsDraft(editor')
    <3>1. Len(chain') = Len(chain) + 1 /\ chain'[Len(chain) + 1] = AsDraft(editor')
      BY <2>1, <2>t, <1>t
    <3>2. \A i \in 1..Len(chain) : chain'[i] = chain[i]
      BY <2>1, <2>t, <1>t
    <3>3. Len(chain) \in Nat
      BY <1>t
    <3> HIDE <2>1
    <3>4. \A n \in Nat : \A i \in 1..(n + 1) : i \in 1..n \/ i = n + 1
      OBVIOUS
    <3> TAKE i \in 1..Len(chain')
    <3>5. i \in 1..Len(chain) \/ i = Len(chain) + 1
      BY <3>1, <3>3, <3>4
    <3>6. CASE i \in 1..Len(chain)
      BY <3>2, <3>6
    <3>7. CASE i = Len(chain) + 1
      BY <3>1, <3>7
    <3> QED
      BY <3>5, <3>6, <3>7
  <2>3. /\ editor'.gen = editor.gen + 1 /\ editor'.persisted = editor.persisted /\ editor'.err = editor.err
        /\ editor'.staged = editor.staged /\ AsDraft(editor').gen = editor.gen + 1
        /\ AsDraft(editor').doc = editor'.doc
    BY <2>1, <1>t DEF Editors, AsDraft
  <2>4. ~Unstaged(editor')
    BY <2>3, <1>t DEF KeepInv, ScreenInv, Unstaged, Editors
  <2> HIDE <2>1
  <2>g. /\ editor.gen \in Nat /\ editor.persisted <= editor.gen /\ editor.persisted \in Nat
        /\ \A i \in 1..Len(chain) : /\ chain[i].gen \in Nat /\ editor.persisted < chain[i].gen
                                    /\ chain[i].gen <= editor.gen
    BY <1>t DEF KeepInv, ScreenInv, Editors, Drafts
  <2>5. \A i \in 1..Len(chain') :
          /\ editor'.persisted < chain'[i].gen /\ chain'[i].gen <= editor'.gen
          /\ chain'[i].gen = editor'.gen => chain'[i].doc = editor'.doc
    <3> TAKE i \in 1..Len(chain')
    <3>1. CASE i \in 1..Len(chain) /\ chain'[i] = chain[i]
      BY <3>1, <2>3, <2>g
    <3>2. CASE i = Len(chain) + 1 /\ chain'[i] = AsDraft(editor')
      BY <3>2, <2>3, <2>g
    <3> QED
      BY <3>1, <3>2, <2>2
  <2>6. \A i, j \in 1..Len(chain') : i < j => chain'[i].gen < chain'[j].gen
    <3> TAKE i, j \in 1..Len(chain')
    <3> HAVE i < j
    <3>1. i \in 1..Len(chain) /\ chain'[i] = chain[i]
      BY <2>2, <1>t
    <3>2. CASE j \in 1..Len(chain) /\ chain'[j] = chain[j]
      BY <3>1, <3>2 DEF KeepInv, ScreenInv
    <3>3. CASE j = Len(chain) + 1 /\ chain'[j] = AsDraft(editor')
      BY <3>1, <3>3, <2>3, <2>g
    <3> QED
      BY <3>2, <3>3, <2>2
  <2> QED
    BY <2>1, <2>3, <2>4, <2>5, <2>6, <1>t DEF KeepInv, ScreenInv, Editors
<1>5. OfferInv'
  BY <1>t DEF Commit, AsDraft, KeepInv, OfferInv, OpeningInv, Held, Active, ReviewInv, Editors, Rows,
     Drafts, Passes, Openings, Reviews, NoSketch, NoEditor, NoRow, NoReview, engine, server
<1>6. OpeningInv'
  BY <1>t DEF Commit, AsDraft, KeepInv, OpeningInv, ScreenInv, Editors, Rows, Drafts, Passes, Openings,
     Reviews, NoSketch, NoEditor, NoRow, NoReview, engine, server
<1>7. ReviewInv'
  <2>1. review = NoReview
    BY DEF Commit, KeepInv, ReviewInv, ScreenInv
  <2> QED
    BY <2>1 DEF Commit, ReviewInv
<1>8. PassInv'
  BY QuietSteps DEF Quiet, KeepInv, PassInv, Held
<1>9. TheirsInv'
  BY <1>t DEF Commit, AsDraft, KeepInv, TheirsInv, Theirs, ReviewInv, Editors, Rows, Drafts, Passes,
     Openings, Reviews, NoSketch, NoRow, NoReview, engine, server
<1>10. removed' = NoRow
  BY DEF Commit, KeepInv
<1> QED
  BY <1>1, <1>2, <1>3, <1>4, <1>5, <1>6, <1>7, <1>8, <1>9, <1>10 DEF KeepInv

(* A write drains the head of the chain into the draft. *)
LEMMA KeepPersist ==
    ASSUME ~OtherRows, ~TapsMidWrite, MaxRemovals = 0, KeepInv, SyncInv, TypeOK, TypeOK',
           Persist
    PROVE  KeepInv'
<1>t. /\ editor \in Editors /\ row \in Rows /\ draft \in Drafts /\ pass \in Passes /\ opening \in Openings
      /\ review \in Reviews /\ chain \in Seq(Drafts) /\ \A i \in 1..Len(chain) : chain[i] \in Drafts
  BY DEF TypeOK
<1>a. /\ 1 \in 1..Len(chain) /\ Head(chain) = chain[1] /\ chain[1] \in Drafts /\ chain[1].gen \in Nat
      /\ editor.persisted < chain[1].gen /\ chain[1].gen <= editor.gen
      /\ chain[1].gen = editor.gen => chain[1].doc = editor.doc
  BY HeadOfChain DEF Persist, KeepInv
<1>b. \A i \in 1..Len(Tail(chain)) : /\ i + 1 \in 1..Len(chain) /\ Tail(chain)[i] = chain[i + 1]
                                    /\ Tail(chain)[i].gen > chain[1].gen
  BY HeadOfChain DEF Persist, KeepInv
<1>c. /\ draft' \in Drafts /\ draft'.gen >= chain[1].gen
      /\ draft' = draft \/ (draft'.gen = chain[1].gen /\ draft'.doc = chain[1].doc)
      /\ draft'.gen = chain[1].gen => draft'.doc = chain[1].doc
  <2>1. draft' \in Drafts /\ draft' = WriteDraft(draft, chain[1], detail)
    BY <1>a DEF Persist, TypeOK
  <2>2. CASE draft.gen > chain[1].gen
    BY <2>1, <2>2, <1>a, <1>t DEF WriteDraft, Drafts
  <2>3. CASE ~(draft.gen > chain[1].gen)
    BY <2>1, <2>3, <1>a, <1>t DEF WriteDraft, Drafts
  <2> QED
    BY <2>2, <2>3
<1>d. /\ chain' = Tail(chain) /\ editor'.gen = editor.gen /\ editor'.doc = editor.doc /\ editor'.staged = editor.staged
      /\ editor'.open = editor.open /\ editor'.persisted = chain[1].gen /\ (editor'.err => chain[1].gen < editor.gen)
  <2>1. MaxOf(editor.persisted, Head(chain).gen) = chain[1].gen
    BY <1>a, <1>t DEF MaxOf, Editors
  <2>2. editor' = [editor EXCEPT !.persisted = chain[1].gen, !.err = editor.err /\ chain[1].gen < editor.gen]
    BY <2>1 DEF Persist
  <2> QED
    BY <2>2, <1>t DEF Persist, Editors
<1>e. ASSUME NEW r \in Rows, Covered(r)  PROVE Covers(draft', editor', chain', r)
  BY SMTT(30), <1>a, <1>b, <1>c, <1>d, <1>e, <1>t DEF Covered, Covers, Unstaged, Rows, Drafts, Editors
<1>f. \A i \in 1..Len(chain') :
        /\ editor'.persisted < chain'[i].gen /\ chain'[i].gen <= editor'.gen
        /\ chain'[i].gen = editor'.gen => chain'[i].doc = editor'.doc
        /\ \A j \in 1..Len(chain') : i < j => chain'[i].gen < chain'[j].gen
  BY <1>a, <1>b, <1>d, <1>t DEF KeepInv, ScreenInv
<1>1. NewestEditKept'
  BY <1>t DEF Persist, WriteDraft, MaxOf, KeepInv, NewestEditKept, RowCovered, Covers, HeldCovered,
     Covered, Held, ScreenInv, Unstaged, ReviewInv, PassInv, TheirsInv, Theirs, Editors, Rows, Drafts,
     Passes, Openings, Reviews, NoSketch, NoRow, NoReview, AckPhases, engine, server
<1>2. RowCovered'
  BY <1>e, <1>t DEF Persist, KeepInv, RowCovered, Covered
<1>3. HeldCovered'
  BY <1>e, <1>t DEF Persist, KeepInv, HeldCovered, Covered, Held, Passes, engine
<1>4. ScreenInv'
  <2>1. Unstaged(editor') => draft'.gen >= editor'.gen /\ (draft'.gen = editor'.gen => draft'.doc = editor'.doc)
    BY <1>a, <1>c, <1>d, <1>t DEF Unstaged, Drafts, Editors
  <2> QED
    BY <2>1, <1>a, <1>c, <1>d, <1>f, <1>t DEF KeepInv, ScreenInv, Editors, Drafts
<1>5. OfferInv'
  BY <1>t DEF Persist, WriteDraft, MaxOf, KeepInv, OfferInv, OpeningInv, Held, Active, ReviewInv,
     Editors, Rows, Drafts, Passes, Openings, Reviews, NoSketch, NoEditor, NoRow, NoReview, engine,
     server
<1>6. OpeningInv'
  BY <1>t DEF Persist, WriteDraft, MaxOf, KeepInv, OpeningInv, ScreenInv, Editors, Rows, Drafts, Passes,
     Openings, Reviews, NoSketch, NoEditor, NoRow, engine, server
<1>7. ReviewInv'
  BY <1>t DEF Persist, WriteDraft, MaxOf, KeepInv, ReviewInv, OfferInv, OpeningInv, RowCovered, Covered,
     Active, PassInv, Editors, Rows, Drafts, Passes, Openings, Reviews, NoSketch, NoEditor, NoRow,
     NoReview, AckPhases, engine, server
<1>8. PassInv'
  BY QuietSteps DEF Quiet, KeepInv, PassInv, Held
<1>9. TheirsInv'
  BY <1>t DEF Persist, WriteDraft, MaxOf, KeepInv, TheirsInv, Theirs, ReviewInv, Editors, Rows, Drafts,
     Passes, Openings, Reviews, NoSketch, NoRow, NoReview, engine, server
<1>10. removed' = NoRow
  BY DEF Persist, KeepInv
<1> QED
  BY <1>1, <1>2, <1>3, <1>4, <1>5, <1>6, <1>7, <1>8, <1>9, <1>10 DEF KeepInv

(* A failed write leaves a newer generation to be retried. *)
LEMMA KeepPersistFails ==
    ASSUME ~OtherRows, ~TapsMidWrite, MaxRemovals = 0, KeepInv, SyncInv, TypeOK, TypeOK',
           PersistFails
    PROVE  KeepInv'
<1>t. /\ editor \in Editors /\ row \in Rows /\ draft \in Drafts /\ pass \in Passes /\ opening \in Openings
      /\ review \in Reviews /\ chain \in Seq(Drafts) /\ \A i \in 1..Len(chain) : chain[i] \in Drafts
  BY DEF TypeOK
<1>a. /\ 1 \in 1..Len(chain) /\ Head(chain) = chain[1] /\ chain[1] \in Drafts /\ chain[1].gen \in Nat
      /\ editor.persisted < chain[1].gen /\ chain[1].gen <= editor.gen
      /\ chain[1].gen = editor.gen => chain[1].doc = editor.doc
  BY HeadOfChain DEF PersistFails, KeepInv
<1>b. \A i \in 1..Len(Tail(chain)) : /\ i + 1 \in 1..Len(chain) /\ Tail(chain)[i] = chain[i + 1]
                                    /\ Tail(chain)[i].gen > chain[1].gen
  BY HeadOfChain DEF PersistFails, KeepInv
<1>d. /\ chain' = Tail(chain) /\ draft' = draft /\ editor'.gen = editor.gen /\ editor'.doc = editor.doc
      /\ editor'.staged = editor.staged /\ editor'.open = editor.open /\ editor'.persisted = editor.persisted
  BY <1>t DEF PersistFails, Editors
<1>e. ASSUME NEW r \in Rows, Covered(r)  PROVE Covers(draft', editor', chain', r)
  BY <1>a, <1>b, <1>d, <1>e, <1>t DEF Covered, Covers, Unstaged, Rows, Drafts, Editors, KeepInv,
     ScreenInv
<1>f. \A i \in 1..Len(chain') :
        /\ editor'.persisted < chain'[i].gen /\ chain'[i].gen <= editor'.gen
        /\ chain'[i].gen = editor'.gen => chain'[i].doc = editor'.doc
        /\ \A j \in 1..Len(chain') : i < j => chain'[i].gen < chain'[j].gen
  BY <1>a, <1>b, <1>d, <1>t DEF KeepInv, ScreenInv
<1>1. NewestEditKept'
  BY <1>t DEF PersistFails, KeepInv, NewestEditKept, RowCovered, Covers, HeldCovered, Covered, Held,
     ScreenInv, Unstaged, ReviewInv, PassInv, TheirsInv, Theirs, Editors, Rows, Drafts, Passes,
     Openings, Reviews, NoSketch, NoRow, NoReview, AckPhases, engine, server, history
<1>2. RowCovered'
  BY <1>e, <1>t DEF PersistFails, KeepInv, RowCovered, Covered
<1>3. HeldCovered'
  BY <1>e, <1>t DEF PersistFails, KeepInv, HeldCovered, Covered, Held, Passes, engine
<1>4. ScreenInv'
  <2>1. editor.persisted < editor.gen /\ ~Unstaged(editor')
    BY <1>a, <1>d, <1>t DEF Unstaged, Editors
  <2> QED
    BY <2>1, <1>d, <1>f, <1>t DEF KeepInv, ScreenInv, Editors, Drafts
<1>5. OfferInv'
  BY <1>t DEF PersistFails, KeepInv, OfferInv, OpeningInv, Held, Active, ReviewInv, Editors, Rows,
     Drafts, Passes, Openings, Reviews, NoSketch, NoEditor, NoRow, NoReview, engine, server, history
<1>6. OpeningInv'
  BY <1>t DEF PersistFails, KeepInv, OpeningInv, ScreenInv, Editors, Rows, Drafts, Passes, Openings,
     Reviews, NoSketch, NoEditor, NoRow, engine, server, history
<1>7. ReviewInv'
  BY <1>t DEF PersistFails, KeepInv, ReviewInv, OfferInv, OpeningInv, RowCovered, Covered, Active,
     PassInv, Editors, Rows, Drafts, Passes, Openings, Reviews, NoSketch, NoEditor, NoRow, NoReview,
     AckPhases, engine, server, history
<1>8. PassInv'
  BY QuietSteps DEF Quiet, KeepInv, PassInv, Held
<1>9. TheirsInv'
  BY <1>t DEF PersistFails, KeepInv, TheirsInv, Theirs, ReviewInv, Editors, Rows, Drafts, Passes,
     Openings, Reviews, NoSketch, NoRow, NoReview, engine, server, history
<1>10. removed' = NoRow
  BY DEF PersistFails, KeepInv
<1> QED
  BY <1>1, <1>2, <1>3, <1>4, <1>5, <1>6, <1>7, <1>8, <1>9, <1>10 DEF KeepInv

(* A retry writes the current document again. *)
LEMMA KeepRetrySave ==
    ASSUME ~OtherRows, ~TapsMidWrite, MaxRemovals = 0, KeepInv, SyncInv, TypeOK, TypeOK',
           RetrySave
    PROVE  KeepInv'
<1>t. /\ editor \in Editors /\ row \in Rows /\ draft \in Drafts /\ pass \in Passes /\ opening \in Openings
      /\ review \in Reviews /\ chain \in Seq(Drafts) /\ \A i \in 1..Len(chain) : chain[i] \in Drafts
  BY DEF TypeOK
<1>1. NewestEditKept'
  BY <1>t DEF RetrySave, RunSync, AsDraft, KeepInv, NewestEditKept, RowCovered, Covers, HeldCovered,
     Covered, Held, ScreenInv, Unstaged, ReviewInv, PassInv, TheirsInv, Theirs, Editors, Rows, Drafts,
     Passes, Openings, Reviews, NoSketch, NoRow, NoPass, NoReview, AckPhases, server, history, Tap,
     Burst
<1>2. RowCovered'
  BY <1>t DEF RetrySave, RunSync, AsDraft, KeepInv, RowCovered, Covers, HeldCovered, Covered, Held,
     ScreenInv, Unstaged, OfferInv, OpeningInv, ReviewInv, PassInv, Active, Editors, Rows, Drafts,
     Passes, Openings, Reviews, NoSketch, NoEditor, NoRow, NoPass, NoReview, AckPhases, server, history,
     Tap, Burst
<1>3. HeldCovered'
  BY <1>t DEF RetrySave, RunSync, AsDraft, KeepInv, RowCovered, Covers, HeldCovered, Covered, Held,
     ScreenInv, Unstaged, OfferInv, OpeningInv, ReviewInv, PassInv, Active, Editors, Rows, Drafts,
     Passes, Openings, Reviews, NoSketch, NoEditor, NoRow, NoPass, NoReview, AckPhases, server, history,
     Tap, Burst
<1>4. ScreenInv'
  BY <1>t DEF RetrySave, RunSync, AsDraft, KeepInv, ScreenInv, Unstaged, OfferInv, OpeningInv,
     ReviewInv, Editors, Rows, Drafts, Passes, Openings, Reviews, NoSketch, NoEditor, NoRow, NoPass,
     NoReview, AckPhases, server, history, Tap, Burst
<1>5. OfferInv'
  BY <1>t DEF RetrySave, RunSync, AsDraft, KeepInv, OfferInv, OpeningInv, Held, Active, ReviewInv,
     Editors, Rows, Drafts, Passes, Openings, Reviews, NoSketch, NoEditor, NoRow, NoPass, NoReview,
     AckPhases, server, history, Tap, Burst
<1>6. OpeningInv'
  BY <1>t DEF RetrySave, RunSync, AsDraft, KeepInv, OpeningInv, ScreenInv, Editors, Rows, Drafts,
     Passes, Openings, Reviews, NoSketch, NoEditor, NoRow, NoPass, NoReview, AckPhases, server, history,
     Tap, Burst
<1>7. ReviewInv'
  BY <1>t DEF RetrySave, RunSync, AsDraft, KeepInv, ReviewInv, OfferInv, OpeningInv, RowCovered,
     Covered, Active, PassInv, Editors, Rows, Drafts, Passes, Openings, Reviews, NoSketch, NoEditor,
     NoRow, NoPass, NoReview, AckPhases, server, history, Tap, Burst
<1>8. PassInv'
  BY DEF RetrySave, RunSync, NoPass, KeepInv, PassInv, Held, AckPhases, history
<1>9. TheirsInv'
  BY <1>t DEF RetrySave, RunSync, AsDraft, KeepInv, TheirsInv, Theirs, ReviewInv, Editors, Rows, Drafts,
     Passes, Openings, Reviews, NoSketch, NoRow, NoPass, NoReview, AckPhases, server, history, Tap,
     Burst
<1>10. removed' = NoRow
  BY DEF RetrySave, KeepInv
<1> QED
  BY <1>1, <1>2, <1>3, <1>4, <1>5, <1>6, <1>7, <1>8, <1>9, <1>10 DEF KeepInv

(* The row staged is the newest durable document. *)
LEMMA KeepStage ==
    ASSUME ~OtherRows, ~TapsMidWrite, MaxRemovals = 0, KeepInv, SyncInv, TypeOK, TypeOK',
           Stage
    PROVE  KeepInv'
<1>t. /\ editor \in Editors /\ row \in Rows /\ draft \in Drafts /\ pass \in Passes /\ opening \in Openings
      /\ review \in Reviews /\ chain \in Seq(Drafts) /\ \A i \in 1..Len(chain) : chain[i] \in Drafts
  BY DEF TypeOK
<1>1. NewestEditKept'
  BY <1>t DEF Stage, RunSync, CanStage, NextGeneration, KeepInv, NewestEditKept, RowCovered, Covers,
     HeldCovered, Covered, Held, ScreenInv, Unstaged, ReviewInv, PassInv, TheirsInv, Theirs, Editors,
     Rows, Drafts, Passes, Openings, Reviews, NoSketch, NoRow, NoPass, NoReview, AckPhases, server,
     history
<1>2. RowCovered'
  BY <1>t DEF Stage, RunSync, CanStage, NextGeneration, KeepInv, RowCovered, Covers, HeldCovered,
     Covered, Held, ScreenInv, Unstaged, OfferInv, OpeningInv, ReviewInv, PassInv, Active, Editors,
     Rows, Drafts, Passes, Openings, Reviews, NoSketch, NoEditor, NoRow, NoPass, NoReview, AckPhases,
     server, history
<1>3. HeldCovered'
  BY <1>t DEF Stage, RunSync, CanStage, NextGeneration, KeepInv, RowCovered, Covers, HeldCovered,
     Covered, Held, ScreenInv, Unstaged, OfferInv, OpeningInv, ReviewInv, PassInv, Active, Editors,
     Rows, Drafts, Passes, Openings, Reviews, NoSketch, NoEditor, NoRow, NoPass, NoReview, AckPhases,
     server, history
<1>4. ScreenInv'
  BY <1>t DEF Stage, RunSync, CanStage, NextGeneration, KeepInv, ScreenInv, Unstaged, OfferInv,
     OpeningInv, ReviewInv, Editors, Rows, Drafts, Passes, Openings, Reviews, NoSketch, NoEditor, NoRow,
     NoPass, NoReview, server, history
<1>5. OfferInv'
  BY <1>t DEF Stage, RunSync, CanStage, NextGeneration, KeepInv, OfferInv, OpeningInv, Held, Active,
     ReviewInv, Editors, Rows, Drafts, Passes, Openings, Reviews, NoSketch, NoEditor, NoRow, NoPass,
     NoReview, server, history
<1>6. OpeningInv'
  BY <1>t DEF Stage, RunSync, CanStage, NextGeneration, KeepInv, OpeningInv, ScreenInv, Editors, Rows,
     Drafts, Passes, Openings, Reviews, NoSketch, NoEditor, NoRow, NoPass, server, history
<1>7. ReviewInv'
  BY <1>t DEF Stage, RunSync, CanStage, NextGeneration, KeepInv, ReviewInv, OfferInv, OpeningInv,
     RowCovered, Covered, Active, PassInv, Editors, Rows, Drafts, Passes, Openings, Reviews, NoSketch,
     NoEditor, NoRow, NoPass, NoReview, AckPhases, server, history
<1>8. PassInv'
  <2>1. row'.state = "pending" /\ row'.lgen = editor.gen
    BY DEF Stage
  <2>2. Held' => Held /\ pass' = pass
    BY DEF Stage, RunSync, Held, NoPass
  <2>3. Held => editor.gen > pass.item.lgen
    BY <1>t DEF Stage, CanStage, KeepInv, HeldCovered, Covered, Covers, Unstaged, Editors, Passes, Rows
  <2> QED
    BY <2>1, <2>2, <2>3 DEF Stage, RunSync, NoPass, KeepInv, PassInv, AckPhases, history, Held
<1>9. TheirsInv'
  <2>1. Theirs(row'.srv) /\ Theirs(pass'.item.srv)
    BY <1>t DEF Stage, RunSync, KeepInv, TheirsInv, Theirs, NoSketch, NoPass, NoRow, history
  <2>2. editor'.offer = editor.offer
    BY <1>t DEF Stage, Editors
  <2> QED
    BY <2>1, <2>2 DEF Stage, KeepInv, TheirsInv, Theirs, server, history
<1>10. removed' = NoRow
  BY DEF Stage, KeepInv
<1> QED
  BY <1>1, <1>2, <1>3, <1>4, <1>5, <1>6, <1>7, <1>8, <1>9, <1>10 DEF KeepInv

(* The screen adopts versions and states, never geometry. *)
LEMMA KeepRefreshScreen ==
    ASSUME ~OtherRows, ~TapsMidWrite, MaxRemovals = 0, KeepInv, SyncInv, TypeOK, TypeOK',
           RefreshScreen
    PROVE  KeepInv'
<1>t. /\ editor \in Editors /\ row \in Rows /\ draft \in Drafts /\ pass \in Passes /\ opening \in Openings
      /\ review \in Reviews /\ chain \in Seq(Drafts) /\ \A i \in 1..Len(chain) : chain[i] \in Drafts
  BY DEF TypeOK
<1>1. NewestEditKept'
  BY <1>t DEF RefreshScreen, Adopt, UiOf, KeepInv, NewestEditKept, RowCovered, Covers, HeldCovered,
     Covered, Held, ScreenInv, Unstaged, ReviewInv, PassInv, TheirsInv, Theirs, Editors, Rows, Drafts,
     Passes, Openings, Reviews, NoSketch, NoRow, NoReview, AckPhases, engine, server, history
<1>2. RowCovered'
  BY <1>t DEF RefreshScreen, Adopt, UiOf, KeepInv, RowCovered, Covers, HeldCovered, Covered, Held,
     ScreenInv, Unstaged, OfferInv, OpeningInv, ReviewInv, PassInv, Active, Editors, Rows, Drafts,
     Passes, Openings, Reviews, NoSketch, NoEditor, NoRow, NoReview, AckPhases, engine, server, history
<1>3. HeldCovered'
  BY <1>t DEF RefreshScreen, Adopt, UiOf, KeepInv, RowCovered, Covers, HeldCovered, Covered, Held,
     ScreenInv, Unstaged, OfferInv, OpeningInv, ReviewInv, PassInv, Active, Editors, Rows, Drafts,
     Passes, Openings, Reviews, NoSketch, NoEditor, NoRow, NoReview, AckPhases, engine, server, history
<1>4. ScreenInv'
  BY <1>t DEF RefreshScreen, Adopt, UiOf, KeepInv, ScreenInv, Unstaged, OfferInv, OpeningInv, ReviewInv,
     Editors, Rows, Drafts, Passes, Openings, Reviews, NoSketch, NoEditor, NoRow, NoReview, engine,
     server, history
<1>5. OfferInv'
  BY <1>t DEF RefreshScreen, Adopt, UiOf, KeepInv, OfferInv, OpeningInv, Held, Active, ReviewInv,
     Editors, Rows, Drafts, Passes, Openings, Reviews, NoSketch, NoEditor, NoRow, NoReview, engine,
     server, history
<1>6. OpeningInv'
  BY <1>t DEF RefreshScreen, Adopt, UiOf, KeepInv, OpeningInv, ScreenInv, Editors, Rows, Drafts, Passes,
     Openings, Reviews, NoSketch, NoEditor, NoRow, engine, server, history
<1>7. ReviewInv'
  BY <1>t DEF RefreshScreen, Adopt, UiOf, KeepInv, ReviewInv, OfferInv, OpeningInv, RowCovered, Covered,
     Active, PassInv, Editors, Rows, Drafts, Passes, Openings, Reviews, NoSketch, NoEditor, NoRow,
     NoReview, AckPhases, engine, server, history
<1>8. PassInv'
  BY QuietSteps DEF Quiet, KeepInv, PassInv, Held
<1>9. TheirsInv'
  BY <1>t DEF RefreshScreen, Adopt, UiOf, KeepInv, TheirsInv, Theirs, ReviewInv, Editors, Rows, Drafts,
     Passes, Openings, Reviews, NoSketch, NoRow, NoReview, engine, server, history
<1>10. removed' = NoRow
  BY DEF RefreshScreen, KeepInv
<1> QED
  BY <1>1, <1>2, <1>3, <1>4, <1>5, <1>6, <1>7, <1>8, <1>9, <1>10 DEF KeepInv

(* Choosing Office discards exactly the reviewed draft. *)
LEMMA KeepResolveUseOffice ==
    ASSUME ~OtherRows, ~TapsMidWrite, MaxRemovals = 0, KeepInv, SyncInv, TypeOK, TypeOK',
           ResolveUseOffice
    PROVE  KeepInv'
<1>t. /\ editor \in Editors /\ row \in Rows /\ draft \in Drafts /\ pass \in Passes /\ opening \in Openings
      /\ review \in Reviews /\ chain \in Seq(Drafts) /\ \A i \in 1..Len(chain) : chain[i] \in Drafts
  BY DEF TypeOK
<1>a. chain = <<>> /\ opening.step = "no" /\ draft.gen = row.lgen /\ draft.gen = review.lgen /\ row.lgen >= 1
      /\ review.local = row.doc /\ draft.doc = row.doc /\ ~Unstaged(editor)
  BY <1>t DEF ResolveUseOffice, ReviewCurrent, KeepInv, ReviewInv, NoReview, RowCovered, Covered,
     Covers, Active, ScreenInv, Unstaged, Rows, Drafts, Editors
<1>1. NewestEditKept'
  BY <1>t DEF ResolveUseOffice, ReviewCurrent, KeepInv, NewestEditKept, RowCovered, Covers, HeldCovered,
     Covered, Held, ScreenInv, Unstaged, ReviewInv, PassInv, TheirsInv, Theirs, Editors, Rows, Drafts,
     Passes, Openings, Reviews, NoSketch, NoRow, NoReview, NoDraft, AckPhases, engine, server, Burst
<1>2. RowCovered'
  BY <1>t DEF ResolveUseOffice, ReviewCurrent, KeepInv, RowCovered, Covers, HeldCovered, Covered, Held,
     ScreenInv, Unstaged, OfferInv, OpeningInv, ReviewInv, PassInv, Active, Editors, Rows, Drafts,
     Passes, Openings, Reviews, NoSketch, NoEditor, NoRow, NoReview, NoDraft, AckPhases, engine, server,
     Burst
<1>3. HeldCovered'
  BY <1>t DEF ResolveUseOffice, ReviewCurrent, KeepInv, RowCovered, Covers, HeldCovered, Covered, Held,
     ScreenInv, Unstaged, OfferInv, OpeningInv, ReviewInv, PassInv, Active, Editors, Rows, Drafts,
     Passes, Openings, Reviews, NoSketch, NoEditor, NoRow, NoReview, NoDraft, AckPhases, engine, server,
     Burst
<1>4. ScreenInv'
  <2>2. /\ editor'.gen = editor.gen /\ editor'.persisted = editor.persisted /\ editor'.staged = editor.staged
        /\ editor'.err = editor.err /\ editor'.open = editor.open /\ chain' = chain /\ draft' = NoDraft
    BY <1>t DEF ResolveUseOffice, Editors
  <2> QED
    BY <1>a, <2>2 DEF KeepInv, ScreenInv, Unstaged, NoDraft
<1>5. OfferInv'
  BY <1>t DEF ResolveUseOffice, ReviewCurrent, KeepInv, OfferInv, OpeningInv, Held, Active, ReviewInv,
     Editors, Rows, Drafts, Passes, Openings, Reviews, NoSketch, NoEditor, NoRow, NoReview, NoDraft,
     AckPhases, engine, server, Burst
<1>6. OpeningInv'
  BY <1>t DEF ResolveUseOffice, ReviewCurrent, KeepInv, OpeningInv, ScreenInv, Editors, Rows, Drafts,
     Passes, Openings, Reviews, NoSketch, NoEditor, NoRow, NoReview, NoDraft, AckPhases, engine, server,
     Burst
<1>7. ReviewInv'
  BY <1>t DEF ResolveUseOffice, ReviewCurrent, KeepInv, ReviewInv, OfferInv, OpeningInv, RowCovered,
     Covered, Active, PassInv, Editors, Rows, Drafts, Passes, Openings, Reviews, NoSketch, NoEditor,
     NoRow, NoReview, NoDraft, AckPhases, engine, server, Burst
<1>8. PassInv'
  BY <1>t DEF ResolveUseOffice, ReviewCurrent, KeepInv, PassInv, Active, NoRow, Burst, AckPhases, engine
<1>9. TheirsInv'
  BY <1>t DEF ResolveUseOffice, ReviewCurrent, KeepInv, TheirsInv, Theirs, ReviewInv, Editors, Rows,
     Drafts, Passes, Openings, Reviews, NoSketch, NoRow, NoReview, NoDraft, AckPhases, engine, server,
     Burst
<1>10. removed' = NoRow
  BY DEF ResolveUseOffice, KeepInv
<1> QED
  BY <1>1, <1>2, <1>3, <1>4, <1>5, <1>6, <1>7, <1>8, <1>9, <1>10 DEF KeepInv

(* Choosing the local sketch queues the reviewed document again. *)
LEMMA KeepResolveKeepLocal ==
    ASSUME ~OtherRows, ~TapsMidWrite, MaxRemovals = 0, KeepInv, SyncInv, TypeOK, TypeOK',
           ResolveKeepLocal
    PROVE  KeepInv'
<1>t. /\ editor \in Editors /\ row \in Rows /\ draft \in Drafts /\ pass \in Passes /\ opening \in Openings
      /\ review \in Reviews /\ chain \in Seq(Drafts) /\ \A i \in 1..Len(chain) : chain[i] \in Drafts
  BY DEF TypeOK
<1>a. chain = <<>> /\ opening.step = "no" /\ draft.gen = row.lgen /\ draft.gen = review.lgen /\ row.lgen >= 1
      /\ review.local = row.doc /\ draft.doc = row.doc /\ ~Unstaged(editor)
  BY <1>t DEF ResolveKeepLocal, ReviewCurrent, KeepInv, ReviewInv, NoReview, RowCovered, Covered,
     Covers, Active, ScreenInv, Unstaged, Rows, Drafts, Editors
<1>1. NewestEditKept'
  <2> QED
    BY <1>a DEF ResolveKeepLocal, KeepInv, NewestEditKept
<1>2. RowCovered'
  BY <1>t DEF ResolveKeepLocal, ReviewCurrent, RunSync, Adopt, NextGeneration, KeepInv, RowCovered,
     Covers, HeldCovered, Covered, Held, ScreenInv, Unstaged, OfferInv, OpeningInv, ReviewInv, PassInv,
     Active, Editors, Rows, Drafts, Passes, Openings, Reviews, NoSketch, NoEditor, NoRow, NoPass,
     NoReview, AckPhases, server
<1>3. HeldCovered'
  BY <1>t DEF ResolveKeepLocal, ReviewCurrent, RunSync, Adopt, NextGeneration, KeepInv, RowCovered,
     Covers, HeldCovered, Covered, Held, ScreenInv, Unstaged, OfferInv, OpeningInv, ReviewInv, PassInv,
     Active, Editors, Rows, Drafts, Passes, Openings, Reviews, NoSketch, NoEditor, NoRow, NoPass,
     NoReview, AckPhases, server
<1>4. ScreenInv'
  <2>2. /\ editor'.gen = editor.gen /\ editor'.persisted = editor.persisted /\ editor'.staged = editor.staged
        /\ editor'.err = editor.err /\ editor'.open = editor.open /\ chain' = chain /\ draft'.gen = review.lgen
    BY <1>t DEF ResolveKeepLocal, Adopt, Editors
  <2> QED
    BY <1>a, <2>2, <1>t DEF KeepInv, ScreenInv, Unstaged, Rows
<1>5. OfferInv'
  BY <1>t DEF ResolveKeepLocal, ReviewCurrent, RunSync, Adopt, NextGeneration, KeepInv, OfferInv,
     OpeningInv, Held, Active, ReviewInv, Editors, Rows, Drafts, Passes, Openings, Reviews, NoSketch,
     NoEditor, NoRow, NoPass, NoReview, server
<1>6. OpeningInv'
  <2> QED
    BY <1>a DEF ResolveKeepLocal, OpeningInv
<1>7. ReviewInv'
  BY <1>t DEF ResolveKeepLocal, ReviewCurrent, RunSync, Adopt, NextGeneration, KeepInv, ReviewInv,
     OfferInv, OpeningInv, RowCovered, Covered, Active, PassInv, Editors, Rows, Drafts, Passes,
     Openings, Reviews, NoSketch, NoEditor, NoRow, NoPass, NoReview, AckPhases, server
<1>8. PassInv'
  <2>1. row.state = "conflict" /\ row'.state = "pending"
    BY DEF ResolveKeepLocal, ReviewCurrent
  <2>2. pass' = pass \/ pass'.phase = "start"
    BY DEF ResolveKeepLocal, RunSync, NoPass
  <2> QED
    BY <2>1, <2>2 DEF KeepInv, PassInv, Held, AckPhases, ResolveKeepLocal
<1>9. TheirsInv'
  BY <1>t DEF ResolveKeepLocal, ReviewCurrent, RunSync, Adopt, NextGeneration, KeepInv, TheirsInv,
     Theirs, ReviewInv, Editors, Rows, Drafts, Passes, Openings, Reviews, NoSketch, NoRow, NoPass,
     NoReview, server
<1>10. removed' = NoRow
  BY DEF ResolveKeepLocal, KeepInv
<1> QED
  BY <1>1, <1>2, <1>3, <1>4, <1>5, <1>6, <1>7, <1>8, <1>9, <1>10 DEF KeepInv

(* A result lands on the row it was loaded from, or nowhere. *)
LEMMA KeepPassWriteback ==
    ASSUME ~OtherRows, ~TapsMidWrite, MaxRemovals = 0, KeepInv, SyncInv, TypeOK, TypeOK',
           PassWriteback
    PROVE  KeepInv'
<1>t. /\ editor \in Editors /\ row \in Rows /\ draft \in Drafts /\ pass \in Passes /\ opening \in Openings
      /\ review \in Reviews /\ chain \in Seq(Drafts) /\ \A i \in 1..Len(chain) : chain[i] \in Drafts
  BY DEF TypeOK
<1>1. NewestEditKept'
  BY <1>t DEF PassWriteback, Writeback, KeepInv, NewestEditKept, RowCovered, Covers, HeldCovered,
     Covered, Held, ScreenInv, Unstaged, ReviewInv, PassInv, TheirsInv, Theirs, Editors, Rows, Drafts,
     Passes, Openings, Reviews, NoSketch, NoRow, NoPass, NoReview, AckPhases, server, history
<1>2. RowCovered'
  BY <1>t DEF PassWriteback, Writeback, KeepInv, RowCovered, Covers, HeldCovered, Covered, Held,
     ScreenInv, Unstaged, OfferInv, OpeningInv, ReviewInv, PassInv, Active, Editors, Rows, Drafts,
     Passes, Openings, Reviews, NoSketch, NoEditor, NoRow, NoPass, NoReview, AckPhases, server, history
<1>3. HeldCovered'
  BY <1>t DEF PassWriteback, Writeback, KeepInv, RowCovered, Covers, HeldCovered, Covered, Held,
     ScreenInv, Unstaged, OfferInv, OpeningInv, ReviewInv, PassInv, Active, Editors, Rows, Drafts,
     Passes, Openings, Reviews, NoSketch, NoEditor, NoRow, NoPass, NoReview, AckPhases, server, history
<1>4. ScreenInv'
  BY <1>t DEF PassWriteback, Writeback, KeepInv, ScreenInv, Unstaged, OfferInv, OpeningInv, ReviewInv,
     Editors, Rows, Drafts, Passes, Openings, Reviews, NoSketch, NoEditor, NoRow, NoPass, NoReview,
     AckPhases, server, history
<1>5. OfferInv'
  BY <1>t DEF PassWriteback, Writeback, KeepInv, OfferInv, OpeningInv, Held, Active, ReviewInv, Editors,
     Rows, Drafts, Passes, Openings, Reviews, NoSketch, NoEditor, NoRow, NoPass, NoReview, AckPhases,
     server, history
<1>6. OpeningInv'
  BY <1>t DEF PassWriteback, Writeback, KeepInv, OpeningInv, ScreenInv, Editors, Rows, Drafts, Passes,
     Openings, Reviews, NoSketch, NoEditor, NoRow, NoPass, NoReview, AckPhases, server, history
<1>7. ReviewInv'
  <2>1. review # NoReview => row' = row
    BY DEF PassWriteback, Writeback, KeepInv, ReviewInv, PassInv
  <2> QED
    BY <2>1 DEF PassWriteback, KeepInv, ReviewInv
<1>8. PassInv'
  <2>1. pass'.phase \in AckPhases => /\ pass'.phase = "ackDetail" /\ pass'.item = pass.item
                                    /\ pass.item.state = "synced" /\ pass.item.doc \in accepted
    BY <1>t DEF PassWriteback, AckPhases, NoPass, SyncInv, Passes
  <2>2. pass'.phase \notin {"waiting", "answered"}
    BY <1>t DEF PassWriteback, NoPass, Passes
  <2>3. row' = pass.item \/ (row' = row /\ (row.state = "none" \/ row.gen # pass.item.gen))
    BY DEF PassWriteback, Writeback
  <2>4. row' = row /\ row'.state = "conflict" => pass'.phase \notin AckPhases
    BY <2>1 DEF PassWriteback, KeepInv, PassInv
  <2>5. Held' => Held
    BY <2>1, <2>2 DEF PassWriteback, Held, AckPhases
  <2> QED
    BY <2>1, <2>2, <2>3, <2>4, <2>5 DEF PassWriteback, KeepInv, PassInv, Held, Active, history,
       AckPhases
<1>9. TheirsInv'
  BY <1>t DEF PassWriteback, Writeback, KeepInv, TheirsInv, Theirs, ReviewInv, Editors, Rows, Drafts,
     Passes, Openings, Reviews, NoSketch, NoRow, NoPass, NoReview, AckPhases, server, history
<1>10. removed' = NoRow
  BY DEF PassWriteback, KeepInv
<1> QED
  BY <1>1, <1>2, <1>3, <1>4, <1>5, <1>6, <1>7, <1>8, <1>9, <1>10 DEF KeepInv

(* An acknowledgement retires exactly the draft it acknowledges. *)
LEMMA KeepAckDraft ==
    ASSUME ~OtherRows, ~TapsMidWrite, MaxRemovals = 0, KeepInv, SyncInv, TypeOK, TypeOK',
           AckDraft
    PROVE  KeepInv'
<1>t. /\ editor \in Editors /\ row \in Rows /\ draft \in Drafts /\ pass \in Passes /\ opening \in Openings
      /\ review \in Reviews /\ chain \in Seq(Drafts) /\ \A i \in 1..Len(chain) : chain[i] \in Drafts
  BY DEF TypeOK
<1>1. NewestEditKept'
  BY <1>t DEF AckDraft, AckedDraft, MaxOf, KeepInv, NewestEditKept, RowCovered, Covers, HeldCovered,
     Covered, Held, ScreenInv, Unstaged, ReviewInv, PassInv, TheirsInv, Theirs, Editors, Rows, Drafts,
     Passes, Openings, Reviews, NoSketch, NoRow, NoReview, NoDraft, AckPhases, device, server, history
<1>2. RowCovered'
  <2>1. Held /\ pass.item.state = "synced"
    BY DEF AckDraft, KeepInv, PassInv, Held
  <2>2. row.state \in Active => draft.gen > pass.item.lgen
    BY <2>1, <1>t DEF AckDraft, KeepInv, PassInv, RowCovered, Covered, Covers, AckPhases, Rows, Drafts,
       Passes
  <2>3. row.state \in Active => draft'.gen = draft.gen /\ draft'.doc = draft.doc
    BY <2>2, <1>t DEF AckDraft, AckedDraft, Drafts, Rows, Passes
  <2> QED
    BY <2>3 DEF AckDraft, KeepInv, RowCovered, Covered, Covers
<1>3. HeldCovered'
  BY <1>t DEF AckDraft, AckedDraft, MaxOf, KeepInv, RowCovered, Covers, HeldCovered, Covered, Held,
     ScreenInv, Unstaged, OfferInv, OpeningInv, ReviewInv, PassInv, Active, Editors, Rows, Drafts,
     Passes, Openings, Reviews, NoSketch, NoEditor, NoRow, NoReview, NoDraft, AckPhases, device, server,
     history
<1>4. ScreenInv'
  <2>1. Covered(pass.item)
    BY DEF AckDraft, KeepInv, PassInv, HeldCovered, Held
  <2>2. Unstaged(editor) => draft'.gen = draft.gen /\ draft'.doc = draft.doc
    BY <2>1, <1>t DEF AckDraft, AckedDraft, KeepInv, ScreenInv, Covered, Covers, Unstaged, Drafts, Rows,
       Passes, Editors
  <2>3. draft' = NoDraft \/ (draft'.gen = draft.gen /\ draft'.doc = draft.doc)
    BY <1>t DEF AckDraft, AckedDraft, Drafts
  <2> QED
    BY <2>2, <2>3 DEF AckDraft, KeepInv, ScreenInv, NoDraft
<1>5. OfferInv'
  BY <1>t DEF AckDraft, AckedDraft, MaxOf, KeepInv, OfferInv, OpeningInv, Held, Active, ReviewInv,
     Editors, Rows, Drafts, Passes, Openings, Reviews, NoSketch, NoEditor, NoRow, NoReview, NoDraft,
     device, server, history
<1>6. OpeningInv'
  BY <1>t DEF AckDraft, AckedDraft, MaxOf, KeepInv, OpeningInv, ScreenInv, Editors, Rows, Drafts,
     Passes, Openings, Reviews, NoSketch, NoEditor, NoRow, NoDraft, device, server, history
<1>7. ReviewInv'
  BY <1>t DEF AckDraft, AckedDraft, MaxOf, KeepInv, ReviewInv, OfferInv, OpeningInv, RowCovered,
     Covered, Active, PassInv, Editors, Rows, Drafts, Passes, Openings, Reviews, NoSketch, NoEditor,
     NoRow, NoReview, NoDraft, AckPhases, device, server, history
<1>8. PassInv'
  BY <1>t DEF AckDraft, KeepInv, PassInv, Held, AckPhases, Passes, history
<1>9. TheirsInv'
  BY <1>t DEF AckDraft, AckedDraft, MaxOf, KeepInv, TheirsInv, Theirs, ReviewInv, Editors, Rows, Drafts,
     Passes, Openings, Reviews, NoSketch, NoRow, NoReview, NoDraft, device, server, history
<1>10. removed' = NoRow
  BY DEF AckDraft, KeepInv
<1> QED
  BY <1>1, <1>2, <1>3, <1>4, <1>5, <1>6, <1>7, <1>8, <1>9, <1>10 DEF KeepInv

(* Office's own documents are not the Field device's. *)
LEMMA KeepOfficeSaves ==
    ASSUME ~OtherRows, ~TapsMidWrite, MaxRemovals = 0, KeepInv, SyncInv, TypeOK, TypeOK',
           OfficeSaves
    PROVE  KeepInv'
<1>t. /\ editor \in Editors /\ row \in Rows /\ draft \in Drafts /\ pass \in Passes /\ opening \in Openings
      /\ review \in Reviews /\ chain \in Seq(Drafts) /\ \A i \in 1..Len(chain) : chain[i] \in Drafts
  BY DEF TypeOK
<1>1. NewestEditKept'
  BY <1>t DEF OfficeSaves, KeepInv, NewestEditKept, RowCovered, Covers, HeldCovered, Covered, Held,
     ScreenInv, Unstaged, ReviewInv, PassInv, TheirsInv, Theirs, Editors, Rows, Drafts, Passes,
     Openings, Reviews, NoSketch, NoRow, NoReview, AckPhases, device, engine, server, history
<1>2. RowCovered'
  BY <1>t DEF OfficeSaves, KeepInv, RowCovered, Covers, HeldCovered, Covered, Held, ScreenInv, Unstaged,
     OfferInv, OpeningInv, ReviewInv, PassInv, Active, Editors, Rows, Drafts, Passes, Openings, Reviews,
     NoSketch, NoEditor, NoRow, NoReview, AckPhases, device, engine, server, history
<1>3. HeldCovered'
  BY <1>t DEF OfficeSaves, KeepInv, RowCovered, Covers, HeldCovered, Covered, Held, ScreenInv, Unstaged,
     OfferInv, OpeningInv, ReviewInv, PassInv, Active, Editors, Rows, Drafts, Passes, Openings, Reviews,
     NoSketch, NoEditor, NoRow, NoReview, AckPhases, device, engine, server, history
<1>4. ScreenInv'
  BY <1>t DEF OfficeSaves, KeepInv, ScreenInv, Unstaged, OfferInv, OpeningInv, ReviewInv, Editors, Rows,
     Drafts, Passes, Openings, Reviews, NoSketch, NoEditor, NoRow, NoReview, device, engine, server,
     history
<1>5. OfferInv'
  BY <1>t DEF OfficeSaves, KeepInv, OfferInv, OpeningInv, Held, Active, ReviewInv, Editors, Rows,
     Drafts, Passes, Openings, Reviews, NoSketch, NoEditor, NoRow, NoReview, device, engine, server,
     history
<1>6. OpeningInv'
  BY <1>t DEF OfficeSaves, KeepInv, OpeningInv, ScreenInv, Editors, Rows, Drafts, Passes, Openings,
     Reviews, NoSketch, NoEditor, NoRow, device, engine, server, history
<1>7. ReviewInv'
  BY <1>t DEF OfficeSaves, KeepInv, ReviewInv, OfferInv, OpeningInv, RowCovered, Covered, Active,
     PassInv, Editors, Rows, Drafts, Passes, Openings, Reviews, NoSketch, NoEditor, NoRow, NoReview,
     AckPhases, device, engine, server, history
<1>8. PassInv'
  BY QuietSteps DEF Quiet, KeepInv, PassInv, Held
<1>9. TheirsInv'
  <2>1. office'.doc = -(budget.saves + 1) /\ budget.saves \in Nat
    BY DEF OfficeSaves, TypeOK, Budgets
  <2>2. Theirs(office')
    BY <2>1 DEF Theirs
  <2> QED
    BY <2>2 DEF OfficeSaves, KeepInv, TheirsInv, Theirs, device, engine, history
<1>10. removed' = NoRow
  BY DEF OfficeSaves, KeepInv
<1> QED
  BY <1>1, <1>2, <1>3, <1>4, <1>5, <1>6, <1>7, <1>8, <1>9, <1>10 DEF KeepInv

(* Every step keeps the field's work. *)
LEMMA KeepStep ==
    ASSUME ~OtherRows, ~TapsMidWrite, MaxRemovals = 0, KeepInv, SyncInv, TypeOK, TypeOK', [Next]_vars
    PROVE  KeepInv'
<1>t. /\ editor \in Editors /\ row \in Rows /\ draft \in Drafts /\ pass \in Passes /\ opening \in Openings
      /\ review \in Reviews /\ chain \in Seq(Drafts)
  BY DEF TypeOK
<1>1. CASE \/ OpenFinish \/ OpenKeepMine \/ Commit \/ Persist \/ PersistFails \/ RetrySave \/ Stage
         \/ RefreshScreen \/ ResolveUseOffice \/ ResolveKeepLocal \/ PassWriteback \/ AckDraft \/ OfficeSaves
  BY <1>1, KeepOpenFinish, KeepOpenKeepMine, KeepCommit, KeepPersist, KeepPersistFails, KeepRetrySave,
     KeepStage, KeepRefreshScreen, KeepResolveUseOffice, KeepResolveKeepLocal, KeepPassWriteback,
     KeepAckDraft, KeepOfficeSaves
<1>2. CASE OpenLoadDraft
  BY <1>2, <1>t DEF OpenLoadDraft, KeepInv, NewestEditKept, RowCovered, HeldCovered, Covered, Covers,
     Held, ScreenInv, Unstaged, OfferInv, OpeningInv, ReviewInv, PassInv, TheirsInv, Theirs, NoSketch,
     NoEditor, NoRow, NoReview, NoOpening, NoDraft, Active, AckPhases, device, engine, server, history,
     Answer, Tap, Burst, Editors, Rows, Drafts, Passes
<1>3. CASE OpenUseOffice
  BY <1>3, <1>t DEF OpenUseOffice, KeepInv, NewestEditKept, RowCovered, HeldCovered, Covered, Covers,
     Held, ScreenInv, Unstaged, OfferInv, OpeningInv, ReviewInv, PassInv, TheirsInv, Theirs, NoSketch,
     NoEditor, NoRow, NoReview, NoDraft, Active, AckPhases, device, engine, server, Answer, Tap, Burst,
     Editors, Rows, Drafts, Passes
<1>4. CASE CloseEditor
  BY <1>4, <1>t DEF CloseEditor, KeepInv, NewestEditKept, RowCovered, HeldCovered, Covered, Covers,
     Held, ScreenInv, Unstaged, OfferInv, OpeningInv, ReviewInv, PassInv, TheirsInv, Theirs, NoSketch,
     NoEditor, NoRow, NoReview, Active, AckPhases, device, engine, server, history, Answer, Editors,
     Rows, Drafts, Passes
<1>5. CASE StageSkips
  BY <1>5, <1>t DEF StageSkips, KeepInv, NewestEditKept, RowCovered, HeldCovered, Covered, Covers, Held,
     ScreenInv, Unstaged, OfferInv, OpeningInv, ReviewInv, PassInv, TheirsInv, Theirs, NoSketch,
     NoEditor, NoRow, NoReview, Active, AckPhases, device, engine, server, history, Answer, Editors,
     Rows, Drafts, Passes
<1>6. CASE ResolveStale
  BY <1>6, <1>t DEF ResolveStale, KeepInv, NewestEditKept, RowCovered, HeldCovered, Covered, Covers,
     Held, ScreenInv, Unstaged, OfferInv, OpeningInv, ReviewInv, PassInv, TheirsInv, Theirs, NoSketch,
     NoEditor, NoRow, NoReview, Active, AckPhases, device, engine, server, history, Answer, Editors,
     Rows, Drafts, Passes
<1>7. CASE Trigger
  BY <1>7, <1>t DEF Trigger, KeepInv, NewestEditKept, RowCovered, HeldCovered, Covered, Covers, Held,
     ScreenInv, Unstaged, OfferInv, OpeningInv, ReviewInv, PassInv, TheirsInv, Theirs, NoSketch,
     NoEditor, NoRow, NoPass, NoReview, Active, AckPhases, device, server, history, RunSync, Answer,
     Editors, Rows, Drafts, Passes
<1>8. CASE TimerFires
  BY <1>8, <1>t DEF TimerFires, KeepInv, NewestEditKept, RowCovered, HeldCovered, Covered, Covers, Held,
     ScreenInv, Unstaged, OfferInv, OpeningInv, ReviewInv, PassInv, TheirsInv, Theirs, NoSketch,
     NoEditor, NoRow, NoPass, NoReview, Active, AckPhases, device, server, history, RunSync, Answer,
     Editors, Rows, Drafts, Passes
<1>9. CASE PassOffline
  BY <1>9, <1>t DEF PassOffline, KeepInv, NewestEditKept, RowCovered, HeldCovered, Covered, Covers,
     Held, ScreenInv, Unstaged, OfferInv, OpeningInv, ReviewInv, PassInv, TheirsInv, Theirs, NoSketch,
     NoEditor, NoRow, NoReview, Active, AckPhases, Unsynced, device, server, history, Answer, Editors,
     Rows, Drafts, Passes
<1>10. CASE PassLoad
  BY <1>10, <1>t DEF PassLoad, KeepInv, NewestEditKept, RowCovered, HeldCovered, Covered, Covers, Held,
     ScreenInv, Unstaged, OfferInv, OpeningInv, ReviewInv, PassInv, TheirsInv, Theirs, NoSketch,
     NoEditor, NoRow, NoReview, Active, AckPhases, Unsynced, device, server, history, Answer, Editors,
     Rows, Drafts, Passes
<1>11. CASE AckDetail
  BY <1>11, <1>t DEF AckDetail, KeepInv, NewestEditKept, RowCovered, HeldCovered, Covered, Covers, Held,
     ScreenInv, Unstaged, OfferInv, OpeningInv, ReviewInv, PassInv, TheirsInv, Theirs, NoSketch,
     NoEditor, NoRow, NoReview, Active, AckPhases, device, server, history, Answer, Editors, Rows,
     Drafts, Passes
<1>12. CASE AckRow
  BY <1>12, <1>t DEF AckRow, FlooredRow, KeepInv, NewestEditKept, RowCovered, HeldCovered, Covered,
     Covers, Held, ScreenInv, Unstaged, OfferInv, OpeningInv, ReviewInv, PassInv, TheirsInv, Theirs,
     NoSketch, NoEditor, NoRow, NoReview, Active, AckPhases, device, server, history, Answer, Editors,
     Rows, Drafts, Passes
<1>13. CASE AckFloor
  BY <1>13, <1>t DEF AckFloor, KeepInv, NewestEditKept, RowCovered, HeldCovered, Covered, Covers, Held,
     ScreenInv, Unstaged, OfferInv, OpeningInv, ReviewInv, PassInv, TheirsInv, Theirs, NoSketch,
     NoEditor, NoRow, NoPass, NoReview, Active, AckPhases, device, server, history, Answer, Editors,
     Rows, Drafts, Passes
<1>14. CASE PassFinish
  BY <1>14, <1>t DEF PassFinish, KeepInv, NewestEditKept, RowCovered, HeldCovered, Covered, Covers,
     Held, ScreenInv, Unstaged, OfferInv, OpeningInv, ReviewInv, PassInv, TheirsInv, Theirs, NoSketch,
     NoEditor, NoRow, NoReview, Active, AckPhases, device, server, history, Answer, Editors, Rows,
     Drafts, Passes
<1>15. CASE PassEnd
  BY <1>15, <1>t DEF PassEnd, KeepInv, NewestEditKept, RowCovered, HeldCovered, Covered, Covers, Held,
     ScreenInv, Unstaged, OfferInv, OpeningInv, ReviewInv, PassInv, TheirsInv, Theirs, NoSketch,
     NoEditor, NoRow, NoPass, NoReview, Active, AckPhases, device, server, history, Answer, Editors,
     Rows, Drafts, Passes
<1>16. CASE OfficeLocks
  BY <1>16, <1>t DEF OfficeLocks, KeepInv, NewestEditKept, RowCovered, HeldCovered, Covered, Covers,
     Held, ScreenInv, Unstaged, OfferInv, OpeningInv, ReviewInv, PassInv, TheirsInv, Theirs, NoSketch,
     NoEditor, NoRow, NoReview, Active, AckPhases, device, engine, server, history, Answer, Editors,
     Rows, Drafts, Passes
<1>17. CASE RefreshDecide
  BY <1>17, <1>t DEF RefreshDecide, KeepInv, NewestEditKept, RowCovered, HeldCovered, Covered, Covers,
     Held, ScreenInv, Unstaged, OfferInv, OpeningInv, ReviewInv, PassInv, TheirsInv, Theirs, NoSketch,
     NoEditor, NoRow, NoReview, Active, AckPhases, device, engine, server, history, Answer, Editors,
     Rows, Drafts, Passes
<1>18. CASE RestoreRow
  BY <1>18, <1>t DEF RestoreRow, KeepInv, NewestEditKept, RowCovered, HeldCovered, Covered, Covers,
     Held, ScreenInv, Unstaged, OfferInv, OpeningInv, ReviewInv, PassInv, TheirsInv, Theirs, NoSketch,
     NoEditor, NoRow, NoReview, Active, AckPhases, device, engine, server, history, Answer, Editors,
     Rows, Drafts, Passes
<1>19. CASE CrashRestart
  BY <1>19, <1>t DEF CrashRestart, KeepInv, NewestEditKept, RowCovered, HeldCovered, Covered, Covers,
     Held, ScreenInv, Unstaged, OfferInv, OpeningInv, ReviewInv, PassInv, TheirsInv, Theirs, NoSketch,
     NoEditor, NoRow, NoPass, NoReview, NoOpening, NoDraft, Active, AckPhases, device, server, history,
     Answer, Editors, Rows, Drafts, Passes
<1>20. ASSUME NEW online \in BOOLEAN, OpenFetch(online) PROVE KeepInv'
  BY <1>20 DEF OpenFetch, KeepInv, NewestEditKept, RowCovered, HeldCovered, Covered, Covers, Held,
     ScreenInv, Unstaged, OfferInv, OpeningInv, ReviewInv, PassInv, TheirsInv, Theirs, NoSketch,
     NoEditor, NoRow, NoReview, NoOpening, NoDraft, Active, AckPhases, device, engine, server, history,
     Answer
<1>21. ASSUME NEW online \in BOOLEAN, RefreshPull(online) PROVE KeepInv'
  BY <1>21 DEF RefreshPull, KeepInv, NewestEditKept, RowCovered, HeldCovered, Covered, Covers, Held,
     ScreenInv, Unstaged, OfferInv, OpeningInv, ReviewInv, PassInv, TheirsInv, Theirs, NoSketch,
     NoEditor, NoRow, NoReview, Active, AckPhases, device, engine, server, history, Answer
<1>22. ASSUME NEW choice \in {"use_office", "keep_local"}, BeginResolve(choice) PROVE KeepInv'
  BY <1>22 DEF BeginResolve, KeepInv, NewestEditKept, RowCovered, HeldCovered, Covered, Covers, Held,
     ScreenInv, Unstaged, OfferInv, OpeningInv, ReviewInv, PassInv, TheirsInv, Theirs, NoSketch,
     NoEditor, NoRow, NoReview, Active, AckPhases, device, engine, server, history, Answer, Tap, Burst
<1>23. ASSUME NEW late \in BOOLEAN, PassTimesOut(late) PROVE KeepInv'
  <2>1. UNCHANGED <<device, removed, accepted, newest, office>> /\ pass.phase = "waiting"
    BY <1>23 DEF PassTimesOut, history
  <2>2. pass' = [phase |-> "answered", item |-> [pass.item EXCEPT !.state = "pending", !.srv = pass.item.srv]]
    BY <1>23 DEF PassTimesOut, Answer
  <2>3. /\ pass'.phase = "answered" /\ pass'.item.srv = pass.item.srv /\ pass'.item.lgen = pass.item.lgen
        /\ pass'.item.doc = pass.item.doc /\ pass'.item.gen = pass.item.gen /\ pass'.item.state = "pending"
    BY <2>2, <1>t DEF Passes, Rows
  <2> QED
    BY <2>1, <2>3 DEF device, KeepInv, NewestEditKept, RowCovered, HeldCovered, Covered, Covers, Held,
       ScreenInv, OfferInv, OpeningInv, ReviewInv, PassInv, TheirsInv, Theirs, AckPhases

<1>24. ASSUME NEW r \in wire, OfficeRefuses(r) PROVE KeepInv'
  <2>1. UNCHANGED <<device, removed, accepted, newest, office>> /\ pass.phase = "waiting"
    BY <1>24 DEF OfficeRefuses, history, SyncInv, LiveRequests
  <2>2. pass' = [phase |-> "answered", item |-> [pass.item EXCEPT !.state = "failed", !.srv = pass.item.srv]]
    BY <1>24 DEF OfficeRefuses, Answer
  <2>3. /\ pass'.phase = "answered" /\ pass'.item.srv = pass.item.srv /\ pass'.item.lgen = pass.item.lgen
        /\ pass'.item.doc = pass.item.doc /\ pass'.item.gen = pass.item.gen /\ pass'.item.state = "failed"
    BY <2>2, <1>t DEF Passes, Rows
  <2> QED
    BY <2>1, <2>3 DEF device, KeepInv, NewestEditKept, RowCovered, HeldCovered, Covered, Covers, Held,
       ScreenInv, OfferInv, OpeningInv, ReviewInv, PassInv, TheirsInv, Theirs, AckPhases

<1>25. ASSUME NEW r \in wire, OfficeHandles(r) PROVE KeepInv'
  <2>1. UNCHANGED <<device, removed, newest>> /\ accepted \subseteq accepted'
    BY <1>25 DEF OfficeHandles
  <2>2. Theirs(office)' /\ (editable /\ r.exp = office.ver => r.doc \in accepted')
    BY <1>25 DEF OfficeHandles, KeepInv, TheirsInv, Theirs
  <2>3. \/ pass' = pass
        \/ /\ pass.phase = "waiting" /\ pass'.phase = "answered" /\ pass'.item.state \in {"locked", "synced", "conflict"}
           /\ pass'.item.lgen = pass.item.lgen /\ pass'.item.doc = pass.item.doc /\ pass'.item.gen = pass.item.gen
           /\ (pass'.item.srv.doc <= 0 \/ pass'.item.srv.doc \in accepted')
    <3>1. CASE ~r.live
      BY <1>25, <3>1 DEF OfficeHandles
    <3>2. CASE r.live
      <4>1. \/ Answer("locked", pass.item.srv)
            \/ Answer("synced", [ver |-> office.ver + 1, doc |-> r.doc]) /\ r.doc \in accepted'
            \/ Answer("conflict", office)
        BY <1>25, <3>2 DEF OfficeHandles
      <4>2. \A s, v : Answer(s, v) => /\ pass'.phase = "answered" /\ pass'.item.state = s /\ pass'.item.srv = v
                                      /\ pass'.item.lgen = pass.item.lgen /\ pass'.item.doc = pass.item.doc
                                      /\ pass'.item.gen = pass.item.gen
        BY AnswerKeeps
      <4>3. pass.phase = "waiting" /\ (office.doc <= 0 \/ office.doc \in accepted)
            /\ (pass.item.srv.doc <= 0 \/ pass.item.srv.doc \in accepted)
        BY <3>2 DEF SyncInv, LiveRequests, KeepInv, TheirsInv, Theirs
      <4> QED
        BY <4>1, <4>2, <4>3, <2>1
    <3> QED
      BY <3>1, <3>2
  <2> QED
    BY <2>1, <2>2, <2>3 DEF device, KeepInv, NewestEditKept, RowCovered, HeldCovered, Covered, Covers,
       Held, ScreenInv, OfferInv, OpeningInv, ReviewInv, PassInv, TheirsInv, Theirs, AckPhases, Active
<1>26. CASE RemoveRow
  BY <1>26 DEF RemoveRow, TypeOK, Budgets
<1>27. CASE UNCHANGED vars
  BY <1>27 DEF vars, KeepInv, NewestEditKept, RowCovered, HeldCovered, Covered, Covers, Held, ScreenInv,
     Unstaged, OfferInv, OpeningInv, ReviewInv, PassInv, TheirsInv, Theirs, NoSketch, NoEditor, NoRow,
     NoReview, Active, AckPhases, device, engine, server, history, Answer
<1> QED
  BY <1>1, <1>2, <1>3, <1>4, <1>5, <1>6, <1>7, <1>8, <1>9, <1>10, <1>11, <1>12, <1>13, <1>14, <1>15,
     <1>16, <1>17, <1>18, <1>19, <1>20, <1>21, <1>22, <1>23, <1>24, <1>25, <1>26, <1>27 DEF Next,
     ScreenNext, EngineNext, OfficeNext

(* Without another row to send, a tap between device writes or an Undo, Field work is never
   lost: the newest durable commit is the draft or Office has it, unless the rep chose
   Office's version over it. *)
THEOREM NewestEditIsKept ==
    ASSUME ~OtherRows, ~TapsMidWrite, MaxRemovals = 0
    PROVE  Spec => []NewestEditKept
<1>1. Init => KeepInv
  BY DEF Init, KeepInv, NewestEditKept, RowCovered, HeldCovered, Held, ScreenInv, Unstaged, OfferInv,
     OpeningInv, ReviewInv, PassInv, TheirsInv, Theirs, NoSketch, NoEditor, NoRow, NoPass, NoReview,
     NoOpening, NoDraft, Active, AckPhases
<1>2. Init => SyncInv
  BY NullTypes DEF Init, SyncInv, SyncedMeansAccepted, LiveRequests, NoRow, NoPass
<1>3. SyncInv /\ TypeOK /\ TypeOK' /\ [Next]_vars => SyncInv'
  BY SyncStep
<1>4. KeepInv /\ SyncInv /\ TypeOK /\ TypeOK' /\ [Next]_vars => KeepInv'
  BY KeepStep
<1>5. KeepInv => NewestEditKept
  BY DEF KeepInv
<1> QED
  BY <1>1, <1>2, <1>3, <1>4, <1>5, TypeCorrect, PTL DEF Spec

-----------------------------------------------------------------------------
(* No copy of a version is ahead of Office, and the Office version a conflict shows is not
   behind the draft it is shown against. *)
VersionsKnown ==
    /\ detail.ver <= office.ver /\ draft.ver <= office.ver /\ floor <= office.ver
    /\ pass.item.srv.ver <= office.ver /\ row.srv.ver <= office.ver
    /\ editor.ver <= office.ver /\ editor.offer.ver <= office.ver
    /\ opening.server.ver <= office.ver /\ opening.draft.ver <= office.ver
    /\ \A i \in 1..Len(chain) : chain[i].ver <= office.ver

ConflictNewer ==
    /\ pass.phase = "answered" /\ pass.item.state = "conflict" /\ draft.gen = pass.item.lgen
         => draft.ver <= pass.item.srv.ver
    /\ row.state = "conflict" /\ draft.gen = row.lgen => draft.ver <= row.srv.ver

VerInv == VersionsKnown /\ ConflictNewer

(* A pass that runSync starts holds no row yet. *)
LEMMA RunSyncPass ==
    ASSUME RunSync
    PROVE  pass' = pass \/ (pass'.phase = "start" /\ pass'.item = NoRow /\ pass'.item.srv.ver = 0)
<1>1. CASE pass.phase = "idle"
  <2>1. NoPass.item = NoRow /\ NoRow.srv.ver = 0 /\ pass' = [NoPass EXCEPT !.phase = "start"]
    BY <1>1 DEF RunSync, NoPass, NoRow, NoSketch
  <2>2. pass'.phase = "start" /\ pass'.item = NoPass.item
    BY <2>1, NullTypes
  <2> QED
    BY <2>1, <2>2
<1> QED
  BY <1>1 DEF RunSync

(* What a longer chain consists of. *)
LEMMA AppendElements ==
    ASSUME NEW s \in Seq(Drafts), NEW d \in Drafts, NEW i \in 1..Len(Append(s, d))
    PROVE  (i \in 1..Len(s) /\ Append(s, d)[i] = s[i]) \/ Append(s, d)[i] = d
OBVIOUS

(* Every step keeps the versions in order. *)
LEMMA VersionStep ==
    ASSUME ~OtherRows, ~TapsMidWrite, MaxRemovals = 0, VerInv, KeepInv, SyncInv, TypeOK, TypeOK', [Next]_vars
    PROVE  VerInv'
<1>t. /\ editor \in Editors /\ row \in Rows /\ draft \in Drafts /\ pass \in Passes /\ opening \in Openings
      /\ review \in Reviews /\ chain \in Seq(Drafts) /\ \A i \in 1..Len(chain) : chain[i] \in Drafts
      /\ office \in Sketches /\ detail \in Sketches /\ floor \in Nat
  BY DEF TypeOK, Versions
<1>v. /\ office.ver \in Nat /\ detail.ver \in Nat /\ draft.ver \in Nat /\ floor \in Nat /\ row.srv.ver \in Nat
      /\ pass.item.srv.ver \in Nat /\ editor.ver \in Nat /\ editor.offer.ver \in Nat
      /\ opening.server.ver \in Nat /\ opening.draft.ver \in Nat
      /\ \A i \in 1..Len(chain) : chain[i].ver \in Nat
  BY <1>t DEF Sketches, Drafts, Rows, Passes, Editors, Openings, Versions
<1>1. CASE OpenLoadDraft
  <2>1. VersionsKnown'
    BY <1>1, <1>t DEF OpenLoadDraft, VerInv, VersionsKnown, ConflictNewer, NoSketch, NoEditor, NoRow,
       NoReview, NoOpening, NoDraft, device, engine, server, history, MaxOf, Versions, Sketches,
       Editors, Rows, Drafts, Passes, Openings, Reviews, KeepInv, ReviewInv
  <2>2. ConflictNewer'
    BY <1>1, <1>t DEF OpenLoadDraft, VerInv, VersionsKnown, ConflictNewer, NoSketch, NoEditor, NoRow,
       NoReview, NoOpening, NoDraft, device, engine, server, history, MaxOf, Versions, Sketches,
       Editors, Rows, Drafts, Passes, Openings, Reviews, KeepInv, RowCovered, HeldCovered, Covered,
       Covers, Held, PassInv, Active, AckPhases, ReviewInv, ScreenInv
  <2> QED
    BY <2>1, <2>2 DEF VerInv
<1>2. CASE OpenFinish
  <2>1. VersionsKnown'
    BY <1>2, <1>t DEF OpenFinish, LocalEditor, ServerEditor, InitialDecision, OpeningInv, VerInv,
       VersionsKnown, ConflictNewer, NoSketch, NoEditor, NoRow, NoReview, NoOpening, NoDraft, device,
       engine, server, history, MaxOf, Versions, Sketches, Editors, Rows, Drafts, Passes, Openings,
       Reviews, KeepInv, ReviewInv
  <2>2. ConflictNewer'
    <3>1. (draft' = draft \/ draft'.ver = 0) /\ row' = row /\ pass' = pass
      BY <1>2 DEF OpenFinish, NoDraft, engine
    <3>2. 0 <= pass.item.srv.ver /\ 0 <= row.srv.ver
      BY <1>v
    <3> QED
      BY <3>1, <3>2 DEF VerInv, ConflictNewer
  <2> QED
    BY <2>1, <2>2 DEF VerInv
<1>3. CASE OpenUseOffice
  <2>1. VersionsKnown'
    <3>1. /\ office' = office
          /\ detail' = editor.offer /\ draft'.ver = 0 /\ editor'.ver = editor.offer.ver /\ editor'.offer.ver = 0
          /\ floor' = floor /\ pass' = pass /\ row' = row /\ opening' = opening /\ chain' = chain
      BY <1>3, <1>t DEF OpenUseOffice, NoDraft, NoSketch, Editors, engine, server
    <3> QED
      BY <3>1, <1>v DEF VerInv, VersionsKnown, MaxOf
  <2>2. ConflictNewer'
    <3>1. draft'.gen = 0 /\ row' = row /\ pass' = pass
      BY <1>3 DEF OpenUseOffice, NoDraft, engine
    <3>2. row.state = "conflict" => row.lgen >= 1
      BY DEF KeepInv, RowCovered, Covered, Covers, Active
    <3>3. pass.phase = "answered" /\ pass.item.state = "conflict" => pass.item.lgen >= 1
      BY DEF KeepInv, HeldCovered, Covered, Covers, Held
    <3> QED
      BY <3>1, <3>2, <3>3, <1>t DEF ConflictNewer, Rows, Passes
  <2> QED
    BY <2>1, <2>2 DEF VerInv
<1>4. CASE OpenKeepMine
  <2>1. VersionsKnown'
    <3>1. /\ office' = office
          /\ detail' = detail /\ draft' = draft /\ floor' = floor /\ pass' = pass /\ row' = row /\ opening' = opening
          /\ editor'.ver = MaxOf(editor.ver, editor.offer.ver) /\ editor'.offer.ver = 0 /\ AsDraft(editor') \in Drafts /\ AsDraft(editor').ver = editor'.ver
          /\ chain' = Append(chain, AsDraft(editor'))
      BY <1>4, <1>t, DraftTypes DEF OpenKeepMine, Adopt, AsDraft, TypeOK, NoSketch, Editors, engine,
         server
    <3>2. \A i \in 1..Len(chain') : chain'[i].ver <= office.ver
      <4> TAKE i \in 1..Len(chain')
      <4>1. (i \in 1..Len(chain) /\ chain'[i] = chain[i]) \/ chain'[i] = AsDraft(editor')
        BY <3>1, <1>t, AppendElements
      <4> QED
        BY <3>1, <4>1, <1>v DEF VerInv, VersionsKnown, MaxOf
    <3> QED
      BY <3>1, <3>2, <1>v DEF VerInv, VersionsKnown, MaxOf
  <2>2. ConflictNewer'
    BY <1>4, <1>t DEF OpenKeepMine, Adopt, AsDraft, VerInv, VersionsKnown, ConflictNewer, NoSketch,
       NoRow, NoReview, device, engine, server, MaxOf, Versions, Sketches, Editors, Rows, Drafts,
       Passes, Openings, Reviews, KeepInv, RowCovered, HeldCovered, Covered, Covers, Held, PassInv,
       Active, AckPhases, ReviewInv, ScreenInv
  <2> QED
    BY <2>1, <2>2 DEF VerInv
<1>5. CASE CloseEditor
  <2>1. VersionsKnown'
    BY <1>5, <1>t DEF CloseEditor, VerInv, VersionsKnown, ConflictNewer, NoSketch, NoEditor, NoRow,
       NoReview, device, engine, server, history, MaxOf, Versions, Sketches, Editors, Rows, Drafts,
       Passes, Openings, Reviews, KeepInv, ReviewInv
  <2>2. ConflictNewer'
    BY <1>5, <1>t DEF CloseEditor, VerInv, VersionsKnown, ConflictNewer, NoSketch, NoEditor, NoRow,
       NoReview, device, engine, server, history, MaxOf, Versions, Sketches, Editors, Rows, Drafts,
       Passes, Openings, Reviews, KeepInv, RowCovered, HeldCovered, Covered, Covers, Held, PassInv,
       Active, AckPhases, ReviewInv, ScreenInv
  <2> QED
    BY <2>1, <2>2 DEF VerInv
<1>6. CASE Commit
  <2>1. VersionsKnown'
    <3>1. /\ office' = office
          /\ detail' = detail /\ draft' = draft /\ floor' = floor /\ pass' = pass /\ row' = row /\ opening' = opening
          /\ editor'.ver = editor.ver /\ editor'.offer = editor.offer /\ AsDraft(editor') \in Drafts /\ AsDraft(editor').ver = editor.ver
          /\ chain' = Append(chain, AsDraft(editor'))
      BY <1>6, <1>t, DraftTypes DEF Commit, AsDraft, TypeOK, Editors, engine, server
    <3>2. \A i \in 1..Len(chain') : chain'[i].ver <= office.ver
      <4> TAKE i \in 1..Len(chain')
      <4>1. (i \in 1..Len(chain) /\ chain'[i] = chain[i]) \/ chain'[i] = AsDraft(editor')
        BY <3>1, <1>t, AppendElements
      <4> QED
        BY <3>1, <4>1, <1>v DEF VerInv, VersionsKnown, MaxOf
    <3> QED
      BY <3>1, <3>2, <1>v DEF VerInv, VersionsKnown, MaxOf
  <2>2. ConflictNewer'
    BY <1>6, <1>t DEF Commit, AsDraft, VerInv, VersionsKnown, ConflictNewer, NoSketch, NoRow, NoReview,
       device, engine, server, MaxOf, Versions, Sketches, Editors, Rows, Drafts, Passes, Openings,
       Reviews, KeepInv, RowCovered, HeldCovered, Covered, Covers, Held, PassInv, Active, AckPhases,
       ReviewInv, ScreenInv
  <2> QED
    BY <2>1, <2>2 DEF VerInv
<1>7. CASE Persist
  <2>1. VersionsKnown'
    <3>1. /\ office' = office
          /\ detail' = detail /\ floor' = floor /\ pass' = pass /\ row' = row /\ opening' = opening
          /\ editor'.ver = editor.ver /\ editor'.offer = editor.offer
          /\ chain # <<>> /\ chain' = Tail(chain) /\ Head(chain) \in Drafts /\ Head(chain) = chain[1]
          /\ draft' = draft \/ draft'.ver = MaxOf(chain[1].ver, MaxOf(draft.ver, detail.ver))
      BY <1>7, <1>t DEF Persist, WriteDraft, Editors, Drafts, engine, server
    <3>3. chain[1].ver <= office.ver /\ chain[1].ver \in Nat
      BY <3>1, <1>t DEF VerInv, VersionsKnown, Drafts, Versions
    <3>2. \A i \in 1..Len(chain') : chain'[i].ver <= office.ver
      BY <3>1, <1>t DEF VerInv, VersionsKnown
    <3> QED
      BY <3>1, <3>2, <3>3, <1>v DEF VerInv, VersionsKnown, MaxOf
  <2>2. ConflictNewer'
    <3>1. row' = row /\ pass' = pass /\ chain # <<>> /\ Head(chain) = chain[1] /\ 1 \in 1..Len(chain)
      BY <1>7, <1>t DEF Persist, engine
    <3>2. draft' = draft \/ (draft'.gen = chain[1].gen /\ ~(draft.gen > chain[1].gen))
      BY <1>7, <3>1, <1>t DEF Persist, WriteDraft, Drafts
    <3>3. /\ row.state = "conflict" => chain[1].gen > row.lgen
          /\ pass.phase = "answered" /\ pass.item.state = "conflict" => chain[1].gen > pass.item.lgen
      BY <3>1 DEF KeepInv, RowCovered, HeldCovered, Covered, Covers, Held, Active
    <3> QED
      BY <3>1, <3>2, <3>3, <1>t DEF VerInv, ConflictNewer, Drafts, Rows, Passes
  <2> QED
    BY <2>1, <2>2 DEF VerInv
<1>8. CASE PersistFails
  <2>1. VersionsKnown'
    <3>1. /\ office' = office
          /\ detail' = detail /\ draft' = draft /\ floor' = floor /\ pass' = pass /\ row' = row /\ opening' = opening
          /\ editor'.ver = editor.ver /\ editor'.offer = editor.offer
          /\ chain # <<>> /\ chain' = Tail(chain)
      BY <1>8, <1>t DEF PersistFails, Editors, Drafts, engine, server
    <3>2. \A i \in 1..Len(chain') : chain'[i].ver <= office.ver
      BY <3>1, <1>t DEF VerInv, VersionsKnown
    <3> QED
      BY <3>1, <3>2, <1>v DEF VerInv, VersionsKnown, MaxOf
  <2>2. ConflictNewer'
    BY <1>8, <1>t DEF PersistFails, VerInv, VersionsKnown, ConflictNewer, NoSketch, NoRow, NoReview,
       device, engine, server, history, MaxOf, Versions, Sketches, Editors, Rows, Drafts, Passes,
       Openings, Reviews, KeepInv, RowCovered, HeldCovered, Covered, Covers, Held, PassInv, Active,
       AckPhases, ReviewInv, ScreenInv
  <2> QED
    BY <2>1, <2>2 DEF VerInv
<1>9. CASE RetrySave
  <2>1. VersionsKnown'
    <3>1. /\ office' = office
          /\ detail' = detail /\ draft' = draft /\ floor' = floor /\ row' = row /\ opening' = opening /\ editor' = editor
          /\ pass' = pass \/ (pass'.phase = "start" /\ pass'.item.srv.ver = 0)
          /\ AsDraft(editor) \in Drafts /\ AsDraft(editor).ver = editor.ver
          /\ chain' = <<AsDraft(editor)>>
      BY <1>9, <1>t, DraftTypes, RunSyncPass DEF RetrySave, AsDraft, TypeOK, server
    <3>2. \A i \in 1..Len(chain') : chain'[i].ver <= office.ver
      BY <3>1 DEF VerInv, VersionsKnown
    <3> QED
      BY <3>1, <3>2, <1>v DEF VerInv, VersionsKnown, MaxOf
  <2>2. ConflictNewer'
    <3>1. row' = row /\ draft' = draft /\ (pass' = pass \/ pass'.phase = "start")
      BY <1>9, RunSyncPass DEF RetrySave
    <3> QED
      BY <3>1 DEF VerInv, ConflictNewer
  <2> QED
    BY <2>1, <2>2 DEF VerInv
<1>10. CASE Stage
  <2>1. VersionsKnown'
    <3>1. /\ office' = office
          /\ detail' = detail /\ draft' = draft /\ floor' = floor /\ opening' = opening /\ chain' = chain
          /\ pass' = pass \/ (pass'.phase = "start" /\ pass'.item.srv.ver = 0)
          /\ row'.srv.ver = 0 /\ editor'.ver = editor.ver /\ editor'.offer = editor.offer
      BY <1>10, <1>t, RunSyncPass DEF Stage, NoSketch, Editors, server
    <3> QED
      BY <3>1, <1>v DEF VerInv, VersionsKnown, MaxOf
  <2>2. ConflictNewer'
    <3>1. row'.state = "pending" /\ draft' = draft /\ (pass' = pass \/ pass'.phase = "start")
      BY <1>10, RunSyncPass DEF Stage
    <3> QED
      BY <3>1 DEF VerInv, ConflictNewer
  <2> QED
    BY <2>1, <2>2 DEF VerInv
<1>11. CASE StageSkips
  <2>1. VersionsKnown'
    BY <1>11, <1>t DEF StageSkips, VerInv, VersionsKnown, ConflictNewer, NoSketch, NoRow, NoReview,
       device, engine, server, history, MaxOf, Versions, Sketches, Editors, Rows, Drafts, Passes,
       Openings, Reviews, KeepInv, ReviewInv
  <2>2. ConflictNewer'
    BY <1>11, <1>t DEF StageSkips, VerInv, VersionsKnown, ConflictNewer, NoSketch, NoRow, NoReview,
       device, engine, server, history, MaxOf, Versions, Sketches, Editors, Rows, Drafts, Passes,
       Openings, Reviews, KeepInv, RowCovered, HeldCovered, Covered, Covers, Held, PassInv, Active,
       AckPhases, ReviewInv, ScreenInv
  <2> QED
    BY <2>1, <2>2 DEF VerInv
<1>12. CASE RefreshScreen
  <2>1. VersionsKnown'
    BY <1>12, <1>t DEF RefreshScreen, Adopt, UiOf, VerInv, VersionsKnown, ConflictNewer, NoSketch,
       NoRow, NoReview, device, engine, server, history, MaxOf, Versions, Sketches, Editors, Rows,
       Drafts, Passes, Openings, Reviews, KeepInv, ReviewInv
  <2>2. ConflictNewer'
    BY <1>12, <1>t DEF RefreshScreen, Adopt, UiOf, VerInv, VersionsKnown, ConflictNewer, NoSketch,
       NoRow, NoReview, device, engine, server, history, MaxOf, Versions, Sketches, Editors, Rows,
       Drafts, Passes, Openings, Reviews, KeepInv, RowCovered, HeldCovered, Covered, Covers, Held,
       PassInv, Active, AckPhases, ReviewInv, ScreenInv
  <2> QED
    BY <2>1, <2>2 DEF VerInv
<1>13. CASE ResolveStale
  <2>1. VersionsKnown'
    BY <1>13, <1>t DEF ResolveStale, VerInv, VersionsKnown, ConflictNewer, NoSketch, NoRow, NoReview,
       device, engine, server, history, MaxOf, Versions, Sketches, Editors, Rows, Drafts, Passes,
       Openings, Reviews, KeepInv, ReviewInv
  <2>2. ConflictNewer'
    BY <1>13, <1>t DEF ResolveStale, VerInv, VersionsKnown, ConflictNewer, NoSketch, NoRow, NoReview,
       device, engine, server, history, MaxOf, Versions, Sketches, Editors, Rows, Drafts, Passes,
       Openings, Reviews, KeepInv, RowCovered, HeldCovered, Covered, Covers, Held, PassInv, Active,
       AckPhases, ReviewInv, ScreenInv
  <2> QED
    BY <2>1, <2>2 DEF VerInv
<1>14. CASE ResolveUseOffice
  <2>1. VersionsKnown'
    <3>1. /\ office' = office
          /\ review.office = row.srv /\ detail' = row.srv /\ draft'.ver = 0 /\ floor' = MaxOf(floor, row.srv.ver)
          /\ pass' = pass /\ opening' = opening /\ chain' = chain /\ row'.srv.ver = 0
          /\ (editor'.ver = editor.ver \/ editor'.ver = row.srv.ver) /\ editor'.offer = editor.offer
      BY <1>14, <1>t DEF ResolveUseOffice, ReviewCurrent, KeepInv, ReviewInv, NoReview, NoDraft, NoRow,
         NoSketch, Editors, engine, server
    <3> QED
      BY <3>1, <1>v DEF VerInv, VersionsKnown, MaxOf
  <2>2. ConflictNewer'
    <3>1. draft'.ver = 0 /\ row'.state = "none" /\ pass' = pass
      BY <1>14 DEF ResolveUseOffice, NoDraft, NoRow, engine
    <3>2. 0 <= pass.item.srv.ver
      BY <1>v
    <3> QED
      BY <3>1, <3>2 DEF ConflictNewer
  <2> QED
    BY <2>1, <2>2 DEF VerInv
<1>15. CASE ResolveKeepLocal
  <2>1. VersionsKnown'
    <3>1. /\ office' = office
          /\ review.office = row.srv /\ detail' = detail /\ draft'.ver = row.srv.ver /\ floor' = MaxOf(floor, row.srv.ver)
          /\ pass' = pass \/ (pass'.phase = "start" /\ pass'.item.srv.ver = 0)
          /\ opening' = opening /\ chain' = chain /\ row'.srv.ver = 0
          /\ (editor'.ver = editor.ver \/ editor'.ver = MaxOf(editor.ver, row.srv.ver)) /\ editor'.offer = editor.offer
      BY <1>15, <1>t, RunSyncPass DEF ResolveKeepLocal, ReviewCurrent, KeepInv, ReviewInv, NoReview,
         NoSketch, Adopt, Editors, server
    <3> QED
      BY <3>1, <1>v DEF VerInv, VersionsKnown, MaxOf
  <2>2. ConflictNewer'
    <3>1. row'.state = "pending" /\ draft'.gen = row.lgen /\ draft'.ver = row.srv.ver /\ row.state = "conflict"
      BY <1>15 DEF ResolveKeepLocal, ReviewCurrent, KeepInv, ReviewInv, NoReview
    <3>2. pass' = pass \/ pass'.phase = "start"
      BY <1>15, RunSyncPass DEF ResolveKeepLocal
    <3>3. pass.phase = "answered" => pass.item = row
      BY <3>1 DEF KeepInv, PassInv
    <3> QED
      BY <3>1, <3>2, <3>3, <1>t DEF VerInv, ConflictNewer, Rows, Sketches, Versions
  <2> QED
    BY <2>1, <2>2 DEF VerInv
<1>16. CASE Trigger
  <2>1. VersionsKnown'
    <3>1. /\ UNCHANGED <<device, office>>
          /\ pass' = pass \/ (pass'.phase = "start" /\ pass'.item.srv.ver = 0)
      BY <1>16, RunSyncPass DEF Trigger, server
    <3> QED
      BY <3>1, <1>v DEF VerInv, VersionsKnown, MaxOf, device
  <2>2. ConflictNewer'
    BY <1>16, <1>t DEF Trigger, VerInv, VersionsKnown, ConflictNewer, NoSketch, NoRow, NoPass, NoReview,
       device, server, history, RunSync, MaxOf, Versions, Sketches, Editors, Rows, Drafts, Passes,
       Openings, Reviews, KeepInv, RowCovered, HeldCovered, Covered, Covers, Held, PassInv, Active,
       AckPhases, ReviewInv, ScreenInv
  <2> QED
    BY <2>1, <2>2 DEF VerInv
<1>17. CASE TimerFires
  <2>1. VersionsKnown'
    <3>1. /\ UNCHANGED <<device, office>>
          /\ pass' = pass \/ (pass'.phase = "start" /\ pass'.item.srv.ver = 0)
      BY <1>17, RunSyncPass DEF TimerFires, server
    <3> QED
      BY <3>1, <1>v DEF VerInv, VersionsKnown, MaxOf, device
  <2>2. ConflictNewer'
    BY <1>17, <1>t DEF TimerFires, VerInv, VersionsKnown, ConflictNewer, NoSketch, NoRow, NoPass,
       NoReview, device, server, history, RunSync, MaxOf, Versions, Sketches, Editors, Rows, Drafts,
       Passes, Openings, Reviews, KeepInv, RowCovered, HeldCovered, Covered, Covers, Held, PassInv,
       Active, AckPhases, ReviewInv, ScreenInv
  <2> QED
    BY <2>1, <2>2 DEF VerInv
<1>18. CASE PassOffline
  <2>1. VersionsKnown'
    BY <1>18, <1>t DEF PassOffline, VerInv, VersionsKnown, ConflictNewer, NoSketch, NoRow, NoReview,
       device, server, history, MaxOf, Versions, Sketches, Editors, Rows, Drafts, Passes, Openings,
       Reviews, KeepInv, ReviewInv
  <2>2. ConflictNewer'
    BY <1>18, <1>t DEF PassOffline, VerInv, VersionsKnown, ConflictNewer, NoSketch, NoRow, NoReview,
       device, server, history, MaxOf, Versions, Sketches, Editors, Rows, Drafts, Passes, Openings,
       Reviews, KeepInv, RowCovered, HeldCovered, Covered, Covers, Held, PassInv, Active, AckPhases,
       ReviewInv, ScreenInv
  <2> QED
    BY <2>1, <2>2 DEF VerInv
<1>19. CASE PassLoad
  <2>1. VersionsKnown'
    BY <1>19, <1>t DEF PassLoad, Unsynced, VerInv, VersionsKnown, ConflictNewer, NoSketch, NoRow,
       NoReview, device, server, history, MaxOf, Versions, Sketches, Editors, Rows, Drafts, Passes,
       Openings, Reviews, KeepInv, ReviewInv
  <2>2. ConflictNewer'
    BY <1>19, <1>t DEF PassLoad, Unsynced, VerInv, VersionsKnown, ConflictNewer, NoSketch, NoRow,
       NoReview, device, server, history, MaxOf, Versions, Sketches, Editors, Rows, Drafts, Passes,
       Openings, Reviews, KeepInv, RowCovered, HeldCovered, Covered, Covers, Held, PassInv, Active,
       AckPhases, ReviewInv, ScreenInv
  <2> QED
    BY <2>1, <2>2 DEF VerInv
<1>20. CASE PassWriteback
  <2>1. VersionsKnown'
    BY <1>20, <1>t DEF PassWriteback, Writeback, VerInv, VersionsKnown, ConflictNewer, NoSketch, NoRow,
       NoPass, NoReview, device, server, history, MaxOf, Versions, Sketches, Editors, Rows, Drafts,
       Passes, Openings, Reviews, KeepInv, ReviewInv
  <2>2. ConflictNewer'
    BY <1>20, <1>t DEF PassWriteback, Writeback, VerInv, VersionsKnown, ConflictNewer, NoSketch, NoRow,
       NoPass, NoReview, device, server, history, MaxOf, Versions, Sketches, Editors, Rows, Drafts,
       Passes, Openings, Reviews, KeepInv, RowCovered, HeldCovered, Covered, Covers, Held, PassInv,
       Active, AckPhases, ReviewInv, ScreenInv
  <2> QED
    BY <2>1, <2>2 DEF VerInv
<1>21. CASE AckDetail
  <2>1. VersionsKnown'
    BY <1>21, <1>t DEF AckDetail, VerInv, VersionsKnown, ConflictNewer, NoSketch, NoRow, NoReview,
       device, server, history, MaxOf, Versions, Sketches, Editors, Rows, Drafts, Passes, Openings,
       Reviews, KeepInv, ReviewInv
  <2>2. ConflictNewer'
    BY <1>21, <1>t DEF AckDetail, VerInv, VersionsKnown, ConflictNewer, NoSketch, NoRow, NoReview,
       device, server, history, MaxOf, Versions, Sketches, Editors, Rows, Drafts, Passes, Openings,
       Reviews, KeepInv, RowCovered, HeldCovered, Covered, Covers, Held, PassInv, Active, AckPhases,
       ReviewInv, ScreenInv
  <2> QED
    BY <2>1, <2>2 DEF VerInv
<1>22. CASE AckDraft
  <2>1. VersionsKnown'
    BY <1>22, <1>t DEF AckDraft, AckedDraft, VerInv, VersionsKnown, ConflictNewer, NoSketch, NoRow,
       NoReview, NoDraft, device, server, history, MaxOf, Versions, Sketches, Editors, Rows, Drafts,
       Passes, Openings, Reviews, KeepInv, ReviewInv
  <2>2. ConflictNewer'
    BY <1>22, <1>t DEF AckDraft, AckedDraft, VerInv, VersionsKnown, ConflictNewer, NoSketch, NoRow,
       NoReview, NoDraft, device, server, history, MaxOf, Versions, Sketches, Editors, Rows, Drafts,
       Passes, Openings, Reviews, KeepInv, RowCovered, HeldCovered, Covered, Covers, Held, PassInv,
       Active, AckPhases, ReviewInv, ScreenInv
  <2> QED
    BY <2>1, <2>2 DEF VerInv
<1>23. CASE AckRow
  <2>1. VersionsKnown'
    BY <1>23, <1>t DEF AckRow, FlooredRow, VerInv, VersionsKnown, ConflictNewer, NoSketch, NoRow,
       NoReview, device, server, history, MaxOf, Versions, Sketches, Editors, Rows, Drafts, Passes,
       Openings, Reviews, KeepInv, ReviewInv
  <2>2. ConflictNewer'
    BY <1>23, <1>t DEF AckRow, FlooredRow, VerInv, VersionsKnown, ConflictNewer, NoSketch, NoRow,
       NoReview, device, server, history, MaxOf, Versions, Sketches, Editors, Rows, Drafts, Passes,
       Openings, Reviews, KeepInv, RowCovered, HeldCovered, Covered, Covers, Held, PassInv, Active,
       AckPhases, ReviewInv, ScreenInv
  <2> QED
    BY <2>1, <2>2 DEF VerInv
<1>24. CASE AckFloor
  <2>1. VersionsKnown'
    BY <1>24, <1>t DEF AckFloor, VerInv, VersionsKnown, ConflictNewer, NoSketch, NoRow, NoPass,
       NoReview, device, server, history, MaxOf, Versions, Sketches, Editors, Rows, Drafts, Passes,
       Openings, Reviews, KeepInv, ReviewInv
  <2>2. ConflictNewer'
    BY <1>24, <1>t DEF AckFloor, VerInv, VersionsKnown, ConflictNewer, NoSketch, NoRow, NoPass,
       NoReview, device, server, history, MaxOf, Versions, Sketches, Editors, Rows, Drafts, Passes,
       Openings, Reviews, KeepInv, RowCovered, HeldCovered, Covered, Covers, Held, PassInv, Active,
       AckPhases, ReviewInv, ScreenInv
  <2> QED
    BY <2>1, <2>2 DEF VerInv
<1>25. CASE PassFinish
  <2>1. VersionsKnown'
    BY <1>25, <1>t DEF PassFinish, VerInv, VersionsKnown, ConflictNewer, NoSketch, NoRow, NoReview,
       device, server, history, MaxOf, Versions, Sketches, Editors, Rows, Drafts, Passes, Openings,
       Reviews, KeepInv, ReviewInv
  <2>2. ConflictNewer'
    BY <1>25, <1>t DEF PassFinish, VerInv, VersionsKnown, ConflictNewer, NoSketch, NoRow, NoReview,
       device, server, history, MaxOf, Versions, Sketches, Editors, Rows, Drafts, Passes, Openings,
       Reviews, KeepInv, RowCovered, HeldCovered, Covered, Covers, Held, PassInv, Active, AckPhases,
       ReviewInv, ScreenInv
  <2> QED
    BY <2>1, <2>2 DEF VerInv
<1>26. CASE PassEnd
  <2>1. VersionsKnown'
    BY <1>26, <1>t DEF PassEnd, VerInv, VersionsKnown, ConflictNewer, NoSketch, NoRow, NoPass, NoReview,
       device, server, history, MaxOf, Versions, Sketches, Editors, Rows, Drafts, Passes, Openings,
       Reviews, KeepInv, ReviewInv
  <2>2. ConflictNewer'
    BY <1>26, <1>t DEF PassEnd, VerInv, VersionsKnown, ConflictNewer, NoSketch, NoRow, NoPass, NoReview,
       device, server, history, MaxOf, Versions, Sketches, Editors, Rows, Drafts, Passes, Openings,
       Reviews, KeepInv, RowCovered, HeldCovered, Covered, Covers, Held, PassInv, Active, AckPhases,
       ReviewInv, ScreenInv
  <2> QED
    BY <2>1, <2>2 DEF VerInv
<1>27. CASE OfficeSaves
  <2>1. VersionsKnown'
    <3>1. /\ UNCHANGED <<device, pass>>
          /\ office'.ver = office.ver + 1
      BY <1>27, <1>t DEF OfficeSaves, engine
    <3>4. office'.ver \in Nat /\ office.ver <= office'.ver /\ chain' = chain
      BY <3>1, <1>v DEF device
    <3>5. \A i \in 1..Len(chain') : chain'[i].ver <= office'.ver
      <4> TAKE i \in 1..Len(chain')
      <4>1. chain[i].ver <= office.ver /\ chain[i].ver \in Nat /\ chain'[i] = chain[i]
        BY <3>4, <1>v DEF VerInv, VersionsKnown
      <4> QED
        BY <3>4, <4>1, <1>v
    <3>u. /\ detail' = detail /\ draft' = draft /\ floor' = floor /\ row' = row /\ editor' = editor
          /\ opening' = opening
      BY <3>1 DEF device
    <3>6. /\ detail'.ver <= office'.ver /\ draft'.ver <= office'.ver /\ floor' <= office'.ver
          /\ row'.srv.ver <= office'.ver /\ editor'.ver <= office'.ver /\ editor'.offer.ver <= office'.ver
          /\ opening'.server.ver <= office'.ver /\ opening'.draft.ver <= office'.ver
      BY SMTT(30), <3>u, <3>4, <1>v DEF VerInv, VersionsKnown
    <3>7. pass'.item.srv.ver <= office'.ver
      BY <3>1, <3>4, <1>v DEF VerInv, VersionsKnown
    <3> QED
      BY <3>5, <3>6, <3>7 DEF VersionsKnown
  <2>2. ConflictNewer'
    BY <1>27, <1>t DEF OfficeSaves, VerInv, VersionsKnown, ConflictNewer, NoSketch, NoRow, NoReview,
       device, engine, server, history, MaxOf, Versions, Sketches, Editors, Rows, Drafts, Passes,
       Openings, Reviews, KeepInv, RowCovered, HeldCovered, Covered, Covers, Held, PassInv, Active,
       AckPhases, ReviewInv, ScreenInv
  <2> QED
    BY <2>1, <2>2 DEF VerInv
<1>28. CASE OfficeLocks
  <2>1. VersionsKnown'
    BY <1>28, <1>t DEF OfficeLocks, VerInv, VersionsKnown, ConflictNewer, NoSketch, NoRow, NoReview,
       device, engine, server, history, MaxOf, Versions, Sketches, Editors, Rows, Drafts, Passes,
       Openings, Reviews, KeepInv, ReviewInv
  <2>2. ConflictNewer'
    BY <1>28, <1>t DEF OfficeLocks, VerInv, VersionsKnown, ConflictNewer, NoSketch, NoRow, NoReview,
       device, engine, server, history, MaxOf, Versions, Sketches, Editors, Rows, Drafts, Passes,
       Openings, Reviews, KeepInv, RowCovered, HeldCovered, Covered, Covers, Held, PassInv, Active,
       AckPhases, ReviewInv, ScreenInv
  <2> QED
    BY <2>1, <2>2 DEF VerInv
<1>29. CASE RefreshDecide
  <2>1. VersionsKnown'
    <3>1. /\ office' = office
          /\ detail' = detail /\ draft' = draft /\ pass' = pass /\ row' = row /\ opening' = opening /\ editor' = editor /\ chain' = chain
          /\ (floor' = floor \/ floor' = MaxOf(floor, office.ver))
      BY <1>29, <1>t DEF RefreshDecide, engine, server
    <3> QED
      BY <3>1, <1>v DEF VerInv, VersionsKnown, MaxOf
  <2>2. ConflictNewer'
    BY <1>29, <1>t DEF RefreshDecide, VerInv, VersionsKnown, ConflictNewer, NoSketch, NoRow, NoReview,
       device, engine, server, history, MaxOf, Versions, Sketches, Editors, Rows, Drafts, Passes,
       Openings, Reviews, KeepInv, RowCovered, HeldCovered, Covered, Covers, Held, PassInv, Active,
       AckPhases, ReviewInv, ScreenInv
  <2> QED
    BY <2>1, <2>2 DEF VerInv
<1>30. CASE RestoreRow
  <2>1. VersionsKnown'
    BY <1>30, <1>t DEF RestoreRow, VerInv, VersionsKnown, ConflictNewer, NoSketch, NoRow, NoReview,
       device, engine, server, history, MaxOf, Versions, Sketches, Editors, Rows, Drafts, Passes,
       Openings, Reviews, KeepInv, ReviewInv
  <2>2. ConflictNewer'
    BY <1>30, <1>t DEF RestoreRow, VerInv, VersionsKnown, ConflictNewer, NoSketch, NoRow, NoReview,
       device, engine, server, history, MaxOf, Versions, Sketches, Editors, Rows, Drafts, Passes,
       Openings, Reviews, KeepInv, RowCovered, HeldCovered, Covered, Covers, Held, PassInv, Active,
       AckPhases, ReviewInv, ScreenInv
  <2> QED
    BY <2>1, <2>2 DEF VerInv
<1>31. CASE CrashRestart
  <2>1. VersionsKnown'
    BY <1>31, <1>t DEF CrashRestart, VerInv, VersionsKnown, ConflictNewer, NoSketch, NoEditor, NoRow,
       NoPass, NoReview, NoOpening, NoDraft, device, server, history, MaxOf, Versions, Sketches,
       Editors, Rows, Drafts, Passes, Openings, Reviews, KeepInv, ReviewInv
  <2>2. ConflictNewer'
    BY <1>31, <1>t DEF CrashRestart, VerInv, VersionsKnown, ConflictNewer, NoSketch, NoEditor, NoRow,
       NoPass, NoReview, NoOpening, NoDraft, device, server, history, MaxOf, Versions, Sketches,
       Editors, Rows, Drafts, Passes, Openings, Reviews, KeepInv, RowCovered, HeldCovered, Covered,
       Covers, Held, PassInv, Active, AckPhases, ReviewInv, ScreenInv
  <2> QED
    BY <2>1, <2>2 DEF VerInv
<1>32. ASSUME NEW online \in BOOLEAN, OpenFetch(online) PROVE VerInv'
  <2>1. VersionsKnown'
    <3>1. /\ office' = office
          /\ (detail' = detail \/ detail' = office) /\ draft' = draft /\ floor' = floor /\ pass' = pass /\ row' = row /\ editor' = editor /\ chain' = chain
          /\ \/ opening'.server.ver = 0 /\ opening'.draft.ver = 0
             \/ opening'.server = detail' /\ opening'.draft = opening.draft
      BY <1>32, <1>t DEF OpenFetch, NoOpening, NoDraft, NoSketch, Openings, engine, server
    <3> QED
      BY <3>1, <1>v DEF VerInv, VersionsKnown, MaxOf
  <2>2. ConflictNewer'
    BY <1>32, <1>t DEF OpenFetch, VerInv, VersionsKnown, ConflictNewer, NoSketch, NoRow, NoReview,
       NoOpening, NoDraft, device, engine, server, history, MaxOf, Versions, Sketches, Editors, Rows,
       Drafts, Passes, Openings, Reviews, KeepInv, RowCovered, HeldCovered, Covered, Covers, Held,
       PassInv, Active, AckPhases, ReviewInv, ScreenInv
  <2> QED
    BY <2>1, <2>2 DEF VerInv
<1>33. ASSUME NEW online \in BOOLEAN, RefreshPull(online) PROVE VerInv'
  <2>1. VersionsKnown'
    BY <1>33, <1>t DEF RefreshPull, VerInv, VersionsKnown, ConflictNewer, NoSketch, NoRow, NoReview,
       device, engine, server, history, MaxOf, Versions, Sketches, Editors, Rows, Drafts, Passes,
       Openings, Reviews, KeepInv, ReviewInv
  <2>2. ConflictNewer'
    BY <1>33, <1>t DEF RefreshPull, VerInv, VersionsKnown, ConflictNewer, NoSketch, NoRow, NoReview,
       device, engine, server, history, MaxOf, Versions, Sketches, Editors, Rows, Drafts, Passes,
       Openings, Reviews, KeepInv, RowCovered, HeldCovered, Covered, Covers, Held, PassInv, Active,
       AckPhases, ReviewInv, ScreenInv
  <2> QED
    BY <2>1, <2>2 DEF VerInv
<1>34. ASSUME NEW choice \in {"use_office", "keep_local"}, BeginResolve(choice) PROVE VerInv'
  <2>1. VersionsKnown'
    BY <1>34, <1>t DEF BeginResolve, VerInv, VersionsKnown, ConflictNewer, NoSketch, NoRow, NoReview,
       device, engine, server, history, MaxOf, Versions, Sketches, Editors, Rows, Drafts, Passes,
       Openings, Reviews, KeepInv, ReviewInv
  <2>2. ConflictNewer'
    BY <1>34, <1>t DEF BeginResolve, VerInv, VersionsKnown, ConflictNewer, NoSketch, NoRow, NoReview,
       device, engine, server, history, MaxOf, Versions, Sketches, Editors, Rows, Drafts, Passes,
       Openings, Reviews, KeepInv, RowCovered, HeldCovered, Covered, Covers, Held, PassInv, Active,
       AckPhases, ReviewInv, ScreenInv
  <2> QED
    BY <2>1, <2>2 DEF VerInv
<1>35. ASSUME NEW late \in BOOLEAN, PassTimesOut(late) PROVE VerInv'
  <2>1. VersionsKnown'
    BY <1>35, <1>t DEF PassTimesOut, Answer, VerInv, VersionsKnown, ConflictNewer, NoSketch, NoRow,
       NoReview, device, server, history, MaxOf, Versions, Sketches, Editors, Rows, Drafts, Passes,
       Openings, Reviews, KeepInv, ReviewInv
  <2>2. ConflictNewer'
    BY <1>35, <1>t DEF PassTimesOut, Answer, VerInv, VersionsKnown, ConflictNewer, NoSketch, NoRow,
       NoReview, device, server, history, MaxOf, Versions, Sketches, Editors, Rows, Drafts, Passes,
       Openings, Reviews, KeepInv, RowCovered, HeldCovered, Covered, Covers, Held, PassInv, Active,
       AckPhases, ReviewInv, ScreenInv
  <2> QED
    BY <2>1, <2>2 DEF VerInv
<1>36. ASSUME NEW r \in wire, OfficeRefuses(r) PROVE VerInv'
  <2>1. VersionsKnown'
    BY <1>36, <1>t DEF OfficeRefuses, Answer, VerInv, VersionsKnown, ConflictNewer, NoSketch, NoRow,
       NoReview, device, server, history, MaxOf, Versions, Sketches, Editors, Rows, Drafts, Passes,
       Openings, Reviews, KeepInv, ReviewInv
  <2>2. ConflictNewer'
    BY <1>36, <1>t DEF OfficeRefuses, Answer, VerInv, VersionsKnown, ConflictNewer, NoSketch, NoRow,
       NoReview, device, server, history, MaxOf, Versions, Sketches, Editors, Rows, Drafts, Passes,
       Openings, Reviews, KeepInv, RowCovered, HeldCovered, Covered, Covers, Held, PassInv, Active,
       AckPhases, ReviewInv, ScreenInv
  <2> QED
    BY <2>1, <2>2 DEF VerInv
<1>37. ASSUME NEW r \in wire, OfficeHandles(r) PROVE VerInv'
  <2>1. VersionsKnown'
    <3>1. UNCHANGED <<device, removed>> /\ (office'.ver = office.ver \/ office'.ver = office.ver + 1)
      BY <1>37 DEF OfficeHandles
    <3>2. pass' = pass \/ Answer("locked", pass.item.srv) \/ Answer("synced", office') \/ Answer("conflict", office)
      BY <1>37 DEF OfficeHandles
    <3>3. pass'.item.srv = pass.item.srv \/ pass'.item.srv = office \/ pass'.item.srv = office'
      BY <1>37, <3>2, AnswerKeeps DEF OfficeHandles
    <3>4. office'.ver \in Nat /\ office.ver <= office'.ver /\ chain' = chain
      BY <3>1, <1>v DEF device
    <3>5. \A i \in 1..Len(chain') : chain'[i].ver <= office'.ver
      <4> TAKE i \in 1..Len(chain')
      <4>1. chain[i].ver <= office.ver /\ chain[i].ver \in Nat /\ chain'[i] = chain[i]
        BY <3>4, <1>v DEF VerInv, VersionsKnown
      <4> QED
        BY <3>4, <4>1, <1>v
    <3>u. /\ detail' = detail /\ draft' = draft /\ floor' = floor /\ row' = row /\ editor' = editor
          /\ opening' = opening
      BY <3>1 DEF device
    <3>6. /\ detail'.ver <= office'.ver /\ draft'.ver <= office'.ver /\ floor' <= office'.ver
          /\ row'.srv.ver <= office'.ver /\ editor'.ver <= office'.ver /\ editor'.offer.ver <= office'.ver
          /\ opening'.server.ver <= office'.ver /\ opening'.draft.ver <= office'.ver
      BY <3>u, <3>4, <1>v DEF VerInv, VersionsKnown
    <3>7. pass'.item.srv.ver <= office'.ver
      BY <3>3, <3>4, <1>v DEF VerInv, VersionsKnown
    <3> QED
      BY <3>5, <3>6, <3>7 DEF VersionsKnown
  <2>2. ConflictNewer'
    <3>1. UNCHANGED <<row, draft>>
      BY <1>37 DEF OfficeHandles, device
    <3>2. pass' = pass \/ (\E s \in {"locked", "synced", "conflict"} : \E v : Answer(s, v) /\ (s = "conflict" => v = office))
      BY <1>37 DEF OfficeHandles
    <3>3. pass' = pass \/ (pass'.item.state = "conflict" => pass'.item.srv = office)
      BY <3>2, AnswerKeeps
    <3>4. draft.ver <= office.ver
      BY DEF VerInv, VersionsKnown
    <3> QED
      BY <3>1, <3>3, <3>4 DEF VerInv, ConflictNewer
  <2> QED
    BY <2>1, <2>2 DEF VerInv
<1>38. CASE RemoveRow
  BY <1>38 DEF RemoveRow, TypeOK, Budgets
<1>39. CASE UNCHANGED vars
  BY <1>39 DEF vars, VerInv, VersionsKnown, ConflictNewer, device, engine, server, history, MaxOf,
     Versions, Sketches, Editors, Rows, Drafts, Passes, Openings, Reviews
<1> QED
  BY <1>1, <1>2, <1>3, <1>4, <1>5, <1>6, <1>7, <1>8, <1>9, <1>10, <1>11, <1>12, <1>13, <1>14, <1>15,
     <1>16, <1>17, <1>18, <1>19, <1>20, <1>21, <1>22, <1>23, <1>24, <1>25, <1>26, <1>27, <1>28, <1>29,
     <1>30, <1>31, <1>32, <1>33, <1>34, <1>35, <1>36, <1>37, <1>38, <1>39 DEF Next, ScreenNext,
     EngineNext, OfficeNext

(* One step never lowers the version of a draft that lives on. *)
LEMMA VersionKept ==
    ASSUME VerInv, KeepInv, TypeOK, [Next]_vars
    PROVE  draft.gen > 0 /\ draft'.gen > 0 => draft'.ver >= draft.ver
<1>t. draft \in Drafts /\ draft.ver \in Nat /\ draft.gen \in Nat /\ row \in Rows
  BY DEF TypeOK, Drafts, Versions
<1>1. CASE Persist
  <2>h. Head(chain) \in Drafts
    BY <1>1 DEF Persist, TypeOK
  <2>1. Head(chain) \in Drafts /\ Head(chain).ver \in Nat /\ detail.ver \in Nat
    BY <2>h DEF TypeOK, Drafts, Sketches, Versions
  <2>2. draft' = draft \/ draft'.ver = MaxOf(Head(chain).ver, MaxOf(draft.ver, detail.ver))
    BY <1>1, <2>1 DEF Persist, WriteDraft, Drafts
  <2> QED
    BY <2>1, <2>2, <1>t DEF MaxOf
<1>2. CASE AckDraft
  <2>1. pass.item.srv.ver \in Nat
    BY DEF TypeOK, Passes, Rows, Sketches, Versions
  <2>2. draft' = draft \/ draft'.gen = 0 \/ draft'.ver = MaxOf(draft.ver, pass.item.srv.ver)
    BY <1>2, <1>t DEF AckDraft, AckedDraft, NoDraft, Drafts
  <2> QED
    BY <2>1, <2>2, <1>t DEF MaxOf
<1>3. CASE ResolveKeepLocal
  <2>1. draft'.ver = row.srv.ver /\ row.state = "conflict" /\ draft.gen <= row.lgen
    BY <1>3 DEF ResolveKeepLocal, ReviewCurrent, KeepInv, ReviewInv, NoReview
  <2>2. draft.gen >= row.lgen
    BY <2>1 DEF KeepInv, RowCovered, Covered, Covers, Active
  <2>3. draft.gen = row.lgen
    BY <2>1, <2>2, <1>t DEF Rows
  <2>4. draft.ver <= row.srv.ver /\ row.srv.ver \in Nat
    BY <2>1, <2>3, <1>t DEF VerInv, ConflictNewer, Rows, Sketches, Versions
  <2> QED
    BY <2>1, <2>4, <1>t
<1>4. CASE OpenFinish \/ OpenUseOffice \/ ResolveUseOffice
  BY <1>4, <1>t DEF OpenFinish, OpenUseOffice, ResolveUseOffice, NoDraft
<1>5. CASE UNCHANGED draft
  BY <1>5, <1>t
<1>6. \/ Persist \/ AckDraft \/ ResolveKeepLocal \/ OpenFinish \/ OpenUseOffice \/ ResolveUseOffice
      \/ UNCHANGED draft
  BY DEF Next, ScreenNext, EngineNext, OfficeNext, vars, device, OpenLoadDraft, OpenFetch, OpenKeepMine,
     CloseEditor, Commit, PersistFails, RetrySave, Stage, StageSkips, RefreshScreen, BeginResolve,
     ResolveStale, Trigger, TimerFires, PassOffline, PassLoad, PassTimesOut, PassWriteback, AckDetail,
     AckRow, AckFloor, PassFinish, PassEnd, OfficeHandles, OfficeRefuses, OfficeSaves, OfficeLocks,
     RefreshDecide, RefreshPull, RemoveRow, RestoreRow, CrashRestart
<1> QED
  BY <1>1, <1>2, <1>3, <1>4, <1>5, <1>6

(* Under the same timing, the durable draft's compare-and-swap version never goes back while
   the draft lives, whichever of an acknowledgement, a write and a resolution comes last. *)
THEOREM VersionsOnlyGrow ==
    ASSUME ~OtherRows, ~TapsMidWrite, MaxRemovals = 0
    PROVE  Spec => DraftVersionNeverRegresses
<1>1. Init => KeepInv /\ SyncInv /\ VerInv
  <2>1. Init => KeepInv
    BY DEF Init, KeepInv, NewestEditKept, RowCovered, HeldCovered, Held, ScreenInv, Unstaged, OfferInv,
       OpeningInv, ReviewInv, PassInv, TheirsInv, Theirs, NoSketch, NoEditor, NoRow, NoPass, NoReview,
       NoOpening, NoDraft, Active, AckPhases
  <2>2. Init => SyncInv
    BY NullTypes DEF Init, SyncInv, SyncedMeansAccepted, LiveRequests, NoRow, NoPass
  <2>3. Init => VerInv
    BY DEF Init, VerInv, VersionsKnown, ConflictNewer, NoSketch, NoEditor, NoRow, NoPass, NoOpening,
       NoDraft
  <2> QED
    BY <2>1, <2>2, <2>3
<1>2. SyncInv /\ TypeOK /\ TypeOK' /\ [Next]_vars => SyncInv'
  BY SyncStep
<1>3. KeepInv /\ SyncInv /\ TypeOK /\ TypeOK' /\ [Next]_vars => KeepInv'
  BY KeepStep
<1>4. VerInv /\ KeepInv /\ SyncInv /\ TypeOK /\ TypeOK' /\ [Next]_vars => VerInv'
  BY VersionStep
<1>5. VerInv /\ KeepInv /\ TypeOK /\ [Next]_vars
        => [draft.gen > 0 /\ draft'.gen > 0 => draft'.ver >= draft.ver]_vars
  BY VersionKept
<1> QED
  BY <1>1, <1>2, <1>3, <1>4, <1>5, TypeCorrect, PTL DEF Spec, DraftVersionNeverRegresses

=============================================================================
