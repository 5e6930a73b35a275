------------------------------- MODULE Backups -------------------------------
(***************************************************************************)
(* Backups of the Office database: the Backups page on two desks, the      *)
(* scheduler, services/backup.py and the restore of routers/admin_ops.py.  *)
(*                                                                         *)
(*   data   what the database holds, as the number of its last change; 0   *)
(*          while it has been dropped                                      *)
(*   disk   the backup directory; away: the copy location                  *)
(*   sched  schedule.json with what schedule_state.json says               *)
(*   dump   a pg_dump at work; res: a restore at work                      *)
(*   page   per desk: the lists and the schedule as loaded, the dialog     *)
(***************************************************************************)
EXTENDS Integers, FiniteSets

CONSTANTS Desks,
          Keeps,       \* retentions people choose; 0 keeps all
          MaxFiles,    \* bound: files in the backup directory
          MaxActs,     \* bound: what people do
          MaxEvents,   \* bound: failures, restarts, new days
          Windows      \* schedules left out unless named: "busy", "restage"

VARIABLES data, disk, away, sched, dump, res, page, hist

vars == <<data, disk, away, sched, dump, res, page, hist>>

NoOne == 0                                \* the scheduler's desk
NoDump == [on |-> FALSE, by |-> NoOne, auto |-> FALSE, of |-> 0]
NoRestore == [at |-> "", by |-> NoOne, name |-> 0]
Safety == "_safety"
\* names carry the time of their making, `at` is when the file was written here
File(now, tag, of) == [name |-> now, at |-> now, tag |-> tag, of |-> of, copied |-> FALSE]
Names(fs) == {f.name : f \in fs}
Named(fs, n) == CHOOSE f \in fs : f.name = n

Tick(h) == [h EXCEPT !.clock = @ + 1]
Acting == data # 0 /\ hist.acts < MaxActs
Acted == [hist EXCEPT !.acts = @ + 1]
Act == Acting /\ hist' = Acted
Event == hist.events < MaxEvents /\ hist' = [hist EXCEPT !.events = @ + 1]
Now == hist.clock + 1
Room == Cardinality(disk) < MaxFiles

(***************************************************************************)
(* services/backup.py.                                                     *)
(***************************************************************************)
Newest(fs, f) == \A g \in fs : g.at <= f.at
prune_local_All(fs, keep) == {f \in fs : keep = 0 \/ Cardinality({g \in fs : g.at > f.at}) < keep}
\* the newest `keep` files, and the newest safety backup
prune_local(fs, keep) ==
    LET safe == {f \in fs : f.tag = Safety}
    IN  {f \in fs : \/ keep = 0 \/ Cardinality({g \in fs : g.at > f.at}) < keep
                    \/ f \in safe /\ Newest(safe, f)}

prune_offsite(fs, keep) == {f \in fs : keep = 0 \/ Cardinality({g \in fs : g.name > f.name}) < keep}
copy_offsite(f) == prune_offsite({g \in away : g.name # f.name} \cup {f}, sched.awayKeep)
Marked(fs, n) == {IF f.name = n THEN [f EXCEPT !.copied = TRUE] ELSE f : f \in fs}

\* stage_offsite_for_restore: the copy comes back under its name, as the newest file
Staged(n) == {f \in disk : f.name # n} \cup {[Named(away, n) EXCEPT !.at = Now]}

Lists(p) == [p EXCEPT !.files = Names(disk'), !.copies = IF sched'.dir THEN Names(away') ELSE {}]
\* load
Loaded(p) == [Lists(p) EXCEPT !.sched = sched', !.dir = sched'.dir, !.awayKeep = sched'.awayKeep]
Set(d, p) == page' = [page EXCEPT ![d] = p]

Init ==
    /\ data = 1 /\ disk = {} /\ away = {}
    /\ \E keep \in Keeps, dir \in BOOLEAN :
         sched = [on |-> FALSE, copy |-> FALSE, keep |-> keep, awayKeep |-> 1, dir |-> dir,
                  last |-> "", copied |-> "", today |-> FALSE]
    /\ dump = NoDump /\ res = NoRestore
    /\ page = [d \in Desks |-> [files |-> {}, copies |-> {}, sched |-> sched, dir |-> sched.dir,
                                awayKeep |-> 1, target |-> 0, busy |-> FALSE]]
    /\ hist = [acts |-> 0, events |-> 0, clock |-> 0, undo |-> 0, lost |-> FALSE]

\* people work on; while a restore is being prepared they could, too
Work ==
    /\ Act /\ res.at # "filling" /\ ("busy" \in Windows \/ res.at = "")
    /\ data' = data + 1
    /\ UNCHANGED <<disk, away, sched, dump, res, page>>

load(d) ==
    /\ Act /\ UNCHANGED <<data, disk, away, sched, dump, res>> /\ Set(d, Loaded(page[d]))

(***************************************************************************)
(* Create, import, and the automatic backup.                               *)
(***************************************************************************)
createBackup(d) ==
    /\ Act /\ ~dump.on /\ ~page[d].busy /\ Room
    /\ dump' = [on |-> TRUE, by |-> d, auto |-> FALSE, of |-> data]
    /\ Set(d, [page[d] EXCEPT !.busy = TRUE])
    /\ UNCHANGED <<data, disk, away, sched, res>>

runScheduledNow(d) ==
    /\ Act /\ ~dump.on /\ ~page[d].busy /\ Room
    /\ dump' = [on |-> TRUE, by |-> d, auto |-> TRUE, of |-> data]
    /\ Set(d, [page[d] EXCEPT !.busy = TRUE])
    /\ UNCHANGED <<data, disk, away, sched, res>>

\* once a day, and also over a database that has been dropped
_scheduler_tick ==
    /\ sched.on /\ ~sched.today /\ ~dump.on /\ Room
    /\ dump' = [on |-> TRUE, by |-> NoOne, auto |-> TRUE, of |-> data]
    /\ UNCHANGED <<data, disk, away, sched, res, page, hist>>

NewDay == Event /\ sched' = [sched EXCEPT !.today = FALSE]
          /\ UNCHANGED <<data, disk, away, dump, res, page>>

\* what run_scheduled_backup notes: a failure stays until a run succeeds
Ran(s, ok, copied) == [s EXCEPT !.last = IF ok THEN "OK" ELSE "FAIL", !.copied = copied, !.today = TRUE]

\* A safety backup brought back from the copy location is the newest one until the restore
\* has made its own: retention, a failure or a stop meanwhile is left out
Restaged == /\ res.at = "safety"
            /\ \E f \in disk : f.name = res.name /\ f.tag = Safety /\ f.at # f.name
Settled == "restage" \in Windows \/ ~Restaged

DumpDone ==
    LET made == File(Now, "", dump.of)
        kept == prune_local(disk \cup {made}, sched.keep)
        copies == dump.auto /\ sched.copy
    IN
    /\ dump.on /\ dump' = NoDump /\ Settled
    /\ \/ /\ hist' = Tick(hist)
          /\ disk' = IF copies THEN Marked(kept, made.name) ELSE kept
          /\ away' = IF copies THEN copy_offsite(made) ELSE away
          /\ sched' = IF dump.auto THEN Ran(sched, TRUE, IF copies THEN "OK" ELSE "") ELSE sched
       \/ /\ copies /\ hist.events < MaxEvents         \* the copy location is not reached
          /\ hist' = Tick([hist EXCEPT !.events = @ + 1])
          /\ disk' = kept /\ away' = away /\ sched' = Ran(sched, TRUE, "FAIL")
    /\ page' = IF dump.by = NoOne THEN page
               ELSE [page EXCEPT ![dump.by] = Loaded([@ EXCEPT !.busy = FALSE])]
    /\ UNCHANGED <<data, res>>

\* pg_dump fails, or the database is dropped under it
DumpGone(s) == IF dump.auto THEN Ran(s, FALSE, "") ELSE s
Freed(ps, d) == IF d = NoOne THEN ps ELSE [ps EXCEPT ![d].busy = FALSE]
DumpFails ==
    /\ dump.on /\ Event /\ dump' = NoDump /\ sched' = DumpGone(sched) /\ page' = Freed(page, dump.by)
    /\ UNCHANGED <<data, disk, away, res>>

\* a file downloaded before, of some earlier state; no retention is applied
onUploadFile(d) ==
    /\ Acting /\ hist' = Tick(Acted) /\ Room
    /\ \E v \in 1..data : disk' = disk \cup {File(Now, "_import", v)}
    /\ UNCHANGED <<data, away, sched, dump, res>> /\ Set(d, Loaded(page[d]))

(***************************************************************************)
(* The schedule and the copy location.                                     *)
(***************************************************************************)
\* set_schedule: the page sends the whole schedule as it last saw it
set_schedule(s, dir) ==
    [sched EXCEPT !.on = s.on, !.copy = s.copy, !.keep = s.keep, !.dir = dir]
saveSchedule(d, s, dir) ==
    /\ Act /\ (s.copy => dir)
    /\ sched' = set_schedule(s, dir)
    /\ Set(d, [page[d] EXCEPT !.sched = sched'])
    /\ UNCHANGED <<data, disk, away, dump, res>>
SwitchOn(d) == saveSchedule(d, [page[d].sched EXCEPT !.on = ~@], page[d].sched.dir)
SaveRetention(d) == \E keep \in Keeps : saveSchedule(d, [page[d].sched EXCEPT !.keep = keep], page[d].sched.dir)
SwitchCopy(d) == saveSchedule(d, [page[d].sched EXCEPT !.copy = ~@], page[d].dir)

saveLocation(d) == \E keep \in Keeps, dir \in BOOLEAN :
    /\ Act /\ sched' = [sched EXCEPT !.dir = dir, !.awayKeep = keep]
    /\ Set(d, [page[d] EXCEPT !.sched = sched', !.dir = dir, !.awayKeep = keep])
    /\ UNCHANGED <<data, disk, away, dump, res>>

OffersFile(d, n) == n \in page[d].files
\* "Copy to location"; a copy older than those there is pruned at once
copyOffsite(d, n) ==
    /\ OffersFile(d, n) /\ Act
    /\ \/ /\ n \in Names(disk) /\ sched.dir
          /\ away' = copy_offsite([Named(disk, n) EXCEPT !.copied = FALSE])
          /\ disk' = Marked(disk, n) /\ sched' = [sched EXCEPT !.copied = "OK"]
          /\ Set(d, Loaded(page[d]))
       \/ /\ n \notin Names(disk) \/ ~sched.dir
          /\ sched' = IF n \in Names(disk) THEN [sched EXCEPT !.copied = "FAIL"] ELSE sched
          /\ UNCHANGED <<disk, away, page>>
    /\ UNCHANGED <<data, dump, res>>

(***************************************************************************)
(* Restore: a safety backup, the database dropped and made, then filled.   *)
(* Two restores at a time are left out.                                    *)
(***************************************************************************)
openRestore(d, n) ==
    /\ Act /\ OffersFile(d, n) /\ Set(d, [page[d] EXCEPT !.target = n])
    /\ UNCHANGED <<data, disk, away, sched, dump, res>>
cancelRestore(d) ==
    /\ Act /\ page[d].target # 0 /\ res.by # d /\ Set(d, [page[d] EXCEPT !.target = 0])
    /\ UNCHANGED <<data, disk, away, sched, dump, res>>

doRestore(d) ==
    /\ Act /\ page[d].target # 0 /\ res.at = ""
    /\ res' = IF page[d].target \in Names(disk) THEN [at |-> "safety", by |-> d, name |-> page[d].target]
              ELSE res
    /\ UNCHANGED <<data, disk, away, sched, dump, page>>

OffersCopy(d, n) == n \in page[d].copies
restoreFromCopy(d, n) ==
    /\ Acting /\ OffersCopy(d, n) /\ res.at = ""
    /\ IF n \in Names(away) /\ sched.dir
       THEN disk' = Staged(n) /\ res' = [at |-> "safety", by |-> d, name |-> n] /\ hist' = Tick(Acted)
       ELSE UNCHANGED <<disk, res>> /\ hist' = Acted
    /\ UNCHANGED <<data, away, sched, dump, page>>

SafetyMade(now) == disk \cup {File(now, Safety, data)}
SafetyBackup ==
    /\ res.at = "safety" /\ res' = [res EXCEPT !.at = "drop"]
    /\ disk' = SafetyMade(Now) /\ hist' = Tick([hist EXCEPT !.undo = data])
    /\ UNCHANGED <<data, away, sched, dump, page>>
\* "so the restore was aborted"
SafetyFails ==
    /\ res.at = "safety" /\ Event /\ res' = NoRestore /\ Settled
    /\ UNCHANGED <<data, disk, away, sched, dump, page>>

\* DROP DATABASE WITH (FORCE): a pg_dump at work loses its connection
Drop ==
    /\ res.at = "drop" /\ res' = [res EXCEPT !.at = "filling"]
    /\ data' = 0 /\ hist' = [hist EXCEPT !.lost = @ \/ data # hist.undo]
    /\ dump' = NoDump /\ sched' = IF dump.on THEN DumpGone(sched) ELSE sched
    /\ page' = Freed(page, dump.by)
    /\ UNCHANGED <<disk, away>>

\* pg_restore reads the file now: retention may have taken it since
Fill ==
    /\ res.at = "filling" /\ res' = NoRestore
    /\ data' = IF res.name \in Names(disk) THEN Named(disk, res.name).of ELSE 0
    /\ UNCHANGED <<disk, away, sched, dump, hist>>
    /\ page' = IF data' = 0 THEN page ELSE [page EXCEPT ![res.by] = Loaded([@ EXCEPT !.target = 0])]

\* the program stops: nothing takes the restore or the dump up again
Crash ==
    /\ Event /\ (dump.on \/ res.at # "") /\ Settled /\ dump' = NoDump /\ res' = NoRestore
    /\ page' = [d \in Desks |-> [page[d] EXCEPT !.busy = FALSE, !.target = 0]]
    /\ UNCHANGED <<data, disk, away, sched>>

Next ==
    \/ Work \/ _scheduler_tick \/ NewDay \/ DumpDone \/ DumpFails
    \/ \E d \in Desks : \/ load(d) \/ createBackup(d) \/ runScheduledNow(d) \/ onUploadFile(d)
                        \/ SwitchOn(d) \/ SaveRetention(d) \/ SwitchCopy(d) \/ saveLocation(d)
                        \/ cancelRestore(d) \/ doRestore(d)
                        \/ \E n \in 1..hist.clock : copyOffsite(d, n) \/ openRestore(d, n) \/ restoreFromCopy(d, n)
    \/ SafetyBackup \/ SafetyFails \/ Drop \/ Fill \/ Crash

Spec == Init /\ [][Next]_vars

(***************************************************************************)
(* Property.                                                               *)
(***************************************************************************)
\* "A safety backup is taken first so you can undo": what a restore replaced is in a
\* file of the backup directory, whatever is created, copied, pruned or fails after it,
\* also when the database was left empty.
UndoPointKept ==
    /\ ~hist.lost
    /\ hist.undo # 0 => \E f \in disk : f.of = hist.undo

=============================================================================
