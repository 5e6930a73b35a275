------------------------------ MODULE Canvass ------------------------------
(***************************************************************************)
(* Territories and canvass sections: the Office server that keeps them,    *)
(* the Office map on which they are drawn, and the map of a rep's phone.   *)
(*                                                                         *)
(*   srv     terr (a territory's ring), home (a property's territory),     *)
(*           sect (terr, ring, rep: assigned to the rep of the phone),     *)
(*           member (CanvassSectionProperty), leads, job (the import),     *)
(*           work (a section checked and not yet written)                  *)
(*   office  MapView.jsx: territories and sections listed and selected,    *)
(*           the drawing, its dialog, the requests in flight               *)
(*   sheet   PropertySheet.jsx                                             *)
(*   device  MapScreen.js: three independent loads and their caches        *)
(*                                                                         *)
(* A ring is the set of places it encloses, a property is the place it     *)
(* stands on. A list of pins is the area or territory it was loaded for.   *)
(***************************************************************************)
EXTENDS Integers, FiniteSets, FiniteSetsExt

CONSTANTS Places,     \* addresses of the map
          MaxTerr,    \* bound: territories ever made
          MaxSect,    \* bound: sections ever made
          MaxActs,    \* bound: what people do
          MaxEvents,  \* bound: what networks, other desks and restarts do
          Windows     \* schedules left out unless named: "create", "sheet"

VARIABLES srv, office, sheet, device, hist

vars == <<srv, office, sheet, device, hist>>

None == 0
Territories == 1..MaxTerr
Sections == 1..MaxSect
Rings == SUBSET Places \ {{}}
NoSect == [terr |-> None, ring |-> {}, rep |-> FALSE]
NoJob == [st |-> "none", terr |-> None, left |-> {}]

Act == hist.acts < MaxActs /\ hist' = [hist EXCEPT !.acts = @ + 1]
Event == hist.events < MaxEvents /\ hist' = [hist EXCEPT !.events = @ + 1]

(***************************************************************************)
(* The server.                                                             *)
(***************************************************************************)
Live(v) == {t \in Territories : v.terr[t] # {}}
SectionsOf(v, t) == {s \in Sections : v.sect[s].terr = t}
Members(v, s) == {p \in Places : <<s, p>> \in v.member}

\* properties of the territory inside the ring, and those another section has
Inside(v, t, ring) == {p \in ring : v.home[p] = t}
Conflicts(v, t, ring) == {p \in Inside(v, t, ring) : \E s \in SectionsOf(v, t) : p \in Members(v, s)}
Contained(v, t, ring) == v.terr[t] # {} /\ ring \subseteq v.terr[t]

\* what create_section accepts
CreateCheck_Preview(v, t, ring) == Contained(v, t, ring)
CreateCheck(v, t, ring) == Contained(v, t, ring) /\ Conflicts(v, t, ring) = {}

\* the new section, and recompute_membership
Created(v, t, ring, rep) ==
    LET s == v.sects + 1
    IN  [v EXCEPT !.sects = s, !.sect[s] = [terr |-> t, ring |-> ring, rep |-> rep],
                  !.member = @ \cup ({s} \X Inside(v, t, ring))]

\* delete_section: its membership rows go with it
WithoutSection(v, s) ==
    [v EXCEPT !.sect[s] = NoSect, !.member = {m \in @ : m[1] # s}]
\* delete_territory: properties are detached, its sections cascade
WithoutTerritory(v, t) ==
    [v EXCEPT !.terr[t] = {},
              !.home = [p \in Places |-> IF @[p] = t THEN None ELSE @[p]],
              !.sect = [s \in Sections |-> IF @[s].terr = t THEN NoSect ELSE @[s]],
              !.member = {m \in @ : v.sect[m[1]].terr # t}]

\* _visible_sections, _map_territory_scope: a rep with no section sees every territory
RepSections(v) == {s \in Sections : v.sect[s].rep}
Scope(v) == IF RepSections(v) = {} THEN Live(v) ELSE {v.sect[s].terr : s \in RepSections(v)}
Areas(v) ==
    LET filled == {t \in Scope(v) : \E p \in Places : v.home[p] = t}
        zipped == \E p \in Places : v.home[p] \in (IF RepSections(v) = {} THEN {None} ELSE {}) \cup filled
    IN  ({"section"} \X RepSections(v)) \cup ({"territory"} \X filled)
        \cup IF zipped THEN {<<"zip", 1>>} ELSE {}
\* _authorize_section, mobile_map_properties
Authorized(v, a) ==
    CASE a[1] = "section" -> a[2] \in RepSections(v)
      [] a[1] = "territory" -> a[2] \in Scope(v)
      [] a[1] = "zip" -> TRUE
AllAreas == ({"section"} \X Sections) \cup ({"territory"} \X Territories) \cup {<<"zip", 1>>}
NoArea == <<"none", 0>>

(***************************************************************************)
(* The screens as they open.                                               *)
(***************************************************************************)
NoSheet == [open |-> FALSE, of |-> None, p |-> None, lead |-> FALSE, loads |-> {}, stale |-> FALSE,
            dialog |-> FALSE]
Map(v) == [terrs |-> Live(v), sel |-> None, pins |-> None, sects |-> {}, sec |-> None, only |-> None,
           draw |-> FALSE, canvass |-> FALSE, ring |-> {}, geom |-> {}, dialog |-> "", clash |-> FALSE,
           running |-> FALSE, reqs |-> {}]
Phone == [on |-> FALSE, areaReq |-> FALSE, areas |-> {}, areaSt |-> "loading", sel |-> NoArea,
          loads |-> {}, pins |-> NoArea, props |-> "loading", ticket |-> FALSE,
          broken |-> FALSE, base |-> "street", dl |-> "idle", dlOf |-> None,
          areaCache |-> {}, cache |-> [a \in AllAreas |-> NoArea], packs |-> {}]

\* a company with one territory imported, maybe an overlapping one and a section
Init ==
    /\ \E second \in {{}, Places}, first \in {NoSect, [terr |-> 1, ring |-> {Min(Places)}, rep |-> TRUE]} :
        srv = [terr |-> [t \in Territories |-> IF t = 1 THEN Places ELSE IF t = 2 THEN second ELSE {}],
               terrs |-> IF second = {} THEN 1 ELSE 2,
               home |-> [p \in Places |-> 1],
               sect |-> [s \in Sections |-> IF s = 1 THEN first ELSE NoSect],
               sects |-> IF first = NoSect THEN 0 ELSE 1,
               member |-> IF first = NoSect THEN {} ELSE {<<1, Min(Places)>>},
               leads |-> [p \in Places |-> 0], job |-> NoJob, work |-> NoSect]
    /\ office = Map(srv) /\ sheet = NoSheet /\ device = Phone
    /\ hist = [acts |-> 0, events |-> 0]

(***************************************************************************)
(* MapView: the lists and what is selected.                                *)
(***************************************************************************)
Req(what, of, ring) == [what |-> what, of |-> of, ring |-> ring]
Modal(o) == o.dialog # "" \/ sheet.open
\* the panels of the page: territories and drawing, the sections of the selected
\* territory, and the commands of the selected section
OffersTerritories(o) == ~Modal(o)
OffersDraw(o) == ~Modal(o) /\ ~o.canvass
OffersSections(o) == ~Modal(o) /\ o.sel # None
OffersSection(o) == OffersSections(o) /\ o.sec \in o.sects
\* its dialogs, and that of the import
OffersName(o) == o.dialog = "name"
OffersCreate(o) == o.dialog = "canvass" /\ ~o.clash /\ srv.work = NoSect
OffersImport(o) == o.dialog = "import" /\ ~o.running

\* loadProperties, loadSections
LoadProperties(o, t) ==
    IF t = None THEN [o EXCEPT !.pins = None] ELSE [o EXCEPT !.reqs = @ \cup {Req("props", t, {})}]
LoadSections(o, t) ==
    IF t = None THEN [o EXCEPT !.sects = {}] ELSE [o EXCEPT !.reqs = @ \cup {Req("sections", t, {})}]
SelectTerritory(o, t) ==
    LoadSections(LoadProperties([o EXCEPT !.sel = t, !.sec = None, !.only = None], t), t)

selectTerritory(t) ==
    /\ Act /\ OffersTerritories(office) /\ t \in office.terrs
    /\ office' = SelectTerritory(office, t)
    /\ UNCHANGED <<srv, sheet, device>>

selectSection(s) ==
    /\ Act /\ OffersSections(office) /\ s \in office.sects
    /\ office' = [office EXCEPT !.sec = s, !.reqs = @ \cup {Req("members", s, {})}]
    /\ UNCHANGED <<srv, sheet, device>>

clearSection ==
    /\ Act /\ OffersSections(office) /\ office.sec # None
    /\ office' = [office EXCEPT !.sec = None, !.only = None]
    /\ UNCHANGED <<srv, sheet, device>>

\* an answer, or the error the screen shows instead
Answered(o, r) ==
    LET p == [o EXCEPT !.reqs = @ \ {r}]
    IN  CASE r.what = "props" -> [p EXCEPT !.pins = r.of]
          [] r.what = "sections" -> [p EXCEPT !.sects = SectionsOf(srv, r.of)]
          [] r.what = "members" -> IF srv.sect[r.of] = NoSect THEN p ELSE [p EXCEPT !.only = r.of]
          [] r.what = "preview" ->
                IF Contained(srv, r.of, r.ring)
                THEN [p EXCEPT !.clash = Conflicts(srv, r.of, r.ring) # {}, !.dialog = "canvass"]
                ELSE [p EXCEPT !.ring = {}, !.draw = FALSE, !.canvass = FALSE]
Failed(o, r) ==
    LET p == [o EXCEPT !.reqs = @ \ {r}]
    IN  CASE r.what = "sections" -> [p EXCEPT !.sects = {}]
          [] r.what = "preview" -> [p EXCEPT !.ring = {}, !.draw = FALSE, !.canvass = FALSE]
          [] OTHER -> p
Answer(r) ==
    /\ r \in office.reqs /\ office' = Answered(office, r)
    /\ UNCHANGED <<srv, sheet, device, hist>>
Fail(r) ==
    /\ Event /\ r \in office.reqs /\ office' = Failed(office, r)
    /\ UNCHANGED <<srv, sheet, device>>

(***************************************************************************)
(* Drawing.                                                                *)
(***************************************************************************)
startDraw ==
    /\ Act /\ OffersDraw(office) /\ ~office.draw
    /\ office' = [office EXCEPT !.draw = TRUE, !.ring = {}]
    /\ UNCHANGED <<srv, sheet, device>>
startCanvassDraw ==
    /\ Act /\ OffersSections(office) /\ ~office.canvass
    /\ office' = [office EXCEPT !.draw = TRUE, !.canvass = TRUE, !.ring = {}]
    /\ UNCHANGED <<srv, sheet, device>>
\* the corners clicked, or the boundary of a ZIP found by search
Outline(ring) ==
    /\ ~Modal(office) /\ office.draw /\ office.ring = {}
    /\ office' = [office EXCEPT !.ring = ring]
    /\ UNCHANGED <<srv, sheet, device, hist>>
addZipAsTerritory(ring) ==
    /\ Act /\ ~Modal(office) /\ ~office.draw
    /\ office' = [office EXCEPT !.draw = TRUE, !.ring = ring]
    /\ UNCHANGED <<srv, sheet, device>>
Cancelled(o) == [o EXCEPT !.draw = FALSE, !.canvass = FALSE, !.ring = {}]
cancelDraw ==
    /\ Act /\ IF office.canvass THEN OffersSections(office) ELSE OffersDraw(office) /\ office.draw
    /\ office' = Cancelled(office)
    /\ UNCHANGED <<srv, sheet, device>>
CloseDialog ==
    /\ Act /\ office.dialog # "" /\ ~office.running /\ srv.work = NoSect
    /\ LET closed == [office EXCEPT !.dialog = ""]
       IN  \/ office.dialog # "canvass" /\ office' = closed
           \/ office.dialog # "import" /\ office' = Cancelled(closed)
    /\ UNCHANGED <<srv, sheet, device>>

finishDraw ==
    /\ Act /\ OffersDraw(office) /\ office.draw /\ office.ring # {}
    /\ office' = [office EXCEPT !.draw = FALSE, !.dialog = "name"]
    /\ UNCHANGED <<srv, sheet, device>>
\* the new territory is created, listed and selected
saveTerritory ==
    /\ Act /\ OffersName(office) /\ srv.terrs < MaxTerr
    /\ LET t == srv.terrs + 1
       IN  /\ srv' = [srv EXCEPT !.terrs = t, !.terr[t] = office.ring]
           /\ office' = SelectTerritory([office EXCEPT !.dialog = "", !.ring = {}, !.terrs = Live(srv')], t)
    /\ UNCHANGED <<sheet, device>>
deleteTerritory(t) ==
    /\ Act /\ OffersTerritories(office) /\ t \in office.terrs
    /\ srv' = IF srv.terr[t] = {} THEN srv ELSE WithoutTerritory(srv, t)
    /\ office' = IF srv.terr[t] = {} THEN office
                 ELSE LET o == [office EXCEPT !.terrs = Live(srv')]
                      IN  IF o.sel = t THEN LoadProperties([o EXCEPT !.sel = None], None) ELSE o
    /\ UNCHANGED <<sheet, device>>

\* the preview is of the selected territory; Finish stays while it is in flight
finishCanvassDraw ==
    /\ Act /\ OffersSections(office) /\ office.canvass /\ office.ring # {}
    /\ office' = [office EXCEPT !.draw = FALSE, !.geom = office.ring,
                                !.reqs = @ \cup {Req("preview", office.sel, office.ring)}]
    /\ UNCHANGED <<srv, sheet, device>>
\* create_section reads the overlap, then writes
saveCanvassSection(rep) ==
    /\ Act /\ OffersCreate(office)
    /\ srv.sects < MaxSect
    /\ srv' = IF office.sel # None /\ CreateCheck(srv, office.sel, office.geom)
              THEN [srv EXCEPT !.work = [terr |-> office.sel, ring |-> office.geom, rep |-> rep]]
              ELSE srv
    /\ UNCHANGED <<office, sheet, device>>
CommitSection ==
    /\ srv.work # NoSect
    /\ srv' = [IF Contained(srv, srv.work.terr, srv.work.ring)
               THEN Created(srv, srv.work.terr, srv.work.ring, srv.work.rep) ELSE srv
               EXCEPT !.work = NoSect]
    /\ office' = LoadSections([office EXCEPT !.dialog = "", !.canvass = FALSE, !.ring = {}], office.sel)
    /\ UNCHANGED <<sheet, device, hist>>

\* a section already gone is refused: the screen keeps what it shows
deleteSection ==
    /\ Act /\ OffersSection(office)
    /\ srv' = WithoutSection(srv, office.sec)
    /\ office' = IF srv.sect[office.sec] = NoSect THEN office
                 ELSE LoadSections([office EXCEPT !.sec = None, !.only = None], office.sel)
    /\ UNCHANGED <<sheet, device>>
reassignSection ==
    /\ Act /\ OffersSection(office)
    /\ srv.sect[office.sec] # NoSect
    /\ srv' = [srv EXCEPT !.sect[office.sec].rep = ~@]
    /\ office' = LoadSections(office, office.sel)
    /\ UNCHANGED <<sheet, device>>

\* another Office desk
OtherCreates(t, ring) ==
    /\ Event /\ srv.sects < MaxSect /\ (srv.work = NoSect \/ "create" \in Windows)
    /\ CreateCheck(srv, t, ring)
    /\ srv' = Created(srv, t, ring, FALSE)
    /\ UNCHANGED <<office, sheet, device>>
OtherDeletes(s) ==
    /\ Event /\ srv.sect[s] # NoSect /\ srv' = WithoutSection(srv, s)
    /\ UNCHANGED <<office, sheet, device>>

(***************************************************************************)
(* ImportDialog and the import job.                                        *)
(***************************************************************************)
OpenImport ==
    /\ Act /\ OffersTerritories(office) /\ office.sel # None
    /\ office' = [office EXCEPT !.dialog = "import"]
    /\ UNCHANGED <<srv, sheet, device>>
confirmImport ==
    /\ Act /\ OffersImport(office) /\ srv.job.st # "running"
    /\ srv.terr[office.sel] # {}
    /\ srv' = [srv EXCEPT !.job = [st |-> "running", terr |-> office.sel, left |-> srv.terr[office.sel]]]
    /\ office' = [office EXCEPT !.running = TRUE]
    /\ UNCHANGED <<sheet, device>>
\* a property already known keeps its territory, if it has one
Imported(h, t) == IF h = None THEN t ELSE h
ImportStep(p) ==
    /\ srv.job.st = "running" /\ p \in srv.job.left
    /\ srv' = IF srv.terr[srv.job.terr] = {} THEN [srv EXCEPT !.job.st = "failed"]
              ELSE [srv EXCEPT !.home[p] = Imported(@, srv.job.terr), !.job.left = @ \ {p}]
    /\ UNCHANGED <<office, sheet, device, hist>>
ImportEnds ==
    /\ srv.job.st = "running" /\ srv.job.left = {}
    /\ srv' = [srv EXCEPT !.job.st = "completed"]
    /\ UNCHANGED <<office, sheet, device, hist>>
\* the provider fails, or Office stops with the job left running
ImportStops ==
    /\ Event /\ srv.job.st = "running"
    /\ srv' = [srv EXCEPT !.job.st = "failed"]
    /\ UNCHANGED <<office, sheet, device>>
ImportPolled ==
    /\ office.running /\ srv.job.st \in {"completed", "failed"}
    /\ office' = LET o == [office EXCEPT !.running = FALSE]
                 IN  IF srv.job.st = "failed" THEN o
                     ELSE LoadProperties([o EXCEPT !.terrs = Live(srv)], office.sel)
    /\ UNCHANGED <<srv, sheet, device, hist>>
\* a poll fails, or 120 of them were not enough
PollEnds ==
    /\ Event /\ office.running /\ office' = [office EXCEPT !.running = FALSE]
    /\ UNCHANGED <<srv, sheet, device>>

(***************************************************************************)
(* PropertySheet.                                                          *)
(***************************************************************************)
\* the pins drawn: of the loaded territory, filtered by the loaded section
Pin(o, p) == srv.home[p] = o.pins /\ o.pins # None /\ (o.only = None \/ p \in Members(srv, o.only))
SheetLoad(s) == [s EXCEPT !.loads = @ \cup {s.of}]
Loading(s) == s.loads # {}

openSheet(p) ==
    /\ Act /\ ~Modal(office) /\ ~office.draw /\ Pin(office, p)
    /\ "sheet" \in Windows \/ ~Loading(sheet)
    /\ sheet' = SheetLoad([sheet EXCEPT !.open = TRUE, !.of = p])
    /\ UNCHANGED <<srv, office, device>>
closeSheet ==
    /\ Act /\ sheet.open /\ ~sheet.dialog /\ sheet' = [sheet EXCEPT !.open = FALSE]
    /\ UNCHANGED <<srv, office, device>>
SheetLoaded(p) ==
    /\ p \in sheet.loads
    /\ sheet' = [sheet EXCEPT !.p = p, !.lead = srv.leads[p] > 0, !.loads = @ \ {p}, !.stale = FALSE]
    /\ UNCHANGED <<srv, office, device, hist>>
SheetFailed(p) ==
    /\ Event /\ p \in sheet.loads
    /\ sheet' = [sheet EXCEPT !.loads = @ \ {p}, !.stale = TRUE]
    /\ UNCHANGED <<srv, office, device>>
\* a property is shown once loading ends; its lead hides the conversion
OffersWork(s) == s.open /\ ~Loading(s) /\ s.p # None /\ ~s.dialog
OffersConvert(s) == OffersWork(s) /\ ~s.lead
OffersLead(s) == s.open /\ s.dialog
openConvert ==
    /\ OffersConvert(sheet) /\ ("sheet" \in Windows \/ ~sheet.stale)
    /\ sheet' = [sheet EXCEPT !.dialog = TRUE]
    /\ UNCHANGED <<srv, office, device, hist>>
\* the lead is created for the property shown, and the sheet loads again
Converted(s) == SheetLoad([s EXCEPT !.dialog = FALSE])
convertLead ==
    /\ Act /\ OffersLead(sheet)
    /\ srv' = [srv EXCEPT !.leads[sheet.p] = @ + 1]
    /\ sheet' = Converted(sheet)
    /\ UNCHANGED <<office, device>>
closeConvert ==
    /\ sheet.dialog /\ sheet' = [sheet EXCEPT !.dialog = FALSE]
    /\ UNCHANGED <<srv, office, device, hist>>
\* locateProperty, toggleDNK, addVisit: the sheet and the map are loaded again
Worked ==
    /\ Act /\ OffersWork(sheet)
    /\ sheet' = SheetLoad(sheet) /\ office' = LoadProperties(office, office.sel)
    /\ UNCHANGED <<srv, device>>

(***************************************************************************)
(* MapScreen: three independent loads, and the pins of the selected area.  *)
(***************************************************************************)
Rank(a) == CASE a[1] = "section" -> 1 [] a[1] = "territory" -> 2 [] a[1] = "zip" -> 3
pickDefaultArea(as) ==
    IF as = {} THEN NoArea
    ELSE CHOOSE a \in as : \A b \in as : Rank(a) < Rank(b) \/ (Rank(a) = Rank(b) /\ a[2] <= b[2])

\* the effect of [selectedAreaId, areas]
OnArea(d) == IF d.sel \in d.areas THEN [d EXCEPT !.props = "loading", !.loads = @ \cup {d.sel}]
             ELSE [d EXCEPT !.pins = NoArea, !.props = "ok"]

\* loadAreas, loadCfg and the first tile ticket, which may be refused; only the download waits for the last two
MapFocus ==
    /\ Act /\ ~device.areaReq
    /\ \E minted \in BOOLEAN :
         device' = [device EXCEPT !.on = TRUE, !.broken = FALSE, !.areaReq = TRUE, !.ticket = @ \/ minted]
    /\ UNCHANGED <<srv, office, sheet>>
\* loadAreas: the answer, or the cached list; a selection is kept
Listed(d, as, st) ==
    OnArea([d EXCEPT !.areaReq = FALSE, !.areas = as, !.areaSt = st,
                     !.sel = IF @ = NoArea THEN pickDefaultArea(as) ELSE @])
AreasAnswered ==
    /\ device.areaReq
    /\ device' = Listed([device EXCEPT !.areaCache = Areas(srv)], Areas(srv), "ok")
    /\ UNCHANGED <<srv, office, sheet, hist>>
AreasFailed ==
    /\ Event /\ device.areaReq
    /\ device' = Listed(device, device.areaCache, IF device.areaCache = {} THEN "failed" ELSE "cache")
    /\ UNCHANGED <<srv, office, sheet>>
\* a tap asks for a tile ticket again
ensureTicket ==
    /\ Act /\ device.on /\ ~device.ticket /\ device' = [device EXCEPT !.ticket = TRUE]
    /\ UNCHANGED <<srv, office, sheet>>

\* the map is not offered without an area, or after its native view failed
OffersRetry(d) == d.broken /\ (d.areaSt = "loading" \/ d.areas # {})
MapShown(d) == d.on /\ ~d.broken /\ (d.areaSt = "loading" \/ d.areas # {})
OffersArea(d, a) == d.on /\ a \in d.areas
selectArea(a) ==
    /\ Act /\ OffersArea(device, a) /\ a # device.sel
    /\ device' = OnArea([device EXCEPT !.sel = a])
    /\ UNCHANGED <<srv, office, sheet>>
\* the answer for a is shown and cached under a, whatever is selected by now
PropsAnswered(a) ==
    /\ a \in device.loads /\ Authorized(srv, a)
    /\ device' = [device EXCEPT !.pins = a, !.props = "ok", !.loads = @ \ {a},
                                !.cache[a] = a]
    /\ UNCHANGED <<srv, office, sheet, hist>>
\* refused, failed or later than REQ_TIMEOUT_MS: the cached list of a
PropsFailed(a) ==
    /\ a \in device.loads /\ IF Authorized(srv, a) THEN Event ELSE UNCHANGED hist
    /\ device' = [device EXCEPT !.pins = device.cache[a], !.loads = @ \ {a},
                                !.props = IF device.cache[a] = NoArea THEN "failed" ELSE "cache"]
    /\ UNCHANGED <<srv, office, sheet>>

\* the native map throws; a tap retries
NativeFails ==
    /\ Event /\ MapShown(device) /\ device' = [device EXCEPT !.broken = TRUE]
    /\ UNCHANGED <<srv, office, sheet>>
retryMap ==
    /\ Act /\ OffersRetry(device) /\ ~device.areaReq
    /\ device' = [device EXCEPT !.broken = FALSE, !.areaReq = TRUE]
    /\ UNCHANGED <<srv, office, sheet>>

\* downloadSectionArea drops the old pack first
OffersDownload(d) ==
    /\ d.on /\ d.ticket /\ d.sel \in d.areas /\ d.sel[1] = "section" /\ d.dl # "downloading"
startDownload ==
    /\ Act /\ OffersDownload(device)
    /\ device' = [device EXCEPT !.dl = "downloading", !.dlOf = device.sel[2], !.packs = @ \ {device.sel[2]}]
    /\ UNCHANGED <<srv, office, sheet>>
DownloadEnds ==
    /\ device.dl = "downloading"
    /\ \/ UNCHANGED hist /\ device' = [device EXCEPT !.dl = "done", !.packs = @ \cup {device.dlOf}]
       \/ Event /\ device' = [device EXCEPT !.dl = "error"]
    /\ UNCHANGED <<srv, office, sheet>>

Next ==
    \/ clearSection \/ startDraw \/ startCanvassDraw \/ cancelDraw \/ CloseDialog
    \/ finishDraw \/ saveTerritory \/ finishCanvassDraw \/ CommitSection
    \/ deleteSection \/ reassignSection \/ OpenImport \/ confirmImport
    \/ ImportEnds \/ ImportStops \/ ImportPolled \/ PollEnds
    \/ closeSheet \/ openConvert \/ convertLead \/ closeConvert \/ Worked
    \/ MapFocus \/ AreasAnswered \/ AreasFailed \/ ensureTicket
    \/ NativeFails \/ retryMap \/ startDownload \/ DownloadEnds
    \/ \E t \in Territories : selectTerritory(t) \/ deleteTerritory(t)
    \/ \E s \in Sections : selectSection(s) \/ OtherDeletes(s)
    \/ \E r \in office.reqs : Answer(r) \/ Fail(r)
    \/ \E ring \in Rings :
        \/ Outline(ring) \/ addZipAsTerritory(ring)
        \/ \E t \in Territories : OtherCreates(t, ring)
    \/ \E rep \in BOOLEAN : saveCanvassSection(rep)
    \/ \E p \in Places : ImportStep(p) \/ openSheet(p) \/ SheetLoaded(p) \/ SheetFailed(p)
    \/ \E a \in AllAreas : selectArea(a) \/ PropsAnswered(a) \/ PropsFailed(a)

Spec == Init /\ [][Next]_vars

(***************************************************************************)
(* Properties.                                                             *)
(***************************************************************************)
\* "A property may belong to only one active Canvass Section per Territory"
\* (MapView.jsx): whatever other desks did since the preview the dialog shows.
OnePropertyOneSection ==
    \A s, u \in Sections :
        (s # u /\ srv.sect[s].terr = srv.sect[u].terr) => Members(srv, s) \cap Members(srv, u) = {}
=============================================================================
