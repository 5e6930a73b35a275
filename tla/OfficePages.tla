---------------------------- MODULE OfficePages -----------------------------
(***************************************************************************)
(* The business pages of the Office, each family of pages with the tables  *)
(* it writes, and two more screens: the combined site plan of a            *)
(* measurement and the proposed sketch of a roof. No two families share a  *)
(* table modelled here, so a behaviour is one family at work: `part` names *)
(* it and the variables of the others keep their initial values.           *)
(***************************************************************************)
EXTENDS Integers, Sequences

CONSTANTS
    MaxLines, MaxTakeoffs,      \* bounds: lines people rewrite, takeoffs applied
    Packages,                   \* the priced options of a quote
    MaxQty, MaxStock,           \* bounds: units of a movement, units the company has or has ordered
    Ordered, MaxPrice, MaxKeys, \* units ordered; bounds: prices asked, reviews made
    Places, MaxTerr, MaxSect,   \* addresses; bounds: territories and sections ever made
    Mats, Files, MaxField,      \* materials; CSV files; bound: values of a field
    BackupDesks, Keeps, MaxFiles, \* desks on the backup page; retentions; bound: backup files
    PlanDesks, Flush, Measures, \* desks with the site plan; structures set flush; what can be measured
    Moves, Snaps, Cap,          \* drags and snapping in feet; versions of a plan kept
    Here, Roofs, SidesOffered,  \* the structure sketched; roofs measured; sides to answer with
    MaxEdits, MaxChoices,       \* bounds: changes of the measurement, and with them answers
    Proposed(_, _),             \* the solver: the outcome for a structure and the sides chosen
    Acts, Events,               \* bounds of a part: what people do, what goes wrong
    Without                     \* schedules a family leaves out unless they are named here

VARIABLES part,
          est, desk, takeoff,                                         \* Estimating
          sale, dealing, page, cust, bill,                            \* Sales
          srv, booking, jobPage, clerk,                               \* JobStock
          po, subs, calls, buyer, abc, mail, held, keys,              \* Purchasing
          map, mapDesk, sheet, device,                                \* Canvass
          mats, inv, det,                                             \* Materials
          data, disk, away, sched, dump, res, bkPage,                 \* Backups
          planRev, planFiles, planDesk,                               \* SitePlan
          roof, screen,                                               \* ProposalReview
          log                                                         \* the history and budgets of the part at work

estimating == <<est, desk, takeoff>>
sales == <<sale, dealing, page, cust, bill>>
stock == <<srv, booking, jobPage, clerk>>
purchasing == <<po, subs, calls, buyer, abc, mail, held, keys>>
canvass == <<map, mapDesk, sheet, device>>
materials == <<mats, inv, det>>
backups == <<data, disk, away, sched, dump, res, bkPage>>
site == <<planRev, planFiles, planDesk>>
proposal == <<roof, screen>>
pages == <<part, estimating, sales, stock, purchasing, canvass, materials, backups, site, proposal, log>>

Est == INSTANCE Estimating WITH MaxActs <- Acts["estimating"], MaxEvents <- Events["estimating"],
        Windows <- Without, hist <- log
Sal == INSTANCE Sales WITH MaxActs <- Acts["sales"], MaxEvents <- Events["sales"],
        office <- sale, work <- dealing, hist <- log
Stk == INSTANCE JobStock WITH MaxActs <- Acts["stock"], MaxEvents <- Events["stock"], Windows <- Without,
        work <- booking, page <- jobPage, hist <- log
Buy == INSTANCE Purchasing WITH Qty <- Ordered, MaxActs <- Acts["purchasing"], MaxEvents <- Events["purchasing"],
        Windows <- Without, work <- calls, desk <- buyer, hist <- log
Can == INSTANCE Canvass WITH MaxActs <- Acts["canvass"], MaxEvents <- Events["canvass"], Windows <- Without,
        srv <- map, office <- mapDesk, hist <- log
Mat == INSTANCE Materials WITH MaxVal <- MaxField, MaxActs <- Acts["materials"], MaxEvents <- Events["materials"],
        Windows <- Without, hist <- log
Bak == INSTANCE Backups WITH Desks <- BackupDesks, MaxActs <- Acts["backups"], MaxEvents <- Events["backups"],
        Windows <- Without, page <- bkPage, hist <- log
Sit == INSTANCE SitePlan WITH Desks <- PlanDesks, Attached <- Flush, MaxActs <- Acts["site"], MaxEvents <- Events["site"],
        rev <- planRev, files <- planFiles, desk <- planDesk, hist <- log
Rev == INSTANCE ProposalReview WITH Offered <- SidesOffered, MaxActs <- Acts["proposal"], hist <- log

ASSUME StockAssumption == MaxQty \in Nat /\ MaxStock \in Nat
ASSUME SalesAssumption == Sal!None \notin Packages
ASSUME PlanAssumption == Cap \in Nat \ {0}
ASSUME PurchasingAssumption == MaxKeys \in Nat /\ MaxPrice \in Nat

\* A family that is not at work.
Off == "off"
NotEstimating == est = Off /\ desk = Off /\ takeoff = Off
NotSales == sale = Off /\ dealing = Off /\ page = Off /\ cust = Off /\ bill = Off
NotStock == srv = Off /\ booking = Off /\ jobPage = Off /\ clerk = Off
NotPurchasing == po = Off /\ subs = Off /\ calls = Off /\ buyer = Off /\ abc = Off /\ mail = Off /\ held = Off /\ keys = Off
NotCanvass == map = Off /\ mapDesk = Off /\ sheet = Off /\ device = Off
NotMaterials == mats = Off /\ inv = Off /\ det = Off
NotBackups == data = Off /\ disk = Off /\ away = Off /\ sched = Off /\ dump = Off /\ res = Off /\ bkPage = Off
NotSite == planRev = Off /\ planFiles = Off /\ planDesk = Off
NotProposal == roof = Off /\ screen = Off

PagesInit ==
    \/ /\ part = "estimating" /\ Est!Init
       /\ NotSales /\ NotStock /\ NotPurchasing /\ NotCanvass /\ NotMaterials
       /\ NotBackups /\ NotSite /\ NotProposal
    \/ /\ part = "sales" /\ Sal!Init
       /\ NotEstimating /\ NotStock /\ NotPurchasing /\ NotCanvass /\ NotMaterials
       /\ NotBackups /\ NotSite /\ NotProposal
    \/ /\ part = "stock" /\ Stk!Init
       /\ NotEstimating /\ NotSales /\ NotPurchasing /\ NotCanvass /\ NotMaterials
       /\ NotBackups /\ NotSite /\ NotProposal
    \/ /\ part = "purchasing" /\ Buy!Init
       /\ NotEstimating /\ NotSales /\ NotStock /\ NotCanvass /\ NotMaterials
       /\ NotBackups /\ NotSite /\ NotProposal
    \/ /\ part = "canvass" /\ Can!Init
       /\ NotEstimating /\ NotSales /\ NotStock /\ NotPurchasing /\ NotMaterials
       /\ NotBackups /\ NotSite /\ NotProposal
    \/ /\ part = "materials" /\ Mat!Init
       /\ NotEstimating /\ NotSales /\ NotStock /\ NotPurchasing /\ NotCanvass
       /\ NotBackups /\ NotSite /\ NotProposal
    \/ /\ part = "backups" /\ Bak!Init
       /\ NotEstimating /\ NotSales /\ NotStock /\ NotPurchasing /\ NotCanvass
       /\ NotMaterials /\ NotSite /\ NotProposal
    \/ /\ part = "site" /\ Sit!Init
       /\ NotEstimating /\ NotSales /\ NotStock /\ NotPurchasing /\ NotCanvass
       /\ NotMaterials /\ NotBackups /\ NotProposal
    \/ /\ part = "proposal" /\ Rev!Init
       /\ NotEstimating /\ NotSales /\ NotStock /\ NotPurchasing /\ NotCanvass
       /\ NotMaterials /\ NotBackups /\ NotSite

EstimatingStep ==
    /\ part = "estimating" /\ Est!Next
    /\ UNCHANGED <<part, sales, stock, purchasing, canvass, materials, backups, site, proposal>>
SalesStep ==
    /\ part = "sales" /\ Sal!Next
    /\ UNCHANGED <<part, estimating, stock, purchasing, canvass, materials, backups, site, proposal>>
StockStep ==
    /\ part = "stock" /\ Stk!Next
    /\ UNCHANGED <<part, estimating, sales, purchasing, canvass, materials, backups, site, proposal>>
PurchasingStep ==
    /\ part = "purchasing" /\ Buy!Next
    /\ UNCHANGED <<part, estimating, sales, stock, canvass, materials, backups, site, proposal>>
CanvassStep ==
    /\ part = "canvass" /\ Can!Next
    /\ UNCHANGED <<part, estimating, sales, stock, purchasing, materials, backups, site, proposal>>
MaterialsStep ==
    /\ part = "materials" /\ Mat!Next
    /\ UNCHANGED <<part, estimating, sales, stock, purchasing, canvass, backups, site, proposal>>
BackupsStep ==
    /\ part = "backups" /\ Bak!Next
    /\ UNCHANGED <<part, estimating, sales, stock, purchasing, canvass, materials, site, proposal>>
SiteStep ==
    /\ part = "site" /\ Sit!Next
    /\ UNCHANGED <<part, estimating, sales, stock, purchasing, canvass, materials, backups, proposal>>
ProposalStep ==
    /\ part = "proposal" /\ Rev!Next
    /\ UNCHANGED <<part, estimating, sales, stock, purchasing, canvass, materials, backups, site>>

PagesNext ==
    \/ EstimatingStep \/ SalesStep \/ StockStep \/ PurchasingStep \/ CanvassStep \/ MaterialsStep \/ BackupsStep
    \/ SiteStep \/ ProposalStep
PagesSpec == PagesInit /\ [][PagesNext]_pages

(***************************************************************************)
(* The properties, as each module states them.                             *)
(***************************************************************************)
\* No line typed on one desk is lost to a save, refresh or takeoff of another (estimates.py:227).
OthersWorkKept == [][part = "estimating" => Est!WorkKept]_pages
\* A takeoff applied again replaces what it generated (services/takeoff.py:386).
TakeoffOnce == part = "estimating" => Est!TakeoffOnce
\* The job stands for the accepted package of a quote that is there (quotes.py:49).
JobKeepsItsQuote == part = "sales" => Sal!JobKeepsItsQuote
\* A job never gives back more than it holds (job_planning.py:119).
ReservedIsHeld == part = "stock" => Stk!ReservedIsHeld
\* A submission key makes one order, at the price its sender saw (purchasing.py:715).
OrderedOnceAsSeen == part = "purchasing" => Buy!OrderedOnceAsSeen
\* No property is in two sections of a territory (routers/canvass.py:86).
OnePropertyOneSection == part = "canvass" => Can!OnePropertyOneSection
\* No import overwrites what its preview did not list and its sender tick (Inventory.jsx:173).
ImportIsAcknowledged == part = "materials" => Mat!ImportIsAcknowledged
\* What a restore replaced stays in a file of the backup directory (services/backup.py:357).
UndoPointKept == part = "backups" => Bak!UndoPointKept
\* Without "Measurements changed" the saved plan is of what the form shows (CombinedSitePlan.jsx:8).
NoNudgeMeansCurrent == part = "site" => Sit!NoNudgeMeansCurrent
\* A review not marked stale shows what the measurements now give (RoofSketch.js:318).
ReviewIsCurrent == part = "proposal" => Rev!ReviewIsCurrent
=============================================================================
