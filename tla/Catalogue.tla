------------------------------ MODULE Catalogue ------------------------------
(***************************************************************************)
(* The catalogue a trip is planned from (store/seed.py): YAML files are    *)
(* loaded as draft rows, one transaction per kind, and `publish` promotes  *)
(* them, table by table, in one READ COMMITTED transaction.  Loads may     *)
(* commit between the statements of a running publish; they wait for a row *)
(* that publish has already updated.  A row keeps its id and, for a        *)
(* product, its vendor for ever: nothing in the code deletes one.          *)
(***************************************************************************)
EXTENDS Integers, FiniteSets

CONSTANTS
    Pois, Guides, Vendors, Products,    \* slugs of the four gated tables
    Levels,         \* values of data_confidence that are told apart
    Floors,         \* values given to --min-confidence
    Includes,       \* values given to --include-placeholders
    MaxLoads,       \* bound: loads of a behaviour
    NoRow,          \* a slug without a row, or without an entry in a file
    NoVendor        \* the vendor of what is not a product

Slugs == Pois \cup Guides \cup Vendors \cup Products

ASSUME KindsDiffer ==
    /\ Pois \cap Vendors = {}    /\ Pois \cap Products = {}
    /\ Guides \cap Vendors = {}  /\ Guides \cap Products = {}
    /\ Pois \cap Guides = {}     /\ Vendors \cap Products = {}
ASSUME LevelsAreNumbers ==
    /\ Levels \subseteq Int /\ Floors \subseteq Int /\ Includes \subseteq BOOLEAN
    /\ MaxLoads \in Nat
ASSUME NothingsDiffer == NoVendor \notin Vendors

Sources == {"checked", "placeholder"}
Entry == [source : Sources, conf : Levels, vendor : Vendors \cup {NoVendor}]
Row == [status : {"draft", "published"}, source : Sources, conf : Levels,
        vendor : Vendors \cup {NoVendor}]

ASSUME NoRowIsNone == NoRow \notin Row /\ NoRow \notin Entry

VARIABLES
    row,        \* slug -> its row, or NoRow
    gate,       \* the running publish: its statement, options, promotions, report
    loads       \* loads committed so far

vars == <<row, gate, loads>>

Steps == {"idle", "refused", "pois", "guides", "vendors", "products", "commit"}
Gate == [at : Steps, floor : Floors \cup {0}, include : BOOLEAN,
         pending : SUBSET Slugs, refused : SUBSET Slugs]

Idle == [at |-> "idle", floor |-> 0, include |-> FALSE, pending |-> {}, refused |-> {}]

Exists(s) == row[s] # NoRow
Draft(s) == Exists(s) /\ row[s].status = "draft"
Published(s) == Exists(s) /\ row[s].status = "published"

Init ==
    /\ row = [s \in Slugs |-> NoRow]
    /\ gate = Idle
    /\ loads = 0

(***************************************************************************)
(* Loading.  ON CONFLICT (slug) DO UPDATE rewrites the facts and leaves    *)
(* status and vendor_id alone; a new row is a draft by the column default. *)
(***************************************************************************)
Inserted(e) ==
    [status |-> "draft", source |-> e.source, conf |-> e.conf, vendor |-> e.vendor]
\* Mutant of Updated: the status is reset with the facts.
UpdatedAsDraft(r, e) ==
    [r EXCEPT !.status = "draft", !.source = e.source, !.conf = e.conf]

Updated(r, e) == [r EXCEPT !.source = e.source, !.conf = e.conf]
Upsert(r, e) == IF r = NoRow THEN Inserted(e) ELSE Updated(r, e)

\* What a file may say of slug s.  A product stands inside its vendor's entry.
Entries(s) ==
    {e \in Entry : (s \in Products) <=> (e.vendor # NoVendor)} \cup {NoRow}
Files(S) == {f \in [S -> Entry \cup {NoRow}] : \A s \in S : f[s] \in Entries(s)}
Nested(f) ==
    \A p \in DOMAIN f \cap Products : f[p] # NoRow => f[f[p].vendor] # NoRow

\* A row publish has updated stays locked until its transaction ends.
Locked(s) == s \in gate.pending

Load(S) ==
    \E f \in Files(S) :
        /\ loads < MaxLoads
        /\ Nested(f)
        /\ \E s \in S : f[s] # NoRow
        /\ \A s \in S : f[s] # NoRow => ~Locked(s)
        /\ row' = [s \in Slugs |->
                      IF s \in S /\ f[s] # NoRow THEN Upsert(row[s], f[s]) ELSE row[s]]
        /\ loads' = loads + 1
        /\ UNCHANGED gate

LoadPois == Load(Pois)
LoadGuides == Load(Guides)
LoadVendors == Load(Vendors \cup Products)

(***************************************************************************)
(* publish: the refused rows are collected for the report, then one UPDATE *)
(* per table.  The promotions show in `row` only when the transaction      *)
(* commits, so retrieval reads none of them before.                        *)
(***************************************************************************)
\* Mutant of Admits: the placeholder clause is dropped from the UPDATE.
AdmitsPlaceholders(r) == r.conf >= gate.floor

Admits(r) ==
    /\ r.conf >= gate.floor
    /\ gate.include \/ r.source # "placeholder"

\* The WHERE clause of the report is wider than what it then records.
Refused(r) ==
    IF r.source = "placeholder" /\ ~gate.include THEN TRUE ELSE r.conf < gate.floor

StartPublish ==
    /\ gate.at = "idle"
    /\ \E floor \in Floors, include \in Includes :
           gate' = [Idle EXCEPT !.at = "refused", !.floor = floor, !.include = include]
    /\ UNCHANGED <<row, loads>>

CollectRefused ==
    /\ gate.at = "refused"
    /\ gate' = [gate EXCEPT !.at = "pois",
                            !.refused = {s \in Slugs : Draft(s) /\ Refused(row[s])}]
    /\ UNCHANGED <<row, loads>>

Promote(here, next, S) ==
    /\ gate.at = here
    /\ gate' = [gate EXCEPT !.at = next,
                            !.pending = @ \cup {s \in S : Draft(s) /\ Admits(row[s])}]
    /\ UNCHANGED <<row, loads>>

PromotePois == Promote("pois", "guides", Pois)
PromoteGuides == Promote("guides", "vendors", Guides)
PromoteVendors == Promote("vendors", "products", Vendors)

\* The vendor as this transaction sees it, its own promotions included.
SeenPublished(v) == Published(v) \/ v \in gate.pending
\* Mutant of Offerable: the EXISTS over vendors is dropped.
OfferableAlone(p) == Draft(p)

Offerable(p) == Draft(p) /\ SeenPublished(row[p].vendor)

PromoteProducts ==
    Promote("products", "commit", {p \in Products : Offerable(p)})

Listed(r) == [r EXCEPT !.status = "published"]
CommitPublish ==
    /\ gate.at = "commit"
    /\ row' = [s \in Slugs |-> IF s \in gate.pending THEN Listed(row[s]) ELSE row[s]]
    /\ gate' = Idle
    /\ UNCHANGED loads

\* A crash, a lost connection or a deadlock with a load rolls everything back.
AbortPublish ==
    /\ gate.at # "idle"
    /\ gate' = Idle
    /\ UNCHANGED <<row, loads>>

Publish ==
    \/ StartPublish \/ CollectRefused
    \/ PromotePois \/ PromoteGuides \/ PromoteVendors \/ PromoteProducts
    \/ CommitPublish \/ AbortPublish

Next == LoadPois \/ LoadGuides \/ LoadVendors \/ Publish

Spec == Init /\ [][Next]_vars

----------------------------------------------------------------------------
(* Properties *)

\* Rows and the running publish are well formed; a product has a vendor.
TypeOK ==
    /\ row \in [Slugs -> Row \cup {NoRow}]
    /\ gate \in Gate
    /\ loads \in 0..MaxLoads
    /\ \A p \in Products : Exists(p) => row[p].vendor # NoVendor

\* A published product has a published vendor behind it, whatever is loaded
\* between publish's statements (seed.py:1004, "an offer with nobody behind it").
NoOrphanOffers ==
    \A p \in Products :
        Published(p) => row[p].vendor \in Vendors /\ Published(row[p].vendor)

\* A row becomes published only by a publish whose own floor and placeholder
\* rule the row satisfies at the moment it becomes visible, although that rule
\* was evaluated statements earlier and files are loaded in between.
OnlyThroughTheGate ==
    [][\A s \in Slugs :
           ~Published(s) /\ Published(s)' =>
               /\ row[s]'.conf >= gate.floor
               /\ gate.include \/ row[s]'.source # "placeholder"]_vars

\* Loading again never takes a published row off the catalogue, nor moves a
\* product to another vendor (seed.py:382, "silently demoted by a routine reload").
NeverDemoted ==
    [][\A s \in Slugs :
           /\ Published(s) => Published(s)'
           /\ Exists(s) => row[s].vendor = row[s]'.vendor]_vars
=============================================================================
