--------------------------- MODULE Catalogue_proofs ---------------------------
(***************************************************************************)
(* What the publish gate guarantees for every catalogue, every setting of  *)
(* its options and any number of loads between its statements.  The        *)
(* inductive part says of the promotions a running publish has made, and   *)
(* nobody else can see yet, that they are drafts its rule admits and that  *)
(* a promoted product's vendor is listed or promoted beside it.            *)
(***************************************************************************)
EXTENDS Catalogue, TLAPS

\* The promotions of a running publish are drafts that satisfy its rule.
PendingAdmitted == \A s \in gate.pending : Draft(s) /\ Admits(row[s])

\* A promoted product has a vendor that is listed or promoted beside it.
PendingBacked ==
    \A p \in gate.pending \cap Products :
        row[p].vendor \in Vendors /\ SeenPublished(row[p].vendor)

GateInv == TypeOK /\ NoOrphanOffers /\ PendingAdmitted /\ PendingBacked

-----------------------------------------------------------------------------
(* Rows *)

\* Loading an entry into a slug yields a row; a row that was there keeps its
\* status and its vendor, a new one is a draft with its entry's vendor.
LEMMA UpsertRow ==
    ASSUME NEW r \in Row \cup {NoRow}, NEW e \in Entry
    PROVE  /\ Upsert(r, e) \in Row /\ Upsert(r, e) # NoRow
           /\ r # NoRow => /\ Upsert(r, e).status = r.status
                           /\ Upsert(r, e).vendor = r.vendor
           /\ r = NoRow => /\ Upsert(r, e).status = "draft"
                           /\ Upsert(r, e).vendor = e.vendor
<1>1. Upsert(r, e) \in Row
  BY DEF Upsert, Inserted, Updated, Row, Entry
<1>2. Upsert(r, e) # NoRow
  BY <1>1, NoRowIsNone
<1>3. r # NoRow => Upsert(r, e).status = r.status /\ Upsert(r, e).vendor = r.vendor
  BY DEF Upsert, Updated, Row
<1>4. r = NoRow => Upsert(r, e).status = "draft" /\ Upsert(r, e).vendor = e.vendor
  BY DEF Upsert, Inserted
<1> QED
  BY <1>1, <1>2, <1>3, <1>4

\* Listing a row changes its status and nothing else.
LEMMA ListedRow ==
    ASSUME NEW r \in Row
    PROVE  /\ Listed(r) \in Row /\ Listed(r) # NoRow
           /\ Listed(r).status = "published" /\ Listed(r).vendor = r.vendor
           /\ Listed(r).source = r.source /\ Listed(r).conf = r.conf
<1>1. Listed(r) \in Row
  BY DEF Listed, Row
<1>2. Listed(r) # NoRow
  BY <1>1, NoRowIsNone
<1> QED
  BY <1>1, <1>2 DEF Listed, Row

-----------------------------------------------------------------------------
(* Loads *)

\* What a load of any table does to each slug: nothing, or an upsert of an
\* entry, which for a product names a vendor; and never to a promoted slug.
LEMMA LoadStep ==
    ASSUME TypeOK, NEW S \in SUBSET Slugs, Load(S), NEW s \in Slugs
    PROVE  \/ row'[s] = row[s]
           \/ \E e \in Entry :
                 /\ row'[s] = Upsert(row[s], e)
                 /\ s \in Products => e.vendor # NoVendor
                 /\ s \notin gate.pending
<1>1. PICK f \in Files(S) :
          /\ \A t \in S : f[t] # NoRow => ~Locked(t)
          /\ row' = [t \in Slugs |->
                        IF t \in S /\ f[t] # NoRow THEN Upsert(row[t], f[t]) ELSE row[t]]
  BY DEF Load
<1>2. CASE s \in S /\ f[s] # NoRow
  <2>1. f[s] \in Entries(s)
    BY <1>2 DEF Files
  <2>2. f[s] \in Entry /\ (s \in Products => f[s].vendor # NoVendor)
    BY <2>1, <1>2 DEF Entries
  <2> QED
    BY <1>1, <1>2, <2>2 DEF Locked
<1>3. CASE ~(s \in S /\ f[s] # NoRow)
  BY <1>1, <1>3
<1> QED
  BY <1>2, <1>3

\* A load leaves the running publish alone, keeps every row's status and
\* vendor, and what it adds is a draft.
LEMMA LoadKeeps ==
    ASSUME TypeOK, NEW S \in SUBSET Slugs, Load(S)
    PROVE  /\ gate' = gate
           /\ TypeOK'
           /\ \A s \in Slugs : Exists(s) =>
                 /\ Exists(s)'
                 /\ row'[s].status = row[s].status
                 /\ row'[s].vendor = row[s].vendor
           /\ \A s \in Slugs : Published(s)' => Published(s)
           /\ \A s \in gate.pending : row'[s] = row[s]
<1>1. gate' = gate /\ loads' \in 0..MaxLoads
  BY LevelsAreNumbers DEF Load, TypeOK
<1>2. \A s \in Slugs : row[s] \in Row \cup {NoRow}
  BY DEF TypeOK
<1>3. ASSUME NEW s \in Slugs
      PROVE  /\ row'[s] \in Row \cup {NoRow}
             /\ Exists(s) => /\ Exists(s)'
                             /\ row'[s].status = row[s].status
                             /\ row'[s].vendor = row[s].vendor
             /\ Published(s)' => Published(s)
             /\ s \in gate.pending => row'[s] = row[s]
             /\ s \in Products /\ Exists(s)' => row'[s].vendor # NoVendor
  <2>1. CASE row'[s] = row[s]
    BY <2>1, <1>2 DEF Exists, Published, TypeOK
  <2>2. CASE \E e \in Entry : /\ row'[s] = Upsert(row[s], e)
                              /\ s \in Products => e.vendor # NoVendor
                              /\ s \notin gate.pending
    <3>1. PICK e \in Entry : /\ row'[s] = Upsert(row[s], e)
                             /\ s \in Products => e.vendor # NoVendor
                             /\ s \notin gate.pending
      BY <2>2
    <3>2. row[s] \in Row \cup {NoRow}
      BY <1>2
    <3> QED
      BY <3>1, <3>2, UpsertRow DEF Exists, Published, TypeOK
  <2> QED
    BY <2>1, <2>2, LoadStep
<1>4. row' \in [Slugs -> Row \cup {NoRow}]
  <2>1. \E g : row' = [s \in Slugs |-> g[s]]
    <3>1. PICK f \in Files(S) :
             row' = [t \in Slugs |->
                        IF t \in S /\ f[t] # NoRow THEN Upsert(row[t], f[t]) ELSE row[t]]
      BY DEF Load
    <3>2. row' = [t \in Slugs |-> row'[t]]
      BY <3>1
    <3> QED
      BY <3>2
  <2> QED
    BY <2>1, <1>3
<1>5. gate.pending \subseteq Slugs
  BY DEF TypeOK, Gate
<1>6. TypeOK'
  BY <1>1, <1>3, <1>4 DEF TypeOK, Exists, Slugs
<1> QED
  BY <1>1, <1>3, <1>5, <1>6

LEMMA LoadInv ==
    ASSUME GateInv, NEW S \in SUBSET Slugs, Load(S)
    PROVE  GateInv'
<1> USE DEF GateInv
<1>1. gate.pending \subseteq Slugs /\ Products \subseteq Slugs /\ Vendors \subseteq Slugs
  BY DEF TypeOK, Gate, Slugs
<1>2. NoOrphanOffers'
  BY <1>1, LoadKeeps DEF NoOrphanOffers, Published, Exists
<1>3. PendingAdmitted'
  BY <1>1, LoadKeeps DEF PendingAdmitted, Draft, Exists, Admits
<1>4. PendingBacked'
  BY <1>1, LoadKeeps DEF PendingBacked, SeenPublished, Published, Exists
<1> QED
  BY <1>2, <1>3, <1>4, LoadKeeps

-----------------------------------------------------------------------------
(* Publish *)

\* A statement of publish that promotes the admitted drafts of S keeps the
\* rows and the promotions made so far, and adds admitted drafts of S.
LEMMA PromoteKeeps ==
    ASSUME TypeOK, NEW S \in SUBSET Slugs, NEW here, NEW next \in Steps,
           Promote(here, next, S)
    PROVE  /\ TypeOK' /\ row' = row
           /\ gate'.floor = gate.floor /\ gate'.include = gate.include
           /\ gate.pending \subseteq gate'.pending
           /\ \A s \in gate'.pending \ gate.pending :
                 s \in S /\ Draft(s) /\ Admits(row[s])
BY DEF Promote, TypeOK, Gate, Exists

\* Each promoting statement, products apart, adds only what is not a product.
LEMMA PromoteInv ==
    ASSUME GateInv, NEW S \in SUBSET Slugs, NEW here, NEW next \in Steps,
           Promote(here, next, S),
           \A p \in S \cap Products : row[p].vendor \in Vendors /\ SeenPublished(row[p].vendor)
    PROVE  GateInv'
<1> USE DEF GateInv
<1>1. NoOrphanOffers'
  BY PromoteKeeps DEF NoOrphanOffers, Published, Exists
<1>2. PendingAdmitted'
  BY PromoteKeeps DEF PendingAdmitted, Draft, Exists, Admits
<1>3. PendingBacked'
  BY PromoteKeeps DEF PendingBacked, SeenPublished, Published, Exists
<1> QED
  BY <1>1, <1>2, <1>3, PromoteKeeps

\* The commit lists the promoted rows and touches no other.
LEMMA CommitStep ==
    ASSUME GateInv, CommitPublish
    PROVE  /\ TypeOK' /\ gate'.pending = {}
           /\ \A s \in Slugs :
                 /\ Published(s)' <=> Published(s) \/ s \in gate.pending
                 /\ Exists(s) => Exists(s)' /\ row'[s].vendor = row[s].vendor
                 /\ s \in gate.pending => /\ row'[s].source = row[s].source
                                          /\ row'[s].conf = row[s].conf
<1> USE DEF GateInv
<1>1. gate' = Idle /\ loads' = loads
      /\ row' = [s \in Slugs |-> IF s \in gate.pending THEN Listed(row[s]) ELSE row[s]]
  BY DEF CommitPublish
<1>2. ASSUME NEW s \in Slugs
      PROVE  /\ row'[s] \in Row \cup {NoRow}
             /\ Published(s)' <=> Published(s) \/ s \in gate.pending
             /\ Exists(s) => Exists(s)' /\ row'[s].vendor = row[s].vendor
             /\ Exists(s)' => Exists(s)
             /\ s \in gate.pending => /\ row'[s].source = row[s].source
                                      /\ row'[s].conf = row[s].conf
  <2>1. CASE s \in gate.pending
    <3>1. row[s] \in Row /\ Exists(s)
      BY <2>1 DEF PendingAdmitted, Draft, Exists, TypeOK
    <3>2. row'[s] = Listed(row[s])
      BY <1>1, <2>1
    <3> QED
      BY <2>1, <3>1, <3>2, ListedRow DEF Exists, Published
  <2>2. CASE s \notin gate.pending
    <3>1. row'[s] = row[s] /\ row[s] \in Row \cup {NoRow}
      BY <1>1, <2>2 DEF TypeOK
    <3> QED
      BY <2>2, <3>1 DEF Exists, Published
  <2> QED
    BY <2>1, <2>2
<1>3. row' \in [Slugs -> Row \cup {NoRow}]
  BY <1>1, <1>2
<1>4. gate' \in Gate /\ gate'.pending = {}
  BY <1>1 DEF Idle, Gate, Steps
<1>5. \A p \in Products : Exists(p)' => row'[p].vendor # NoVendor
  BY <1>2 DEF TypeOK, Slugs
<1> QED
  BY <1>1, <1>2, <1>3, <1>4, <1>5 DEF TypeOK

LEMMA CommitInv ==
    ASSUME GateInv, CommitPublish
    PROVE  GateInv'
<1> USE DEF GateInv
<1>1. NoOrphanOffers'
  <2> SUFFICES ASSUME NEW p \in Products, Published(p)'
               PROVE  (row[p].vendor \in Vendors /\ Published(row[p].vendor))'
    BY DEF NoOrphanOffers
  <2>1. p \in Slugs /\ Vendors \subseteq Slugs
    BY DEF Slugs
  <2>2. Published(p) \/ p \in gate.pending
    BY <2>1, CommitStep
  <2>3. Exists(p)
    BY <2>2 DEF Published, PendingAdmitted, Draft
  <2>4. row'[p].vendor = row[p].vendor
    BY <2>1, <2>3, CommitStep
  <2>5. row[p].vendor \in Vendors /\ SeenPublished(row[p].vendor)
    BY <2>2 DEF NoOrphanOffers, PendingBacked, SeenPublished
  <2>6. row'[row[p].vendor] # NoRow /\ row'[row[p].vendor].status = "published"
    BY <2>1, <2>5, CommitStep DEF SeenPublished, Published, Exists
  <2> QED
    BY <2>4, <2>5, <2>6 DEF Published, Exists
<1>2. PendingAdmitted' /\ PendingBacked'
  BY CommitStep DEF PendingAdmitted, PendingBacked
<1> QED
  BY <1>1, <1>2, CommitStep

\* Starting and aborting leave the rows alone and hold no promotion.
LEMMA ResetInv ==
    ASSUME GateInv, row' = row, loads' = loads, gate' \in Gate, gate'.pending = {}
    PROVE  GateInv'
BY DEF GateInv, TypeOK, NoOrphanOffers, PendingAdmitted, PendingBacked, Published, Exists

LEMMA InitInv == Init => GateInv
<1> SUFFICES ASSUME Init PROVE GateInv
  OBVIOUS
<1>1. gate \in Gate /\ gate.pending = {}
  BY DEF Init, Idle, Gate, Steps
<1>2. loads \in 0..MaxLoads
  BY LevelsAreNumbers DEF Init
<1> QED
  BY <1>1, <1>2 DEF Init, GateInv, TypeOK, NoOrphanOffers, PendingAdmitted,
                    PendingBacked, Exists, Published, Slugs

LEMMA NextInv ==
    ASSUME GateInv, [Next]_vars
    PROVE  GateInv'
<1>0. Steps = {"idle", "refused", "pois", "guides", "vendors", "products", "commit"}
  BY DEF Steps
<1>1. CASE LoadPois
  BY <1>1, LoadInv DEF LoadPois, Slugs
<1>2. CASE LoadGuides
  BY <1>2, LoadInv DEF LoadGuides, Slugs
<1>3. CASE LoadVendors
  BY <1>3, LoadInv DEF LoadVendors, Slugs
<1>4. CASE StartPublish
  <2>1. PICK floor \in Floors, include \in Includes :
            gate' = [Idle EXCEPT !.at = "refused", !.floor = floor, !.include = include]
    BY <1>4 DEF StartPublish
  <2>2. gate' \in Gate /\ gate'.pending = {}
    BY <2>1, LevelsAreNumbers DEF Idle, Gate, Steps
  <2> QED
    BY <1>4, <2>2, ResetInv DEF StartPublish
<1>5. CASE CollectRefused
  <2>1. gate' = [gate EXCEPT !.at = "pois",
                             !.refused = {s \in Slugs : Draft(s) /\ Refused(row[s])}]
        /\ row' = row /\ loads' = loads
    BY <1>5 DEF CollectRefused
  <2>2. gate' \in Gate /\ gate'.pending = gate.pending
        /\ gate'.floor = gate.floor /\ gate'.include = gate.include
    BY <2>1 DEF GateInv, TypeOK, Gate, Steps
  <2> QED
    BY <2>1, <2>2 DEF GateInv, TypeOK, NoOrphanOffers, PendingAdmitted, PendingBacked,
                      Published, Exists, Draft, Admits, SeenPublished
<1>6. CASE PromotePois
  <2>1. Pois \cap Products = {} /\ Pois \in SUBSET Slugs /\ "guides" \in Steps
    BY KindsDiffer DEF Slugs, Steps
  <2> QED
    BY <1>6, <2>1, PromoteInv DEF PromotePois
<1>7. CASE PromoteGuides
  <2>1. Guides \cap Products = {} /\ Guides \in SUBSET Slugs /\ "vendors" \in Steps
    BY KindsDiffer DEF Slugs, Steps
  <2> QED
    BY <1>7, <2>1, PromoteInv DEF PromoteGuides
<1>8. CASE PromoteVendors
  <2>1. Vendors \cap Products = {} /\ Vendors \in SUBSET Slugs /\ "products" \in Steps
    BY KindsDiffer DEF Slugs, Steps
  <2> QED
    BY <1>8, <2>1, PromoteInv DEF PromoteVendors
<1>9. CASE PromoteProducts
  <2> DEFINE S == {p \in Products : Offerable(p)}
  <2>1. S \in SUBSET Slugs /\ "commit" \in Steps /\ Promote("products", "commit", S)
    BY <1>9 DEF PromoteProducts, Slugs, Steps
  <2>2. \A p \in S \cap Products : row[p].vendor \in Vendors /\ SeenPublished(row[p].vendor)
    BY DEF GateInv, TypeOK, Offerable, Draft, Exists, Row, Slugs
  <2> QED
    BY <2>1, <2>2, PromoteInv
<1>10. CASE CommitPublish
  BY <1>10, CommitInv
<1>11. CASE AbortPublish
  <2>1. gate' \in Gate /\ gate'.pending = {}
    BY <1>11 DEF AbortPublish, Idle, Gate, Steps
  <2> QED
    BY <1>11, <2>1, ResetInv DEF AbortPublish
<1>12. CASE UNCHANGED vars
  BY <1>12 DEF vars, GateInv, TypeOK, NoOrphanOffers, PendingAdmitted, PendingBacked,
               Published, Exists, Draft, Admits, SeenPublished
<1> QED
  BY <1>1, <1>2, <1>3, <1>4, <1>5, <1>6, <1>7, <1>8, <1>9, <1>10, <1>11, <1>12
     DEF Next, Publish

THEOREM GateSafe == Spec => []GateInv
<1>1. Init => GateInv
  BY InitInv
<1>2. GateInv /\ [Next]_vars => GateInv'
  BY NextInv
<1> QED
  BY <1>1, <1>2, PTL DEF Spec

\* Rows and the running publish stay well formed.
THEOREM CatalogueTypeCorrect == Spec => []TypeOK
<1>1. GateInv => TypeOK
  BY DEF GateInv
<1> QED
  BY <1>1, GateSafe, PTL

\* No offer without a published vendor behind it, however loads fall between
\* the statements of publish (seed.py:1004).
THEOREM OffersAreBacked == Spec => []NoOrphanOffers
<1>1. GateInv => NoOrphanOffers
  BY DEF GateInv
<1> QED
  BY <1>1, GateSafe, PTL

-----------------------------------------------------------------------------
(* What a step may do to a row *)

\* Every step other than a load or the commit leaves the rows alone.
LEMMA RowSteps ==
    ASSUME [Next]_vars
    PROVE  \/ row' = row
           \/ \E S \in SUBSET Slugs : Load(S)
           \/ CommitPublish
<1>1. Pois \in SUBSET Slugs /\ Guides \in SUBSET Slugs
      /\ Vendors \cup Products \in SUBSET Slugs
  BY DEF Slugs
<1>2. CASE LoadPois \/ LoadGuides \/ LoadVendors
  BY <1>1, <1>2 DEF LoadPois, LoadGuides, LoadVendors
<1>3. CASE Publish
  BY <1>3 DEF Publish, StartPublish, CollectRefused, PromotePois, PromoteGuides,
              PromoteVendors, PromoteProducts, Promote, AbortPublish
<1>4. CASE UNCHANGED vars
  BY <1>4 DEF vars
<1> QED
  BY <1>2, <1>3, <1>4 DEF Next

LEMMA GateStep ==
    ASSUME GateInv, [Next]_vars, NEW s \in Slugs, ~Published(s), Published(s)'
    PROVE  /\ row'[s].conf >= gate.floor
           /\ gate.include \/ row'[s].source # "placeholder"
<1> USE DEF GateInv
<1>1. CASE row' = row
  BY <1>1 DEF Published, Exists
<1>2. CASE \E S \in SUBSET Slugs : Load(S)
  BY <1>2, LoadKeeps
<1>3. CASE CommitPublish
  <2>1. s \in gate.pending
    BY <1>3, CommitStep
  <2>2. Admits(row[s])
    BY <2>1 DEF PendingAdmitted
  <2>3. row'[s].source = row[s].source /\ row'[s].conf = row[s].conf
    BY <1>3, <2>1, CommitStep
  <2> QED
    BY <2>2, <2>3 DEF Admits
<1> QED
  BY <1>1, <1>2, <1>3, RowSteps

\* The gate's rule holds of a row when it becomes visible, not only when the
\* UPDATE that chose it ran.
THEOREM GateIsKept == Spec => OnlyThroughTheGate
<1>1. GateInv /\ [Next]_vars =>
        [\A s \in Slugs :
            ~Published(s) /\ Published(s)' =>
               /\ row[s]'.conf >= gate.floor
               /\ gate.include \/ row[s]'.source # "placeholder"]_vars
  BY GateStep
<1> QED
  BY <1>1, GateSafe, PTL DEF Spec, OnlyThroughTheGate

LEMMA KeepStep ==
    ASSUME GateInv, [Next]_vars, NEW s \in Slugs
    PROVE  /\ Published(s) => Published(s)'
           /\ Exists(s) => row[s].vendor = row'[s].vendor
<1> USE DEF GateInv
<1>1. CASE row' = row
  BY <1>1 DEF Published, Exists
<1>2. CASE \E S \in SUBSET Slugs : Load(S)
  BY <1>2, LoadKeeps DEF Published, Exists
<1>3. CASE CommitPublish
  <2>1. Published(s) => Published(s)'
    BY <1>3, CommitStep
  <2>2. Exists(s) => row'[s].vendor = row[s].vendor
    BY <1>3, CommitStep
  <2> QED
    BY <2>1, <2>2
<1> QED
  BY <1>1, <1>2, <1>3, RowSteps

\* A routine reload demotes no row and moves no product to another vendor.
THEOREM ReloadKeeps == Spec => NeverDemoted
<1>1. GateInv /\ [Next]_vars =>
        [\A s \in Slugs : /\ Published(s) => Published(s)'
                          /\ Exists(s) => row[s].vendor = row[s]'.vendor]_vars
  BY KeepStep
<1> QED
  BY <1>1, GateSafe, PTL DEF Spec, NeverDemoted
=============================================================================
