-------------------------- MODULE Migrations_proofs --------------------------
(***************************************************************************)
(* Proofs about Migrations: whatever releases start together, race for a   *)
(* file, die or are replaced, the schema is the one the table records, and *)
(* a process serves only on the migrations of its own release.             *)
(***************************************************************************)
EXTENDS Migrations, TLAPS

\* What a runner holds is still true although others have written since: the
\* rows it read are there unchanged, and those it has passed are its own.
Reliable(s) ==
    /\ \A f \in Files : applied[s][f] = None \/ applied[s][f] = recorded[f]
    /\ next[s] <= Len(disk[s]) + 1
    /\ \A f \in Files : f < next[s] => recorded[f] = disk[s][f]

RunnersAreReliable == \A s \in Starters : at[s] = "applying" => Reliable(s)

MInv == TypeOK /\ SchemaIsRecorded /\ RunnersAreReliable /\ ServesItsSchema

-----------------------------------------------------------------------------
\* The files of a release are numbered without a gap and have contents.
LEMMA ReleaseFacts ==
    ASSUME NEW r \in Releases
    PROVE  /\ Len(r) \in Nat
           /\ DOMAIN r = 1 .. Len(r)
           /\ DOMAIN r \subseteq Files
           /\ \A f \in DOMAIN r : r[f] \in Contents /\ r[f] # None
<1>1. r \in Seq(Contents)
  BY ReleasesAssumption
<1>2. DOMAIN r \subseteq Files
  BY DEF Files
<1> QED
  BY <1>1, <1>2, ReleasesAssumption

\* Files are numbered from 1.
LEMMA FilesAreNumbers == \A f \in Files : f \in Nat /\ f >= 1
<1> SUFFICES ASSUME NEW r \in Releases, NEW f \in DOMAIN r
             PROVE  f \in Nat /\ f >= 1
  BY DEF Files
<1> QED
  BY ReleaseFacts

\* The file a runner looks at is one of its release.
LEMMA LooksAtAFile ==
    ASSUME TypeOK, NEW s \in Starters, Looks(s)
    PROVE  /\ disk[s] \in Releases
           /\ next[s] \in DOMAIN disk[s] /\ next[s] \in Files
           /\ next[s] \in Nat /\ next[s] >= 1 /\ next[s] <= Len(disk[s])
           /\ disk[s][next[s]] \in Contents /\ disk[s][next[s]] # None
<1>1. disk[s] \in Releases /\ next[s] \in Nat \ {0} /\ next[s] <= Len(disk[s])
  BY DEF TypeOK, Looks
<1>2. next[s] \in DOMAIN disk[s]
  BY <1>1, ReleaseFacts
<1> QED
  BY <1>1, <1>2, ReleaseFacts

-----------------------------------------------------------------------------
(* Types *)

LEMMA TypeInit == Init => TypeOK
<1> QED
  BY ReleasesAssumption DEF Init, Nothing, TypeOK

LEMMA TypeStep == TypeOK /\ [Next]_vars => TypeOK'
<1> SUFFICES ASSUME TypeOK, [Next]_vars
             PROVE  TypeOK'
  OBVIOUS
<1> USE DEF TypeOK, Become, database, bounds
<1>1. ASSUME NEW s \in Starters, Start(s)
      PROVE  TypeOK'
  BY <1>1 DEF Start
<1>2. ASSUME NEW s \in Starters, ReadApplied(s)
      PROVE  TypeOK'
  BY <1>2 DEF ReadApplied
<1>3. ASSUME NEW s \in Starters, Skip(s)
      PROVE  TypeOK'
  BY <1>3 DEF Skip
<1>4. ASSUME NEW s \in Starters, Apply(s)
      PROVE  TypeOK'
  <2>1. next[s] \in Files /\ disk[s][next[s]] \in Contents \ Broken
    BY <1>4, LooksAtAFile DEF Apply, Refused
  <2>2. recorded' \in [Files -> (Contents \ Broken) \cup {None}] /\ ran' \in [Files -> Nat]
    BY <1>4, <2>1 DEF Apply
  <2> QED
    BY <1>4, <2>2 DEF Apply
<1>5. ASSUME NEW s \in Starters, Raise(s)
      PROVE  TypeOK'
  BY <1>5 DEF Raise, Leave, Nothing
<1>6. ASSUME NEW s \in Starters, Serve(s)
      PROVE  TypeOK'
  BY <1>6 DEF Serve, Leave, Nothing
<1>7. ASSUME NEW s \in Starters, Fail(s)
      PROVE  TypeOK'
  BY <1>7, ReleasesAssumption DEF Fail, Leave, Nothing
<1>8. ASSUME NEW s \in Starters, Deploy(s)
      PROVE  TypeOK'
  BY <1>8, ReleasesAssumption DEF Deploy
<1>9. CASE UNCHANGED vars
  BY <1>9 DEF vars
<1> QED
  BY <1>1, <1>2, <1>3, <1>4, <1>5, <1>6, <1>7, <1>8, <1>9 DEF Next, Run

-----------------------------------------------------------------------------
(* Steps *)

\* Applying a file nobody has recorded takes nothing from anyone: those who
\* passed it had it recorded, and those who read the table had not seen it.
LEMMA ApplyKeeps ==
    ASSUME MInv, NEW s \in Starters, Apply(s)
    PROVE  SchemaIsRecorded' /\ RunnersAreReliable' /\ ServesItsSchema'
<1> DEFINE g == next[s]
<1>1. TypeOK /\ SchemaIsRecorded /\ RunnersAreReliable /\ ServesItsSchema
  BY DEF MInv
<1>2. /\ g \in DOMAIN disk[s] /\ g \in Files /\ g \in Nat /\ g <= Len(disk[s])
      /\ disk[s][g] # None /\ Len(disk[s]) \in Nat
  BY <1>1, LooksAtAFile, ReleaseFacts DEF Apply
<1>3. at[s] = "applying" /\ applied[s][g] = None /\ recorded[g] = None /\ ran[g] = 0
  BY <1>1, <1>2 DEF Apply, Looks, Known, Refused, SchemaIsRecorded
<1>4. /\ \A f \in Files : recorded'[f] = IF f = g THEN disk[s][g] ELSE recorded[f]
      /\ \A f \in Files : ran'[f] = IF f = g THEN 1 ELSE ran[f]
      /\ \A t \in Starters : next'[t] = IF t = s THEN g + 1 ELSE next[t]
      /\ disk' = disk /\ at' = at /\ applied' = applied
  BY <1>1, <1>2, <1>3 DEF Apply, TypeOK
<1>5. Reliable(s)
  BY <1>1, <1>3 DEF RunnersAreReliable
<1>6. SchemaIsRecorded'
  <2>1. \A f \in Files : ran'[f] = IF recorded'[f] = None THEN 0 ELSE 1
    BY <1>1, <1>2, <1>4 DEF SchemaIsRecorded
  <2>2. ASSUME NEW f \in Files, NEW h \in Files, f < h, recorded'[h] # None
        PROVE  recorded'[f] # None
    <3>1. CASE h = g
      <4>1. recorded[f] = disk[s][f]
        BY <2>2, <3>1, <1>5 DEF Reliable
      <4>2. f \in DOMAIN disk[s]
        BY <2>2, <3>1, <1>1, <1>2, FilesAreNumbers, ReleaseFacts DEF TypeOK
      <4>3. disk[s][f] # None
        BY <4>2, <1>1, ReleaseFacts DEF TypeOK
      <4> QED
        BY <4>1, <4>3, <1>2, <1>4
    <3>2. CASE h # g
      BY <2>2, <3>2, <1>1, <1>2, <1>4 DEF SchemaIsRecorded
    <3> QED
      BY <3>1, <3>2
  <2> QED
    BY <2>1, <2>2 DEF SchemaIsRecorded
<1>7. ASSUME NEW t \in Starters, at'[t] = "applying"
      PROVE  Reliable(t)'
  <2>1. Reliable(t)
    BY <1>1, <1>4, <1>7 DEF RunnersAreReliable
  <2>2. \A f \in Files : applied'[t][f] = None \/ applied'[t][f] = recorded'[f]
    BY <2>1, <1>3, <1>4 DEF Reliable
  <2>3. CASE t = s
    <3>1. next'[t] <= Len(disk'[t]) + 1
      BY <2>3, <1>2, <1>4
    <3>2. ASSUME NEW f \in Files, f < next'[t]
          PROVE  recorded'[f] = disk'[t][f]
      BY <3>2, <2>3, <2>1, <1>2, <1>4, FilesAreNumbers DEF Reliable
    <3> QED
      BY <2>2, <3>1, <3>2 DEF Reliable
  <2>4. CASE t # s
    <3>1. next'[t] <= Len(disk'[t]) + 1
      BY <2>4, <2>1, <1>4 DEF Reliable
    <3>2. ASSUME NEW f \in Files, f < next'[t]
          PROVE  recorded'[f] = disk'[t][f]
      <4>1. recorded[f] = disk[t][f]
        BY <3>2, <2>4, <2>1, <1>4 DEF Reliable
      <4>2. f \in DOMAIN disk[t] /\ disk[t][f] # None
        BY <3>2, <2>4, <2>1, <1>1, <1>4, FilesAreNumbers, ReleaseFacts DEF Reliable, TypeOK
      <4> QED
        BY <4>1, <4>2, <1>3, <1>4
    <3> QED
      BY <2>2, <3>1, <3>2 DEF Reliable
  <2> QED
    BY <2>3, <2>4
<1>8. ServesItsSchema'
  <2> SUFFICES ASSUME NEW t \in Starters, at'[t] = "serving", NEW f \in DOMAIN disk'[t]
               PROVE  recorded'[f] = disk'[t][f]
    BY DEF ServesItsSchema
  <2>1. recorded[f] = disk[t][f]
    BY <1>1, <1>4 DEF ServesItsSchema
  <2>2. f \in Files /\ disk[t][f] # None
    BY <1>1, <1>4, ReleaseFacts DEF TypeOK
  <2> QED
    BY <2>1, <2>2, <1>3, <1>4
<1> QED
  BY <1>6, <1>7, <1>8 DEF RunnersAreReliable

\* A step that leaves the database and what the others hold alone keeps it, if
\* its own runner ends up reliable, or serving what it has.
LEMMA QuietKeeps ==
    ASSUME MInv, NEW s \in Starters, UNCHANGED database,
           \A t \in Starters \ {s} : /\ at'[t] = at[t] /\ applied'[t] = applied[t]
                                     /\ next'[t] = next[t] /\ disk'[t] = disk[t],
           at'[s] = "applying" => Reliable(s)',
           at'[s] = "serving" => \A f \in DOMAIN disk'[s] : recorded[f] = disk'[s][f]
    PROVE  SchemaIsRecorded' /\ RunnersAreReliable' /\ ServesItsSchema'
<1> USE DEF database
<1>1. SchemaIsRecorded'
  BY DEF MInv, SchemaIsRecorded
<1>2. ASSUME NEW t \in Starters, at'[t] = "applying"
      PROVE  Reliable(t)'
  <2>1. CASE t # s
    BY <1>2, <2>1 DEF MInv, RunnersAreReliable, Reliable
  <2> QED
    BY <1>2, <2>1
<1>3. ASSUME NEW t \in Starters, at'[t] = "serving", NEW f \in DOMAIN disk'[t]
      PROVE  recorded'[f] = disk'[t][f]
  <2>1. CASE t # s
    BY <1>3, <2>1 DEF MInv, ServesItsSchema
  <2> QED
    BY <1>3, <2>1
<1> QED
  BY <1>1, <1>2, <1>3 DEF RunnersAreReliable, ServesItsSchema

LEMMA MInit == Init => MInv
<1> SUFFICES ASSUME Init
             PROVE  MInv
  OBVIOUS
<1>1. TypeOK
  BY TypeInit
<1>2. SchemaIsRecorded /\ RunnersAreReliable /\ ServesItsSchema
  BY DEF Init, Nothing, SchemaIsRecorded, RunnersAreReliable, ServesItsSchema
<1> QED
  BY <1>1, <1>2 DEF MInv

LEMMA MStep == MInv /\ [Next]_vars => MInv'
<1> SUFFICES ASSUME MInv, [Next]_vars
             PROVE  MInv'
  OBVIOUS
<1> DEFINE Rest == SchemaIsRecorded /\ RunnersAreReliable /\ ServesItsSchema
<1>0. TypeOK /\ TypeOK'
  BY TypeStep DEF MInv
<1>1. ASSUME NEW s \in Starters, Start(s)
      PROVE  Rest'
  <2>1. at'[s] = "reading"
    BY <1>0, <1>1 DEF Start, Become, TypeOK
  <2> QED
    BY <1>0, <1>1, <2>1, QuietKeeps DEF Start, Become, TypeOK
<1>2. ASSUME NEW s \in Starters, ReadApplied(s)
      PROVE  Rest'
  <2>1. at'[s] = "applying" /\ applied'[s] = recorded /\ next'[s] = 1
    BY <1>0, <1>2 DEF ReadApplied, Become, TypeOK
  <2>2. recorded' = recorded /\ disk'[s] \in Releases
    BY <1>0, <1>2 DEF ReadApplied, database, TypeOK
  <2>3. Reliable(s)'
    BY <2>1, <2>2, FilesAreNumbers, ReleaseFacts DEF Reliable
  <2> QED
    BY <1>0, <1>2, <2>1, <2>3, QuietKeeps DEF ReadApplied, Become, TypeOK
<1>3. ASSUME NEW s \in Starters, Skip(s)
      PROVE  Rest'
  <2>1. Reliable(s)
    BY <1>3 DEF Skip, Looks, MInv, RunnersAreReliable
  <2>2. /\ next[s] \in Files /\ next[s] \in Nat /\ next[s] <= Len(disk[s])
        /\ Len(disk[s]) \in Nat
    BY <1>0, <1>3, LooksAtAFile, ReleaseFacts DEF Skip
  <2>3. recorded[next[s]] = disk[s][next[s]]
    BY <1>3, <2>1, <2>2 DEF Skip, Known, Changed, Reliable
  <2>4. /\ next'[s] = next[s] + 1 /\ at'[s] = "applying"
        /\ recorded' = recorded /\ applied' = applied /\ disk' = disk
    BY <1>0, <1>3 DEF Skip, Looks, TypeOK, database
  <2>5. Reliable(s)'
    BY <2>1, <2>2, <2>3, <2>4, FilesAreNumbers DEF Reliable
  <2> QED
    BY <1>0, <1>3, <2>4, <2>5, QuietKeeps DEF Skip, TypeOK
<1>4. ASSUME NEW s \in Starters, Apply(s)
      PROVE  Rest'
  BY <1>4, ApplyKeeps
<1>5. ASSUME NEW s \in Starters, Raise(s)
      PROVE  Rest'
  <2>1. at'[s] = "down"
    BY <1>0, <1>5 DEF Raise, Leave, Become, TypeOK
  <2> QED
    BY <1>0, <1>5, <2>1, QuietKeeps DEF Raise, Leave, Become, TypeOK
<1>6. ASSUME NEW s \in Starters, Serve(s)
      PROVE  Rest'
  <2>1. Reliable(s) /\ disk[s] \in Releases
    BY <1>0, <1>6 DEF Serve, MInv, RunnersAreReliable, TypeOK
  <2>2. at'[s] = "serving" /\ disk' = disk
    BY <1>0, <1>6 DEF Serve, Leave, Become, TypeOK
  <2>3. ASSUME NEW f \in DOMAIN disk[s]
        PROVE  recorded[f] = disk[s][f]
    <3>1. f \in Files /\ f \in Nat /\ f <= Len(disk[s]) /\ Len(disk[s]) \in Nat
      BY <2>1, <2>3, ReleaseFacts
    <3>2. f < next[s]
      BY <1>0, <1>6, <3>1 DEF Serve, TypeOK
    <3> QED
      BY <2>1, <3>1, <3>2 DEF Reliable
  <2> QED
    BY <1>0, <1>6, <2>2, <2>3, QuietKeeps DEF Serve, Leave, Become, TypeOK
<1>7. ASSUME NEW s \in Starters, Fail(s)
      PROVE  Rest'
  <2>1. at'[s] = "down"
    BY <1>0, <1>7 DEF Fail, Leave, Become, TypeOK
  <2> QED
    BY <1>0, <1>7, <2>1, QuietKeeps DEF Fail, Leave, Become, TypeOK
<1>8. ASSUME NEW s \in Starters, Deploy(s)
      PROVE  Rest'
  <2>1. at'[s] = "down"
    BY <1>8 DEF Deploy
  <2> QED
    BY <1>0, <1>8, <2>1, QuietKeeps DEF Deploy, TypeOK
<1>9. ASSUME UNCHANGED vars
      PROVE  Rest'
  BY <1>9 DEF MInv, vars, SchemaIsRecorded, RunnersAreReliable, Reliable, ServesItsSchema
<1>10. Rest'
  BY <1>1, <1>2, <1>3, <1>4, <1>5, <1>6, <1>7, <1>8, <1>9 DEF Next, Run
<1> QED
  BY <1>0, <1>10 DEF MInv

-----------------------------------------------------------------------------
LEMMA MHolds == Spec => []MInv
<1> QED
  BY MInit, MStep, PTL DEF Spec

\* Records, counters and what each process holds stay well typed, for every
\* set of releases and any number of processes (db.py, apply_migrations).
THEOREM MigrationsTypeCorrect == Spec => []TypeOK
<1> QED
  BY MHolds, PTL DEF MInv

\* A migration is part of the schema exactly once when the table records it and
\* not at all otherwise, and the recorded ones are the first ones, however many
\* processes race for a file (db.py, one transaction a file, filename the key).
THEOREM SchemaRecorded == Spec => []SchemaIsRecorded
<1> QED
  BY MHolds, PTL DEF MInv

\* A process serves only while the schema holds each migration of its release,
\* with the content its own files have (db.py, the checksum comparison).
THEOREM ServesOwnSchema == Spec => []ServesItsSchema
<1> QED
  BY MHolds, PTL DEF MInv
=============================================================================
