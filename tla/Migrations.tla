----------------------------- MODULE Migrations -----------------------------
(***************************************************************************)
(* The migration runner (db.py) as API processes run it when they start    *)
(* (api/app.py, migrate_on_start): several may start at once, each with    *)
(* the files of its own release, and a host starts again what ended.       *)
(*                                                                         *)
(* A migration is its number and its content; the content stands for the   *)
(* checksum.  Nothing serialises two runners but the transactions.         *)
(***************************************************************************)
EXTENDS Integers, Sequences

CONSTANTS
    Starters,       \* processes that apply migrations on start
    Contents,       \* contents a file may have
    Broken,         \* those whose SQL fails wherever it runs
    Releases,       \* the *.sql files of a release, in filename order
    MaxFaults,      \* bound: kills and lost statements
    MaxDeploys,     \* bound: releases put under a process that ended
    Rerunnable,     \* files whose SQL succeeds on a schema that has it already
    None            \* no row in schema_migrations

ASSUME ReleasesAssumption ==
    /\ Releases \subseteq Seq(Contents) /\ Broken \subseteq Contents
    /\ None \notin Contents
    /\ MaxFaults \in Nat /\ MaxDeploys \in Nat

Files == UNION {DOMAIN r : r \in Releases}

VARIABLES
    recorded,   \* schema_migrations: file -> checksum
    ran,        \* file -> how often its SQL has become part of the schema
    disk,       \* starter -> its release
    at,         \* starter -> where it is
    applied,    \* starter -> schema_migrations as it read it
    next,       \* starter -> the file it looks at
    faults, deploys

vars == <<recorded, ran, disk, at, applied, next, faults, deploys>>
database == <<recorded, ran>>
bounds == <<faults, deploys>>

Nothing == [f \in Files |-> None]

Init ==
    /\ recorded = Nothing
    /\ ran = [f \in Files |-> 0]
    /\ disk \in [Starters -> Releases]
    /\ at = [s \in Starters |-> "down"]
    /\ applied = [s \in Starters |-> Nothing]
    /\ next = [s \in Starters |-> 1]
    /\ faults = 0
    /\ deploys = 0

-----------------------------------------------------------------------------
Become(s, step) == at' = [at EXCEPT ![s] = step]

\* apply_migrations returns or raises: what it has read goes with it.
Leave(s, step) ==
    /\ Become(s, step)
    /\ applied' = [applied EXCEPT ![s] = Nothing]
    /\ next' = [next EXCEPT ![s] = 1]

\* lifespan: migrate_on_start, before anything is served.
Start(s) ==
    /\ at[s] = "down"
    /\ Become(s, "reading")
    /\ UNCHANGED <<database, disk, applied, next, bounds>>

\* Mutant of ReadApplied: the table is never read.
ReadNothing(s) ==
    /\ at[s] = "reading"
    /\ Become(s, "applying")
    /\ applied' = [applied EXCEPT ![s] = Nothing]
    /\ next' = [next EXCEPT ![s] = 1]
    /\ UNCHANGED <<database, disk, bounds>>

\* CREATE TABLE IF NOT EXISTS, then one SELECT that is not read again.
ReadApplied(s) ==
    /\ at[s] = "reading"
    /\ Become(s, "applying")
    /\ applied' = [applied EXCEPT ![s] = recorded]
    /\ next' = [next EXCEPT ![s] = 1]
    /\ UNCHANGED <<database, disk, bounds>>

Looks(s) == at[s] = "applying" /\ next[s] <= Len(disk[s])
Known(s) == applied[s][next[s]] # None

\* Mutant of Changed: the checksums are not compared.
ChangedNever(s) == FALSE

Changed(s) == Known(s) /\ applied[s][next[s]] # disk[s][next[s]]

Skip(s) ==
    /\ Looks(s)
    /\ Known(s) /\ ~Changed(s)
    /\ next' = [next EXCEPT ![s] = @ + 1]
    /\ UNCHANGED <<database, disk, at, applied, bounds>>

\* The transaction of a file another runner got to first fails: in its SQL, or
\* at the latest on the primary key of schema_migrations.
Refused(s) ==
    \/ disk[s][next[s]] \in Broken
    \/ ran[next[s]] > 0 /\ next[s] \notin Rerunnable
    \/ recorded[next[s]] # None

\* One transaction: the SQL and its row.
Apply(s) ==
    /\ Looks(s)
    /\ ~Known(s) /\ ~Refused(s)
    /\ recorded' = [recorded EXCEPT ![next[s]] = disk[s][next[s]]]
    /\ ran' = [ran EXCEPT ![next[s]] = @ + 1]
    /\ next' = [next EXCEPT ![s] = @ + 1]
    /\ UNCHANGED <<disk, at, applied, bounds>>

\* Mutant of Raise: a file that fails is logged and passed over.
RaiseNothing(s) ==
    /\ Looks(s)
    /\ Changed(s) \/ (~Known(s) /\ Refused(s))
    /\ next' = [next EXCEPT ![s] = @ + 1]
    /\ UNCHANGED <<database, disk, at, applied, bounds>>

\* MigrationError, or the error of the transaction: the process does not come up.
Raise(s) ==
    /\ Looks(s)
    /\ Changed(s) \/ (~Known(s) /\ Refused(s))
    /\ Leave(s, "down")
    /\ UNCHANGED <<database, disk, bounds>>

Serve(s) ==
    /\ at[s] = "applying"
    /\ next[s] > Len(disk[s])
    /\ Leave(s, "serving")
    /\ UNCHANGED <<database, disk, bounds>>

\* The process is killed or loses the database: an open transaction is undone.
Fail(s) ==
    /\ faults < MaxFaults
    /\ at[s] # "down"
    /\ faults' = faults + 1
    /\ Leave(s, "down")
    /\ UNCHANGED <<database, disk, deploys>>

\* Another release is put in its place.
Deploy(s) ==
    /\ deploys < MaxDeploys
    /\ at[s] = "down"
    /\ deploys' = deploys + 1
    /\ \E r \in Releases : disk' = [disk EXCEPT ![s] = r]
    /\ UNCHANGED <<database, at, applied, next, faults>>

Run(s) ==
    \/ Start(s) \/ ReadApplied(s) \/ Skip(s) \/ Apply(s) \/ Raise(s) \/ Serve(s)

Next == \E s \in Starters : Run(s) \/ Fail(s) \/ Deploy(s)

Spec == Init /\ [][Next]_vars

\* A process goes on, and its host starts it again when it ended.
FairSpec == Spec /\ \A s \in Starters : WF_vars(Run(s))

-----------------------------------------------------------------------------
TypeOK ==
    /\ recorded \in [Files -> (Contents \ Broken) \cup {None}]
    /\ ran \in [Files -> Nat]
    /\ disk \in [Starters -> Releases]
    /\ at \in [Starters -> {"down", "reading", "applying", "serving"}]
    /\ applied \in [Starters -> [Files -> Contents \cup {None}]]
    /\ next \in [Starters -> Nat \ {0}]
    /\ faults \in 0 .. MaxFaults /\ deploys \in 0 .. MaxDeploys

\* The schema is that of the table: a migration is part of it exactly once when
\* it is recorded and not at all otherwise, whoever raced or died, and those
\* recorded are the first ones ("the database at the last good migration").
SchemaIsRecorded ==
    /\ \A f \in Files : ran[f] = IF recorded[f] = None THEN 0 ELSE 1
    /\ \A f, g \in Files : (f < g /\ recorded[g] # None) => recorded[f] # None

\* A process that serves runs on the very migrations of its release: none is
\* missing and none is another of the same name, although it read the table
\* once and others wrote to it since (test_migrations.py, "drift silently").
ServesItsSchema ==
    \A s \in Starters : at[s] = "serving" =>
        \A f \in DOMAIN disk[s] : recorded[f] = disk[s][f]

\* What stands in the way of a release for good.
Hopeless(s) ==
    \E f \in DOMAIN disk[s] :
        disk[s][f] \in Broken \/ recorded[f] \notin {None, disk[s][f]}

\* A race costs a start, not the service: a process whose release can be served
\* serves in the end, however often it lost a file to another runner.
ComesUp == \A s \in Starters : []<>(at[s] = "serving" \/ Hopeless(s))
=============================================================================
