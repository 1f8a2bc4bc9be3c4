---------------------------- MODULE SchemaBootstrap ----------------------------
(* Boot of the api-server: ensureCasDatabaseSchema (lib/db-schema-ensure.ts) and   *)
(* what index.ts does with its result.  Builds of several releases start and die   *)
(* against one database: a release's build carries the migrations 1..release, and  *)
(* the database may be empty or have been made by a manual `drizzle-kit push`.     *)
(*                                                                                 *)
(* A migration stands for the objects it creates: `tables` is the set of           *)
(* migrations whose objects exist, `drifted` says that some object an earlier push *)
(* left has another shape than any release's.  `records` is the migrations table   *)
(* of drizzle, in the order of its rows.                                           *)
EXTENDS Integers, SequencesExt

CONSTANTS
    Boots,           \* server processes that start against the database
    Releases,        \* the latest release; release r carries the migrations 1..r
    MaxStarts,       \* bound: process starts
    MaxReconciles,   \* bound: manual pushes
    NoBoot

ASSUME BootAssumption == Releases \in Nat \ {0} /\ NoBoot \notin Boots

VARIABLES
    tables, drifted, records,   \* the database
    lock,       \* who holds the advisory lock; a session that ends gives it back
    boot,       \* per process: [at, release, last, why]
    starts, reconciles,
    cutShort,   \* history: a process died between two rows of a baseline
    outgrown    \* history: a baseline was stamped that a later release's push, before or
                \* after it, has outgrown

bootVars ==
    <<tables, drifted, records, lock, boot, starts, reconciles, cutShort, outgrown>>

Down == [at |-> "down", release |-> 1, last |-> 0, why |-> "none"]
Migrations(b) == 1..boot[b].release
Go(b, at) == boot' = [boot EXCEPT ![b].at = at]
Refuse(b, why) == boot' = [boot EXCEPT ![b].at = "refused", ![b].why = why]
LastRecorded == IF records = <<>> THEN 0 ELSE Max(ToSet(records))

BootInit ==
    /\ \/ tables = {} /\ drifted = FALSE
       \/ \E r \in 1..Releases : tables = 1..r /\ drifted \in BOOLEAN
    /\ records = <<>> /\ lock = NoBoot
    /\ boot = [b \in Boots |-> Down]
    /\ starts = 0 /\ reconciles = 0 /\ cutShort = FALSE /\ outgrown = FALSE

Start(b) == \E r \in 1..Releases :
    /\ boot[b].at \in {"down", "refused"} /\ starts < MaxStarts
    /\ starts' = starts + 1
    /\ boot' = [boot EXCEPT ![b] = [Down EXCEPT !.at = "lock", !.release = r]]
    /\ UNCHANGED <<tables, drifted, records, lock, reconciles, cutShort, outgrown>>

\* Mutant of MayLock: pg_try_advisory_lock with its answer ignored.
NoLock(b) == TRUE
\* pg_advisory_lock waits until no other session holds it.
MayLock(b) == lock = NoBoot
Lock(b) ==
    /\ boot[b].at = "lock" /\ MayLock(b)
    /\ lock' = b
    /\ Go(b, "count")
    /\ UNCHANGED <<tables, drifted, records, starts, reconciles, cutShort, outgrown>>

\* A database with records was set up by migrations, one without tables is fresh.
CountRecorded(b) ==
    /\ boot[b].at = "count"
    /\ Go(b, IF records # <<>> \/ tables = {} THEN "migrate" ELSE "compare")
    /\ UNCHANGED <<tables, drifted, records, lock, starts, reconciles, cutShort, outgrown>>

\* Mutant of MatchesSnapshot: a baseline stamped wherever the sentinel table exists.
SentinelSuffices(b) == 1 \in tables
\* Every table, column and constraint the release's snapshot names is compared;
\* what the database has beyond them is not looked at.
MatchesSnapshot(b) == Migrations(b) \subseteq tables /\ ~drifted
Compare(b) ==
    /\ boot[b].at = "compare"
    /\ IF MatchesSnapshot(b)
       THEN /\ boot' = [boot EXCEPT ![b].at = "stamp", ![b].last = 0]
            /\ UNCHANGED lock
       ELSE /\ Refuse(b, "differs")
            /\ lock' = NoBoot
    /\ UNCHANGED <<tables, drifted, records, starts, reconciles, cutShort, outgrown>>

\* One INSERT per migration, each its own transaction.
Stamp(b) ==
    /\ boot[b].at = "stamp"
    /\ LET entry == boot[b].last + 1 IN
       /\ records' = Append(records, entry)
       /\ boot' = [boot EXCEPT ![b].last = entry,
                               ![b].at = IF entry = boot[b].release THEN "migrate" ELSE "stamp"]
       /\ outgrown' = (outgrown \/ (entry = boot[b].release /\ tables # Migrations(b)))
    /\ UNCHANGED <<tables, drifted, lock, starts, reconciles, cutShort>>

\* migrate() reads the last record, then applies what is later in one transaction.
ReadLast(b) ==
    /\ boot[b].at = "migrate"
    /\ boot' = [boot EXCEPT ![b].at = "apply", ![b].last = LastRecorded]
    /\ UNCHANGED <<tables, drifted, records, lock, starts, reconciles, cutShort, outgrown>>

\* The journal's entries after the last recorded one, in its order.
Later(b) == [i \in 1..(boot[b].release - boot[b].last) |-> boot[b].last + i]
Apply(b) ==
    /\ boot[b].at = "apply"
    /\ LET pending == {m \in Migrations(b) : m > boot[b].last} IN
       IF pending \cap tables = {}
       THEN /\ tables' = tables \cup pending
            /\ records' = records \o Later(b)
            /\ Go(b, "serving")
       ELSE /\ Refuse(b, "exists")        \* relation already exists: rolled back
            /\ UNCHANGED <<tables, records>>
    /\ lock' = NoBoot
    /\ UNCHANGED <<drifted, starts, reconciles, cutShort, outgrown>>

Die(b) ==
    /\ boot[b].at \notin {"down", "refused"}
    /\ boot' = [boot EXCEPT ![b] = Down]
    /\ lock' = IF lock = b THEN NoBoot ELSE lock
    /\ cutShort' = (cutShort \/ (boot[b].at = "stamp" /\ boot[b].last > 0))
    /\ UNCHANGED <<tables, drifted, records, starts, reconciles, outgrown>>

\* What the refusal asks for: push the refused release's schema, then restart.
Reconcile(b) ==
    /\ boot[b].at = "refused" /\ boot[b].why = "differs" /\ ~MatchesSnapshot(b)
    /\ \A c \in Boots : boot[c].at \in {"down", "refused"}
    /\ reconciles < MaxReconciles
    /\ reconciles' = reconciles + 1
    /\ tables' = Migrations(b) /\ drifted' = FALSE
    /\ outgrown' = (outgrown \/ records # <<>>)
    /\ UNCHANGED <<records, lock, boot, starts, cutShort>>

BootNext == \E b \in Boots :
    \/ Start(b) \/ Lock(b) \/ CountRecorded(b) \/ Compare(b) \/ Stamp(b)
    \/ ReadLast(b) \/ Apply(b) \/ Die(b) \/ Reconcile(b)

BootSpec == BootInit /\ [][BootNext]_bootVars

-----------------------------------------------------------------------------
(* Properties.                                                                  *)

\* A process that listens has every table its code was built for, undrifted, however
\* many of several releases boot, die and are restarted around it (index.ts aborts boot
\* on every failure "instead of serving against a schema the code does not match").
ServesItsSchema == \A b \in Boots :
    boot[b].at = "serving" => Migrations(b) \subseteq tables /\ ~drifted

\* No migration is recorded twice or without its tables: concurrent boots apply each
\* exactly once, and a baseline is stamped on what exists.
RecordsAreHonest == IsInjective(records) /\ ToSet(records) \subseteq tables

\* A boot refused because a table already exists goes back to a baseline that a dying
\* process left incomplete, or that a later release's push has outgrown: never to another
\* boot at the same time.
RefusalHasReason == \A b \in Boots :
    boot[b].why = "exists" => cutShort \/ outgrown

\* A process serves only the schema it was built for, and refuses only with reason.
BootIsSound == ServesItsSchema /\ RecordsAreHonest /\ RefusalHasReason
=============================================================================
