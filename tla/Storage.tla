------------------------------ MODULE Storage ------------------------------
(***************************************************************************)
(* core/storage: the SQLite file that the hub and its monitor share, and   *)
(* the migrations that Open runs on it.  A migration and the new value of  *)
(* user_version are one transaction, which a crash undoes; the version was *)
(* read before, on its own.                                                *)
(*                                                                         *)
(* The schema is the set of the parts that migrations add: base, pubkey    *)
(* (2), liveness (3), segments (4), hubpins and segpins (5), handles (6).  *)
(***************************************************************************)
EXTENDS Integers, FiniteSets

CONSTANTS
    Procs,      \* the processes that open the file
    Together,   \* whether they may do so at the same time
    First       \* the versions that the file may have to begin with

Latest == 6
Versions == 0 .. Latest

ASSUME StorageAssumption == Together \in BOOLEAN /\ First \subseteq Versions

\* What migration m adds to what is there...
Adds(m) ==
    CASE m = 4 -> {"segments"}
      [] m = 5 -> {"hubpins", "segpins"}
      [] m = 6 -> {"handles"}
      [] OTHER -> {}

\* ...and with the first one, all it creates and must not find: CREATE TABLE and ADD
\* COLUMN fail on it.
Creates(m) == Adds(m) \cup (IF m = 1 THEN {"base"} ELSE {})

\* What it adds by building a table anew, which finds no fault with what is there...
Rebuilds(m) ==
    CASE m = 2 -> {"pubkey"}
      [] m = 3 -> {"liveness"}
      [] OTHER -> {}

\* ...and drops the columns that later migrations have added to that table.
Drops(m) ==
    CASE m = 2 -> {"handles"}
      [] m = 3 -> {"hubpins"}
      [] OTHER -> {}

SchemaOf(v) == UNION {Creates(m) \cup Rebuilds(m) : m \in 1 .. v}

VARIABLES
    version,   \* PRAGMA user_version
    schema,    \* the parts that are there
    opening,   \* opening[p]: how far Open is in process p
    upTo       \* upTo[p]: the last migration it has seen or run

storageVars == <<version, schema, opening, upTo>>

StorageTypeOK ==
    /\ version \in Versions
    /\ schema \subseteq SchemaOf(Latest)
    /\ opening \in [Procs -> {"not", "started", "migrating", "open", "failed"}]
    /\ upTo \in [Procs -> Versions]

StorageInit ==
    /\ version \in First /\ schema = SchemaOf(version)
    /\ opening = [p \in Procs |-> "not"]
    /\ upTo = [p \in Procs |-> 0]

BeginOpen(p) ==
    /\ opening[p] = "not"
    /\ Together \/ \A q \in Procs : opening[q] \in {"not", "open"}
    /\ opening' = [opening EXCEPT ![p] = "started"]
    /\ UNCHANGED <<version, schema, upTo>>

\* SchemaVersion, at the beginning of migrate.
ReadVersion(p) ==
    /\ opening[p] = "started"
    /\ opening' = [opening EXCEPT ![p] = "migrating"]
    /\ upTo' = [upTo EXCEPT ![p] = version]
    /\ UNCHANGED <<version, schema>>

\* Fault: user_version is set before the statements have run, in a transaction of its
\* own.
ApplyMigrationVersionFirst(p) ==
    LET m == upTo[p] + 1 IN
    /\ opening[p] = "migrating" /\ upTo[p] < Latest
    /\ IF version < m
       THEN version' = m /\ UNCHANGED <<schema, upTo>>
       ELSE /\ schema' = (schema \ Drops(m)) \cup Creates(m) \cup Rebuilds(m)
            /\ upTo' = [upTo EXCEPT ![p] = m]
            /\ UNCHANGED version
    /\ UNCHANGED opening

\* Fault: one migration too many.
ApplyMigrationPast(p) ==
    LET m == upTo[p] + 1 IN
    /\ opening[p] = "migrating" /\ upTo[p] <= Latest
    /\ schema' = (schema \ Drops(m)) \cup Creates(m) \cup Rebuilds(m)
    /\ version' = m
    /\ upTo' = [upTo EXCEPT ![p] = m]
    /\ UNCHANGED opening

\* applyMigration, or the rollback and the end of Open if a part is there already.
ApplyMigration(p) ==
    LET m == upTo[p] + 1 IN
    /\ opening[p] = "migrating" /\ upTo[p] < Latest
    /\ IF Creates(m) \cap schema = {}
       THEN /\ schema' = (schema \ Drops(m)) \cup Creates(m) \cup Rebuilds(m)
            /\ version' = m
            /\ upTo' = [upTo EXCEPT ![p] = m]
            /\ UNCHANGED opening
       ELSE /\ opening' = [opening EXCEPT ![p] = "failed"]
            /\ UNCHANGED <<version, schema, upTo>>

\* Fault: Open returns after one migration.
EndOpenEarly(p) ==
    /\ opening[p] = "migrating" /\ upTo[p] > 0
    /\ opening' = [opening EXCEPT ![p] = "open"]
    /\ UNCHANGED <<version, schema, upTo>>

EndOpen(p) ==
    /\ opening[p] = "migrating" /\ upTo[p] = Latest
    /\ opening' = [opening EXCEPT ![p] = "open"]
    /\ UNCHANGED <<version, schema, upTo>>

OpenStep(p) == ReadVersion(p) \/ ApplyMigration(p) \/ EndOpen(p)

\* DB.Close, or the end of the process, whatever it was doing.
LetGo(p) ==
    /\ opening' = [opening EXCEPT ![p] = "not"]
    /\ upTo' = [upTo EXCEPT ![p] = 0]

\* The file can be opened, now and later: the parts that are there are those of its
\* version, so that the migrations still to come find what they expect.  This holds
\* at every moment, also if a process dies in the middle of Open.
Openable == schema = SchemaOf(version)

\* A process that has opened the file finds the latest schema in it, and goes on
\* doing so while others open it.
LatestWhileOpen ==
    (\E p \in Procs : opening[p] = "open") => version = Latest /\ schema = SchemaOf(Latest)
=============================================================================
