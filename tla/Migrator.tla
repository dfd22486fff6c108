------------------------------ MODULE Migrator ------------------------------
(***************************************************************************)
(* Infrastructure/Database/DatabaseMigrator.cs and DatabaseState.cs: what  *)
(* every instance of the API does with the database before it serves.      *)
(* Instances of several builds (a deploy, a rollback, a checkout with an   *)
(* edited file) start, fail, crash and start again against one database.   *)
(*                                                                         *)
(* The files are numbered by the ordinal order of their names.  A step is  *)
(* one command or one transaction boundary; what a transaction has done    *)
(* before its commit is nowhere but in the instance's pc.                  *)
(***************************************************************************)
EXTENDS Integers, Sequences

CONSTANTS
    Instance,   \* Lambda environments, containers, developers' machines
    Build,
    FileCount,
    Checksum,
    NoSum,      \* no such file in the build, no such row in the journal
    File,       \* Build -> file -> its checksum or NoSum
    MaxBoots,   \* bound: how many starts there are in all
    Outages     \* whether commands fail for reasons outside this system

Id == 1..FileCount

\* Files are append-only: a build lacks the newest ones or none (Migrations
\* README, rule 1).  It may well hold an edited text of one.
AppendOnly == \A b \in Build, m, n \in Id : m <= n /\ File[b][n] # NoSum => File[b][m] # NoSum

ASSUME MigratorAssumption ==
    /\ FileCount \in Nat
    /\ NoSum \notin Checksum
    /\ File \in [Build -> [Id -> Checksum \cup {NoSum}]]
    /\ AppendOnly
    /\ MaxBoots \in Nat
    /\ Outages \in BOOLEAN
    /\ Instance \cap {"free", "abandoned"} = {}

VARIABLES
    tableExists,    \* table schema_migrations is there
    journal,        \* its rows: file -> recorded checksum
    schema,         \* the files whose statements took effect, in that order
    lock,           \* who holds the advisory lock
    inDoubt,        \* the file of an abandoned transaction whose COMMIT was sent
    pc,             \* where each instance's start-up stands, or its DatabaseState
    build,          \* the build each instance runs
    todo,           \* plan.Pending, the files each instance has still to apply
    boots

database == <<tableExists, journal, schema, inDoubt>>
vars == <<tableExists, journal, schema, lock, inDoubt, pc, build, todo, boots>>

Waiting == {"awaitTable", "awaitFile"}
Holding == {"creating", "checking", "executed"}
Booting == {"reading"} \cup Waiting \cup Holding
Applied == [id: Id, sum: Checksum]
NoFile == [id |-> 0]

TypeOK ==
    /\ tableExists \in BOOLEAN
    /\ journal \in [Id -> Checksum \cup {NoSum}]
    /\ schema \in Seq(Applied)
    /\ lock \in Instance \cup {"free", "abandoned"}
    /\ inDoubt \in Applied \cup {NoFile}
    /\ pc \in [Instance -> Booting \cup {"down", "available", "unavailable"}]
    /\ build \in [Instance -> Build]
    /\ todo \in [Instance -> SUBSET Id]
    /\ boots \in Nat

Init ==
    /\ tableExists = FALSE
    /\ journal = [m \in Id |-> NoSum]
    /\ schema = <<>>
    /\ lock = "free"
    /\ inDoubt = NoFile
    /\ pc = [i \in Instance |-> "down"]
    /\ build \in [Instance -> Build]
    /\ todo = [i \in Instance |-> {}]
    /\ boots = 0

(***************************************************************************)
(* MigrationPlan.Create                                                    *)
(***************************************************************************)
Sum(i, m) == File[build[i]][m]

Shipped(i) == {m \in Id : Sum(i, m) # NoSum}

Pending(i) == {m \in Shipped(i) : journal[m] = NoSum}

ChecksumError(i) == \E m \in Shipped(i) : journal[m] \notin {NoSum, Sum(i, m)}

(***************************************************************************)
(* Start-up, one step per command.                                         *)
(***************************************************************************)
Goto(i, label) == pc' = [pc EXCEPT ![i] = label]

Boot(i) ==
    /\ pc[i] = "down"
    /\ boots < MaxBoots
    /\ boots' = boots + 1
    /\ \E b \in Build : build' = [build EXCEPT ![i] = b]
    /\ Goto(i, "reading")
    /\ UNCHANGED <<database, lock, todo>>

\* The warm path ends here, without a lock.
ReadJournal(i) ==
    /\ pc[i] = "reading"
    /\ \/ ChecksumError(i) /\ Goto(i, "unavailable") /\ UNCHANGED todo
       \/ ~ChecksumError(i) /\ Pending(i) = {} /\ Goto(i, "available") /\ UNCHANGED todo
       \/ /\ ~ChecksumError(i) /\ Pending(i) # {}
          /\ todo' = [todo EXCEPT ![i] = Pending(i)]
          /\ Goto(i, "awaitTable")
    /\ UNCHANGED <<database, lock, build, boots>>

\* begin; select pg_advisory_xact_lock(...)
AcquireLock(i) ==
    /\ pc[i] \in Waiting
    /\ lock = "free"
    /\ lock' = i
    /\ Goto(i, IF pc[i] = "awaitTable" THEN "creating" ELSE "checking")
    /\ UNCHANGED <<database, build, todo, boots>>

\* Slip: the lock is awaited for as long as it takes.
LockTimeoutNever(i) == FALSE /\ UNCHANGED vars

\* The lock command has a CommandTimeout like every other.
LockTimeout(i) ==
    /\ pc[i] \in Waiting
    /\ lock # "free"
    /\ Goto(i, "unavailable")
    /\ UNCHANGED <<database, lock, build, todo, boots>>

\* create table if not exists schema_migrations; commit
EnsureJournal(i) ==
    /\ pc[i] = "creating"
    /\ tableExists' = TRUE
    /\ lock' = "free"
    /\ Goto(i, "awaitFile")
    /\ UNCHANGED <<journal, schema, inDoubt, build, todo, boots>>

\* Slip: LoadEmbedded without the ordinal sort.
IsNextUnsorted(i, m) == m \in todo[i]

\* plan.Pending is applied in order.
IsNext(i, m) == m \in todo[i] /\ \A n \in todo[i] : m <= n

\* The transaction that dealt with file m is over.
Done(i, m) ==
    /\ lock' = "free"
    /\ todo' = [todo EXCEPT ![i] = @ \ {m}]
    /\ Goto(i, IF todo[i] = {m} THEN "available" ELSE "awaitFile")

\* Slip: no second look at the journal.
RecheckSkipped(i) ==
    /\ pc[i] = "checking"
    /\ tableExists
    /\ Goto(i, "executed")
    /\ UNCHANGED <<database, lock, build, todo, boots>>

\* Slip: recorded by another instance, whatever the checksum it recorded.
RecheckIdOnly(i) ==
    /\ pc[i] = "checking"
    /\ tableExists
    /\ \E m \in Id :
          /\ IsNext(i, m)
          /\ \/ journal[m] = NoSum /\ Goto(i, "executed") /\ UNCHANGED <<lock, todo>>
             \/ journal[m] # NoSum /\ Done(i, m)
    /\ UNCHANGED <<database, build, boots>>

\* The journal read again under the lock: another instance may have been first.
Recheck(i) ==
    /\ pc[i] = "checking"
    /\ tableExists
    /\ \E m \in Id :
          /\ IsNext(i, m)
          /\ \/ journal[m] = NoSum /\ Goto(i, "executed") /\ UNCHANGED <<lock, todo>>
             \/ journal[m] = Sum(i, m) /\ Done(i, m)
             \/ /\ journal[m] \notin {NoSum, Sum(i, m)}
                /\ lock' = "free" /\ Goto(i, "unavailable") /\ UNCHANGED todo
    /\ UNCHANGED <<database, build, boots>>

Commit(m, sum) ==
    /\ schema' = Append(schema, [id |-> m, sum |-> sum])
    /\ journal' = [journal EXCEPT ![m] = sum]

\* Slip: the row is inserted without its checksum.
RecordIdOnly(i) ==
    /\ pc[i] = "executed"
    /\ \E m \in Id : IsNext(i, m) /\ Commit(m, NoSum) /\ Done(i, m)
    /\ UNCHANGED <<tableExists, inDoubt, build, boots>>

\* The file's statements have run; insert its row and commit both.
Record(i) ==
    /\ pc[i] = "executed"
    /\ \E m \in Id :
          /\ IsNext(i, m)
          /\ Commit(m, Sum(i, m))
          /\ Done(i, m)
    /\ UNCHANGED <<tableExists, inDoubt, build, boots>>

(***************************************************************************)
(* What goes wrong.                                                        *)
(***************************************************************************)

\* An instance leaves whatever it was in.  The server rolls its transaction
\* back at once, or holds on to it (and to the lock) until it finds the
\* connection dead; a COMMIT on its way may then still be carried out.
Abandon(i) ==
    IF lock # i THEN UNCHANGED <<lock, inDoubt>>
    ELSE \/ lock' = "free" /\ UNCHANGED inDoubt
         \/ /\ lock' = "abandoned"
            /\ \/ UNCHANGED inDoubt
               \/ /\ pc[i] = "executed"
                  /\ \E m \in Id :
                        IsNext(i, m) /\ inDoubt' = [id |-> m, sum |-> Sum(i, m)]

\* MigrateDatabaseAsync catches every exception: a statement that fails, a
\* command timeout, a lost connection.
Fail(i) ==
    /\ Outages
    /\ pc[i] \in Booting
    /\ Abandon(i)
    /\ Goto(i, "unavailable")
    /\ UNCHANGED <<tableExists, journal, schema, build, todo, boots>>

\* The process ends: a crash, a deploy, a recycled Lambda environment.
Crash(i) ==
    /\ pc[i] # "down"
    /\ Abandon(i)
    /\ Goto(i, "down")
    /\ UNCHANGED <<tableExists, journal, schema, build, todo, boots>>

Reap ==
    /\ lock = "abandoned"
    /\ lock' = "free"
    /\ inDoubt' = NoFile
    /\ \/ UNCHANGED <<journal, schema>>
       \/ inDoubt # NoFile /\ Commit(inDoubt.id, inDoubt.sum)
    /\ UNCHANGED <<tableExists, pc, build, todo, boots>>

(***************************************************************************)
(* Specification.                                                          *)
(***************************************************************************)
Step(i) ==
    \/ ReadJournal(i) \/ AcquireLock(i) \/ LockTimeout(i)
    \/ EnsureJournal(i) \/ Recheck(i) \/ Record(i)

Next ==
    \/ \E i \in Instance : Boot(i) \/ Step(i) \/ Fail(i) \/ Crash(i)
    \/ Reap

\* A started instance goes on; nobody promises a restart or a tidy server.
Fairness == \A i \in Instance : WF_vars(Step(i))

Spec == Init /\ [][Next]_vars /\ Fairness

(***************************************************************************)
(* Safety.                                                                 *)
(***************************************************************************)

\* The journal and the schema agree: every file took effect at most once, the
\* ones that did are exactly the ones recorded, under the checksum of the text
\* that ran.  Concurrent cold starts, crashes between the statements and the
\* insert, and commits in doubt included.
JournalTellsSchema ==
    /\ \A j, k \in 1..Len(schema) : schema[j].id = schema[k].id => j = k
    /\ \A m \in Id :
          journal[m] # NoSum <=>
             \E j \in 1..Len(schema) : schema[j] = [id |-> m, sum |-> journal[m]]

\* Files take effect in ordinal name order without a gap, also when instances
\* of different builds apply them in turns.
OrdinalOrder == \A j \in 1..Len(schema) : schema[j].id = j

\* An instance serves database routes only on a schema that holds every file of
\* its build, each with the text its build has: never half-migrated, never
\* edited.  A newer schema is fine (a rollback).
ServingMeansMigrated ==
    \A i \in Instance : pc[i] = "available" =>
        \A m \in Shipped(i) : journal[m] = Sum(i, m)

(***************************************************************************)
(* Liveness.                                                               *)
(***************************************************************************)

\* A start-up always ends, in service or degraded, also while a dead instance's
\* transaction holds the lock for good: the command timeout bounds the wait.
BootEnds == \A i \in Instance : pc[i] \in Booting ~> pc[i] \notin Booting
=============================================================================
