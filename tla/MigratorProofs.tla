--------------------------- MODULE MigratorProofs ---------------------------
(***************************************************************************)
(* Proofs about Migrator: whatever the number of instances, builds and     *)
(* files, the journal tells what the schema is, files take effect in order *)
(* and no instance serves on a schema that is not its build's.             *)
(*                                                                         *)
(* The three rest on one inductive invariant.  A transaction knows what it *)
(* is about to do to the journal from what it read under the lock, so the  *)
(* invariant says who holds the lock (LockHeld), what the holder knows     *)
(* (Knows, Doubt) and what an instance on its way has behind it (Progress).*)
(***************************************************************************)
EXTENDS Migrator, TLAPS

(***************************************************************************)
(* The invariant.                                                          *)
(***************************************************************************)

\* Recorded files are the first Len(schema) ones, each with the text that ran.
Recorded(m) == m <= Len(schema)

Agree ==
    /\ Len(schema) <= FileCount
    /\ \A j \in 1..Len(schema) : schema[j].id = j
    /\ \A m \in Id : journal[m] # NoSum <=> Recorded(m)
    /\ \A m \in Id : Recorded(m) => schema[m].sum = journal[m]

\* A commit in doubt is the lock's, and would record the file that is due.
Doubt ==
    inDoubt # NoFile => lock = "abandoned" /\ inDoubt.id = Len(schema) + 1

\* The lock is an instance's exactly while its transaction is open.
LockHeld(i) == pc[i] \in Holding <=> lock = i

\* On the way: the files still to do are the build's, all others are in place.
Progress(i) ==
    pc[i] \in Waiting \cup Holding =>
        /\ todo[i] # {}
        /\ todo[i] \subseteq Shipped(i)
        /\ \A m \in Shipped(i) \ todo[i] : journal[m] = Sum(i, m)

\* Under the lock after the second look: the next file is not recorded.
Knows(i) ==
    pc[i] = "executed" => \A m \in Id : IsNext(i, m) => journal[m] = NoSum

Serves(i) ==
    pc[i] = "available" => \A m \in Shipped(i) : journal[m] = Sum(i, m)

InstanceInv(i) == LockHeld(i) /\ Progress(i) /\ Knows(i) /\ Serves(i)

MigratorInv ==
    TypeOK /\ Agree /\ Doubt /\ \A i \in Instance : InstanceInv(i)

(***************************************************************************)
(* What the operators and the transactions do.                             *)
(***************************************************************************)

\* A file's checksum is a checksum, and a build that has it has all before it.
LEMMA BuildFiles ==
    ASSUME TypeOK, NEW i \in Instance, NEW m \in Shipped(i)
    PROVE  /\ m \in Id /\ Sum(i, m) \in Checksum /\ Sum(i, m) # NoSum
           /\ \A n \in Id : n <= m => n \in Shipped(i)
<1>1. build[i] \in Build /\ m \in Id
    BY DEF TypeOK, Shipped
<1>2. File[build[i]] \in [Id -> Checksum \cup {NoSum}]
    BY <1>1, MigratorAssumption
<1>3. \A n \in Id : n <= m => File[build[i]][n] # NoSum
    BY <1>1, MigratorAssumption DEF AppendOnly, Shipped, Sum
<1> QED
    BY <1>1, <1>2, <1>3, MigratorAssumption DEF Shipped, Sum

\* The file an instance is about to record is the first one not recorded.
LEMMA DueFile ==
    ASSUME MigratorInv, NEW i \in Instance, pc[i] = "executed",
           NEW m \in Id, IsNext(i, m)
    PROVE  m = Len(schema) + 1 /\ Sum(i, m) \in Checksum /\ m \in Shipped(i)
<1>1. m \in Shipped(i) /\ m \in todo[i] /\ journal[m] = NoSum
    BY DEF MigratorInv, InstanceInv, Progress, Knows, IsNext, Holding
<1>2. Len(schema) \in Nat
    BY DEF MigratorInv, TypeOK
<1>3. ~Recorded(m)
    BY <1>1 DEF MigratorInv, Agree
<1>4. ASSUME NEW n \in Id, n < m PROVE Recorded(n)
    <2>1. n \in Shipped(i) \ todo[i]
        BY <1>1, <1>4, BuildFiles DEF MigratorInv, IsNext, Id
    <2>2. journal[n] = Sum(i, n) /\ Sum(i, n) # NoSum
        BY <2>1, BuildFiles DEF MigratorInv, InstanceInv, Progress, Holding
    <2> QED
        BY <2>2 DEF MigratorInv, Agree
<1>5. m \in Nat /\ m >= 1 /\ (m > 1 => m - 1 \in Id)
    BY MigratorAssumption DEF Id
<1>6. m > 1 => Recorded(m - 1)
    BY <1>4, <1>5
<1>7. m = Len(schema) + 1
    BY <1>2, <1>3, <1>5, <1>6 DEF Recorded
<1> QED
    BY <1>1, <1>7, BuildFiles DEF MigratorInv

\* A commit of the first file not recorded.
LEMMA CommitAgrees ==
    ASSUME TypeOK, Agree, NEW m \in Id, NEW sum \in Checksum,
           m = Len(schema) + 1, Commit(m, sum)
    PROVE  /\ schema' \in Seq(Applied)
           /\ journal' \in [Id -> Checksum \cup {NoSum}]
           /\ Agree'
           /\ journal[m] = NoSum /\ journal'[m] = sum
           /\ \A n \in Id : n # m => journal'[n] = journal[n]
           /\ Len(schema') = Len(schema) + 1
<1>1. schema \in Seq(Applied) /\ [id |-> m, sum |-> sum] \in Applied
    BY DEF TypeOK, Applied
<1>2. /\ schema' \in Seq(Applied)
      /\ Len(schema') = m
      /\ schema'[m] = [id |-> m, sum |-> sum]
      /\ \A j \in 1..Len(schema) : schema'[j] = schema[j]
    BY <1>1 DEF Commit
<1>3. /\ journal' \in [Id -> Checksum \cup {NoSum}]
      /\ journal'[m] = sum
      /\ \A n \in Id : n # m => journal'[n] = journal[n]
    BY DEF Commit, TypeOK
<1>4. journal[m] = NoSum
    BY DEF Agree, Recorded, Id
<1>5. Len(schema') <= FileCount
    BY <1>2 DEF Id
<1>6. \A j \in 1..Len(schema') : schema'[j].id = j
    BY <1>2 DEF Agree, Id
<1>7. \A n \in Id : journal'[n] # NoSum <=> n <= Len(schema')
    BY <1>2, <1>3, MigratorAssumption DEF Agree, Recorded, Id
<1>8. \A n \in Id : n <= Len(schema') => schema'[n].sum = journal'[n]
    BY <1>2, <1>3 DEF Agree, Recorded, Id
<1>9. Agree'
    BY <1>5, <1>6, <1>7, <1>8 DEF Agree, Recorded
<1> QED
    BY <1>2, <1>3, <1>4, <1>9

\* What an instance leaves behind keeps the types, and is in doubt only about
\* the file that is due.
LEMMA AbandonTypes ==
    ASSUME MigratorInv, NEW i \in Instance, Abandon(i)
    PROVE  /\ lock' \in Instance \cup {"free", "abandoned"}
           /\ inDoubt' \in Applied \cup {NoFile}
           /\ lock' # i
           /\ lock # i => lock' = lock
           /\ lock = i => lock' \notin Instance
           /\ inDoubt' # NoFile => lock' = "abandoned" /\ inDoubt'.id = Len(schema) + 1
<1>1. lock # i => UNCHANGED <<lock, inDoubt>>
    BY DEF Abandon
<1>2. lock = i => inDoubt = NoFile
    BY MigratorAssumption DEF MigratorInv, Doubt
<1>3. ASSUME lock = i, lock' = "abandoned", inDoubt' # inDoubt
      PROVE  inDoubt' \in Applied /\ inDoubt'.id = Len(schema) + 1
    <2>1. PICK m \in Id : /\ IsNext(i, m) /\ pc[i] = "executed"
                          /\ inDoubt' = [id |-> m, sum |-> Sum(i, m)]
        BY <1>3 DEF Abandon
    <2> QED
        BY <2>1, DueFile DEF Applied
<1>4. lock = i => \/ lock' = "free" /\ UNCHANGED inDoubt
                  \/ lock' = "abandoned"
    BY DEF Abandon
<1> QED
    BY <1>1, <1>2, <1>3, <1>4, MigratorAssumption DEF MigratorInv, TypeOK, Doubt

(***************************************************************************)
(* What a step leaves alone.                                               *)
(***************************************************************************)

\* Instance k has nothing to do with a step that commits no file.
Untouched(k) ==
    /\ pc'[k] = pc[k] /\ todo'[k] = todo[k] /\ build'[k] = build[k]
    /\ lock' = k <=> lock = k

LEMMA Bystander ==
    ASSUME NEW k \in Instance, InstanceInv(k), Untouched(k), UNCHANGED journal
    PROVE  InstanceInv(k)'
<1>1. Shipped(k)' = Shipped(k) /\ (\A m \in Id : Sum(k, m)' = Sum(k, m))
    BY DEF Untouched, Shipped, Sum
<1>2. \A m \in Id : IsNext(k, m)' <=> IsNext(k, m)
    BY DEF Untouched, IsNext
<1>3. LockHeld(k)'
    BY DEF InstanceInv, LockHeld, Untouched
<1>4. Progress(k)'
    BY <1>1 DEF InstanceInv, Progress, Untouched, Shipped
<1>5. Knows(k)'
    BY <1>2 DEF InstanceInv, Knows, Untouched
<1>6. Serves(k)'
    BY <1>1 DEF InstanceInv, Serves, Untouched, Shipped
<1> QED
    BY <1>3, <1>4, <1>5, <1>6 DEF InstanceInv

\* Nor with one that commits file m, unless it is about to commit one itself.
LEMMA CommitBystander ==
    ASSUME TypeOK, NEW k \in Instance, InstanceInv(k), Untouched(k),
           NEW m \in Id, journal[m] = NoSum, pc[k] # "executed",
           \A n \in Id : n # m => journal'[n] = journal[n]
    PROVE  InstanceInv(k)'
<1>1. Shipped(k)' = Shipped(k) /\ (\A n \in Id : Sum(k, n)' = Sum(k, n))
    BY DEF Untouched, Shipped, Sum
<1>2. \A n \in Shipped(k) : journal[n] = Sum(k, n) => journal'[n] = Sum(k, n)
    BY BuildFiles
<1>3. LockHeld(k)'
    BY DEF InstanceInv, LockHeld, Untouched
<1>4. Progress(k)'
    BY <1>1, <1>2 DEF InstanceInv, Progress, Untouched, Shipped
<1>5. Knows(k)'
    BY DEF Knows, Untouched
<1>6. Serves(k)'
    BY <1>1, <1>2 DEF InstanceInv, Serves, Untouched, Shipped
<1> QED
    BY <1>3, <1>4, <1>5, <1>6 DEF InstanceInv

\* A step of instance i that commits nothing keeps the invariant if it keeps
\* the types and i's own part of it.
LEMMA OwnStep ==
    ASSUME MigratorInv, TypeOK', NEW i \in Instance,
           UNCHANGED <<journal, schema>>, Doubt', InstanceInv(i)',
           \A k \in Instance \ {i} : Untouched(k)
    PROVE  MigratorInv'
<1>1. Agree'
    BY DEF MigratorInv, Agree, Recorded
<1>2. \A k \in Instance \ {i} : InstanceInv(k)'
    BY Bystander DEF MigratorInv
<1> QED
    BY <1>1, <1>2 DEF MigratorInv

(***************************************************************************)
(* The steps.                                                              *)
(***************************************************************************)
LEMMA BootKeeps ==
    ASSUME MigratorInv, NEW i \in Instance, Boot(i)
    PROVE  MigratorInv'
<1>1. TypeOK'
    BY DEF MigratorInv, TypeOK, Boot, Goto, database, Booting
<1>2. Doubt'
    BY DEF MigratorInv, Doubt, Boot, database
<1>3. \A k \in Instance \ {i} : Untouched(k)
    BY DEF MigratorInv, TypeOK, Boot, Goto, Untouched
<1>4. pc'[i] = "reading" /\ lock # i /\ lock' = lock
    BY DEF MigratorInv, InstanceInv, LockHeld, TypeOK, Boot, Goto, Holding
<1>5. InstanceInv(i)'
    BY <1>4 DEF InstanceInv, LockHeld, Progress, Knows, Serves, Waiting, Holding
<1> QED
    BY <1>1, <1>2, <1>3, <1>5, OwnStep DEF Boot, database

LEMMA ReadJournalKeeps ==
    ASSUME MigratorInv, NEW i \in Instance, ReadJournal(i)
    PROVE  MigratorInv'
<1>1. TypeOK'
    BY DEF MigratorInv, TypeOK, ReadJournal, Goto, database, Booting, Waiting, Pending, Shipped
<1>2. Doubt'
    BY DEF MigratorInv, Doubt, ReadJournal, database
<1>3. \A k \in Instance \ {i} : Untouched(k)
    BY DEF MigratorInv, TypeOK, ReadJournal, Goto, Untouched
<1>4. lock # i /\ lock' = lock /\ pc'[i] \in {"unavailable", "available", "awaitTable"}
    BY DEF MigratorInv, InstanceInv, LockHeld, TypeOK, ReadJournal, Goto, Holding
<1>5. Shipped(i)' = Shipped(i) /\ (\A m \in Id : Sum(i, m)' = Sum(i, m)) /\ UNCHANGED journal
    BY DEF ReadJournal, Shipped, Sum, database
<1>6. pc'[i] # "unavailable" => \A m \in Shipped(i) \ Pending(i) : journal[m] = Sum(i, m)
    BY DEF MigratorInv, TypeOK, ReadJournal, Goto, ChecksumError, Pending, Shipped
<1>7. Serves(i)'
    <2>1. pc'[i] = "available" => Pending(i) = {}
        BY DEF MigratorInv, TypeOK, ReadJournal, Goto
    <2> QED
        BY <1>5, <1>6, <2>1 DEF Serves, Shipped
<1>8. Progress(i)'
    <2>1. pc'[i] = "awaitTable" => todo'[i] = Pending(i) /\ Pending(i) # {}
        BY DEF MigratorInv, TypeOK, ReadJournal, Goto
    <2>2. Pending(i) \subseteq Shipped(i)
        BY DEF Pending
    <2> QED
        BY <1>4, <1>5, <1>6, <2>1, <2>2 DEF Progress, Waiting, Holding, Shipped
<1>9. InstanceInv(i)'
    BY <1>4, <1>7, <1>8 DEF InstanceInv, LockHeld, Knows, Holding
<1> QED
    BY <1>1, <1>2, <1>3, <1>9, OwnStep DEF ReadJournal, database

\* i's own part when it moves on, with its build, its work and the journal as
\* they were, to a state in which it neither has committed nor serves.
LEMMA MovesOn ==
    ASSUME MigratorInv, NEW i \in Instance, UNCHANGED <<journal, build, todo>>,
           pc[i] \in Waiting \cup Holding, LockHeld(i)',
           pc'[i] \notin {"executed", "available"}
    PROVE  InstanceInv(i)'
<1>1. Shipped(i)' = Shipped(i) /\ (\A m \in Id : Sum(i, m)' = Sum(i, m))
    BY DEF Shipped, Sum
<1>2. Progress(i)'
    BY <1>1 DEF MigratorInv, InstanceInv, Progress, Shipped
<1> QED
    BY <1>2 DEF InstanceInv, Knows, Serves

LEMMA AcquireLockKeeps ==
    ASSUME MigratorInv, NEW i \in Instance, AcquireLock(i)
    PROVE  MigratorInv'
<1>1. TypeOK'
    BY DEF MigratorInv, TypeOK, AcquireLock, Goto, database, Booting, Holding
<1>2. Doubt'
    BY DEF MigratorInv, Doubt, AcquireLock, database
<1>3. \A k \in Instance \ {i} : Untouched(k)
    BY MigratorAssumption DEF MigratorInv, TypeOK, AcquireLock, Goto, Untouched
<1>4. pc'[i] \in {"creating", "checking"} /\ lock' = i
    BY DEF MigratorInv, TypeOK, AcquireLock, Goto
<1>5. InstanceInv(i)'
    BY <1>4, MovesOn DEF AcquireLock, LockHeld, Holding, database
<1> QED
    BY <1>1, <1>2, <1>3, <1>5, OwnStep DEF AcquireLock, database

LEMMA LockTimeoutKeeps ==
    ASSUME MigratorInv, NEW i \in Instance, LockTimeout(i)
    PROVE  MigratorInv'
<1>1. TypeOK'
    BY DEF MigratorInv, TypeOK, LockTimeout, Goto, database
<1>2. Doubt'
    BY DEF MigratorInv, Doubt, LockTimeout, database
<1>3. \A k \in Instance \ {i} : Untouched(k)
    BY DEF MigratorInv, TypeOK, LockTimeout, Goto, Untouched
<1>4. pc'[i] = "unavailable" /\ lock' = lock /\ lock # i
    BY DEF MigratorInv, InstanceInv, LockHeld, TypeOK, LockTimeout, Goto, Waiting, Holding
<1>5. InstanceInv(i)'
    BY <1>4, MovesOn DEF LockTimeout, LockHeld, Holding, database
<1> QED
    BY <1>1, <1>2, <1>3, <1>5, OwnStep DEF LockTimeout, database

LEMMA EnsureJournalKeeps ==
    ASSUME MigratorInv, NEW i \in Instance, EnsureJournal(i)
    PROVE  MigratorInv'
<1>1. lock = i
    BY DEF MigratorInv, InstanceInv, LockHeld, EnsureJournal, Holding
<1>2. TypeOK'
    BY DEF MigratorInv, TypeOK, EnsureJournal, Goto, Booting, Waiting
<1>3. Doubt'
    BY <1>1, MigratorAssumption DEF MigratorInv, Doubt, EnsureJournal
<1>4. \A k \in Instance \ {i} : Untouched(k)
    BY <1>1, MigratorAssumption DEF MigratorInv, TypeOK, EnsureJournal, Goto, Untouched
<1>5. pc'[i] = "awaitFile" /\ lock' # i
    BY MigratorAssumption DEF MigratorInv, TypeOK, EnsureJournal, Goto
<1>6. InstanceInv(i)'
    BY <1>5, MovesOn DEF EnsureJournal, LockHeld, Holding
<1> QED
    BY <1>2, <1>3, <1>4, <1>6, OwnStep DEF EnsureJournal

\* The transaction that dealt with file m ends with m in place.
LEMMA DoneKeepsOwn ==
    ASSUME TypeOK, TypeOK', NEW i \in Instance, NEW m \in Id, Done(i, m),
           UNCHANGED build, m \in todo[i], todo[i] \subseteq Shipped(i),
           \A n \in (Shipped(i) \ todo[i]) \cup {m} : journal'[n] = Sum(i, n)
    PROVE  InstanceInv(i)'
<1>1. Shipped(i)' = Shipped(i) /\ (\A n \in Id : Sum(i, n)' = Sum(i, n))
    BY DEF Shipped, Sum
<1>2. lock' = "free" /\ todo'[i] = todo[i] \ {m}
      /\ pc'[i] = IF todo[i] = {m} THEN "available" ELSE "awaitFile"
    BY DEF Done, Goto, TypeOK
<1>3. LockHeld(i)'
    BY <1>2, MigratorAssumption DEF LockHeld, Holding
<1>4. Progress(i)'
    BY <1>1, <1>2 DEF Progress, Shipped, Waiting, Holding
<1>5. Knows(i)'
    BY <1>2 DEF Knows
<1>6. Serves(i)'
    BY <1>1, <1>2 DEF Serves, Shipped
<1> QED
    BY <1>3, <1>4, <1>5, <1>6 DEF InstanceInv

LEMMA RecheckKeeps ==
    ASSUME MigratorInv, NEW i \in Instance, Recheck(i)
    PROVE  MigratorInv'
<1>1. lock = i /\ pc[i] = "checking"
    BY DEF MigratorInv, InstanceInv, LockHeld, Recheck, Holding
<1>2. PICK m \in Id :
          /\ IsNext(i, m)
          /\ \/ journal[m] = NoSum /\ Goto(i, "executed") /\ UNCHANGED <<lock, todo>>
             \/ journal[m] = Sum(i, m) /\ Done(i, m)
             \/ /\ journal[m] \notin {NoSum, Sum(i, m)}
                /\ lock' = "free" /\ Goto(i, "unavailable") /\ UNCHANGED todo
    BY DEF Recheck
<1>3. /\ UNCHANGED <<tableExists, journal, schema, inDoubt, build, boots>>
      /\ UNCHANGED lock \/ lock' = "free"
    BY <1>2 DEF Recheck, database, Done
<1>4. TypeOK'
    <2>1. pc' \in [Instance -> Booting \cup {"down", "available", "unavailable"}]
        BY <1>2 DEF MigratorInv, TypeOK, Goto, Done, Booting, Waiting, Holding
    <2>2. todo' \in [Instance -> SUBSET Id]
        BY <1>2 DEF MigratorInv, TypeOK, Done
    <2> QED
        BY <1>3, <2>1, <2>2 DEF MigratorInv, TypeOK
<1>5. Doubt'
    BY <1>1, <1>3, MigratorAssumption DEF MigratorInv, Doubt
<1>6. \A k \in Instance \ {i} : Untouched(k)
    BY <1>1, <1>2, <1>3, MigratorAssumption DEF MigratorInv, TypeOK, Goto, Done, Untouched
<1>7. InstanceInv(i)'
    <2>1. CASE journal[m] = NoSum /\ Goto(i, "executed") /\ UNCHANGED <<lock, todo>>
        <3>1. pc'[i] = "executed" /\ lock' = i
            BY <1>1, <2>1 DEF MigratorInv, TypeOK, Goto
        <3>2. Shipped(i)' = Shipped(i) /\ (\A n \in Id : Sum(i, n)' = Sum(i, n))
            BY <1>3 DEF Shipped, Sum
        <3>3. Progress(i)'
            BY <1>1, <1>3, <2>1, <3>2 DEF MigratorInv, InstanceInv, Progress, Shipped, Holding
        <3>4. \A n \in Id : IsNext(i, n)' => n = m
            BY <1>2, <2>1 DEF IsNext, Id
        <3>5. Knows(i)'
            BY <1>3, <2>1, <3>4 DEF Knows
        <3> QED
            BY <3>1, <3>3, <3>5 DEF InstanceInv, LockHeld, Serves, Holding
    <2>2. CASE journal[m] = Sum(i, m) /\ Done(i, m)
        <3>1. m \in todo[i] /\ todo[i] \subseteq Shipped(i)
            BY <1>1, <1>2 DEF MigratorInv, InstanceInv, Progress, IsNext, Holding
        <3>2. \A n \in (Shipped(i) \ todo[i]) \cup {m} : journal'[n] = Sum(i, n)
            BY <1>1, <1>3, <2>2 DEF MigratorInv, InstanceInv, Progress, Holding
        <3>3. TypeOK
            BY DEF MigratorInv
        <3> QED
            BY <1>3, <1>4, <2>2, <3>1, <3>2, <3>3, DoneKeepsOwn
    <2>3. CASE lock' = "free" /\ Goto(i, "unavailable") /\ UNCHANGED todo
        <3>1. pc'[i] = "unavailable" /\ lock' # i
            BY <2>3, MigratorAssumption DEF MigratorInv, TypeOK, Goto
        <3> QED
            BY <1>1, <1>3, <2>3, <3>1, MovesOn DEF LockHeld, Holding
    <2> QED
        BY <1>2, <2>1, <2>2, <2>3
<1> QED
    BY <1>3, <1>4, <1>5, <1>6, <1>7, OwnStep

LEMMA RecordKeeps ==
    ASSUME MigratorInv, NEW i \in Instance, Record(i)
    PROVE  MigratorInv'
<1>1. lock = i /\ pc[i] = "executed" /\ TypeOK /\ Agree
    BY DEF MigratorInv, InstanceInv, LockHeld, Record, Holding
<1>2. PICK m \in Id : IsNext(i, m) /\ Commit(m, Sum(i, m)) /\ Done(i, m)
    BY DEF Record
<1>3. m = Len(schema) + 1 /\ Sum(i, m) \in Checksum
    BY <1>1, <1>2, DueFile
<1>4. /\ schema' \in Seq(Applied)
      /\ journal' \in [Id -> Checksum \cup {NoSum}]
      /\ Agree'
      /\ journal[m] = NoSum /\ journal'[m] = Sum(i, m)
      /\ \A n \in Id : n # m => journal'[n] = journal[n]
    BY <1>1, <1>2, <1>3, CommitAgrees
<1>5. UNCHANGED <<tableExists, inDoubt, build, boots>> /\ lock' = "free"
    BY <1>2 DEF Record, Done
<1>6. TypeOK'
    <2>1. pc' \in [Instance -> Booting \cup {"down", "available", "unavailable"}]
        BY <1>2 DEF MigratorInv, TypeOK, Goto, Done, Booting, Waiting
    <2>2. todo' \in [Instance -> SUBSET Id]
        BY <1>2 DEF MigratorInv, TypeOK, Done
    <2> QED
        BY <1>1, <1>4, <1>5, <2>1, <2>2 DEF TypeOK
<1>7. Doubt'
    BY <1>1, <1>5, MigratorAssumption DEF MigratorInv, Doubt
<1>8. InstanceInv(i)'
    <2>1. m \in todo[i] /\ todo[i] \subseteq Shipped(i)
        BY <1>1, <1>2 DEF MigratorInv, InstanceInv, Progress, IsNext, Holding
    <2>2. \A n \in (Shipped(i) \ todo[i]) \cup {m} : journal'[n] = Sum(i, n)
        BY <1>1, <1>4, <2>1 DEF MigratorInv, InstanceInv, Progress, Holding, Shipped
    <2> QED
        BY <1>1, <1>2, <1>5, <1>6, <2>1, <2>2, DoneKeepsOwn
<1>9. ASSUME NEW k \in Instance \ {i} PROVE InstanceInv(k)'
    <2>1. Untouched(k)
        BY <1>1, <1>2, <1>5, MigratorAssumption DEF TypeOK, Goto, Done, Untouched
    <2>2. InstanceInv(k) /\ pc[k] # "executed"
        BY <1>1 DEF MigratorInv, InstanceInv, LockHeld, Holding
    <2> QED
        BY <1>1, <1>4, <2>1, <2>2, CommitBystander
<1> QED
    BY <1>4, <1>6, <1>7, <1>8, <1>9 DEF MigratorInv

\* An instance that gives up, for good or to start again.
LEMMA LeaveKeeps ==
    ASSUME MigratorInv, NEW i \in Instance, NEW label \in {"unavailable", "down"},
           Abandon(i), Goto(i, label),
           UNCHANGED <<tableExists, journal, schema, build, todo, boots>>
    PROVE  MigratorInv'
<1>1. TypeOK'
    BY AbandonTypes DEF MigratorInv, TypeOK, Goto
<1>2. Doubt'
    BY AbandonTypes DEF Doubt
<1>3. \A k \in Instance \ {i} : Untouched(k)
    BY AbandonTypes, MigratorAssumption DEF MigratorInv, TypeOK, Goto, Untouched
<1>4. pc'[i] = label /\ lock' # i
    BY AbandonTypes DEF MigratorInv, TypeOK, Goto
<1>5. InstanceInv(i)'
    BY <1>4 DEF InstanceInv, LockHeld, Progress, Knows, Serves, Waiting, Holding
<1> QED
    BY <1>1, <1>2, <1>3, <1>5, OwnStep

LEMMA ReapKeeps ==
    ASSUME MigratorInv, Reap
    PROVE  MigratorInv'
<1>1. TypeOK /\ Agree /\ lock = "abandoned" /\ lock' = "free" /\ inDoubt' = NoFile
      /\ UNCHANGED <<tableExists, pc, build, todo, boots>>
    BY DEF MigratorInv, Reap
<1>2. Doubt'
    BY <1>1 DEF Doubt
<1>3. \A k \in Instance : Untouched(k) /\ InstanceInv(k) /\ pc[k] # "executed"
    BY <1>1, MigratorAssumption DEF MigratorInv, InstanceInv, LockHeld, Untouched, Holding
<1>4. CASE UNCHANGED <<journal, schema>>
    <2>1. TypeOK'
        BY <1>1, <1>4 DEF TypeOK
    <2>2. Agree'
        BY <1>1, <1>4 DEF Agree, Recorded
    <2>3. \A k \in Instance : InstanceInv(k)'
        BY <1>3, <1>4, Bystander
    <2> QED
        BY <1>2, <2>1, <2>2, <2>3 DEF MigratorInv
<1>5. CASE inDoubt # NoFile /\ Commit(inDoubt.id, inDoubt.sum)
    <2>1. inDoubt.id = Len(schema) + 1 /\ inDoubt.id \in Id /\ inDoubt.sum \in Checksum
        BY <1>5 DEF MigratorInv, TypeOK, Doubt, Applied
    <2>2. /\ schema' \in Seq(Applied)
          /\ journal' \in [Id -> Checksum \cup {NoSum}]
          /\ Agree'
          /\ journal[inDoubt.id] = NoSum
          /\ \A n \in Id : n # inDoubt.id => journal'[n] = journal[n]
        BY <1>1, <1>5, <2>1, CommitAgrees
    <2>3. TypeOK'
        BY <1>1, <2>2 DEF TypeOK
    <2>4. \A k \in Instance : InstanceInv(k)'
        BY <1>1, <1>3, <2>1, <2>2, CommitBystander
    <2> QED
        BY <1>2, <2>2, <2>3, <2>4 DEF MigratorInv
<1> QED
    BY <1>4, <1>5 DEF Reap

(***************************************************************************)
(* The invariant holds, and what follows from it.                          *)
(***************************************************************************)
LEMMA MigratorInvInit == Init => MigratorInv
<1> SUFFICES ASSUME Init PROVE MigratorInv
    OBVIOUS
<1>1. schema \in Seq(Applied) /\ Len(schema) = 0
    BY DEF Init
<1>2. TypeOK
    BY <1>1 DEF Init, TypeOK, Booting
<1>3. Agree
    BY <1>1, MigratorAssumption DEF Init, Agree, Recorded, Id
<1>4. Doubt
    BY DEF Init, Doubt
<1>5. \A i \in Instance : InstanceInv(i)
    BY MigratorAssumption
       DEF Init, InstanceInv, LockHeld, Progress, Knows, Serves, Waiting, Holding
<1> QED
    BY <1>2, <1>3, <1>4, <1>5 DEF MigratorInv

LEMMA StutterKeeps == MigratorInv /\ UNCHANGED vars => MigratorInv'
BY DEF MigratorInv, TypeOK, Agree, Recorded, Doubt, InstanceInv, LockHeld, Progress, Knows,
       Serves, IsNext, Shipped, Sum, vars

LEMMA MigratorInvStep == MigratorInv /\ [Next]_vars => MigratorInv'
<1> SUFFICES ASSUME MigratorInv, [Next]_vars PROVE MigratorInv'
    OBVIOUS
<1>1. ASSUME NEW i \in Instance, Boot(i) PROVE MigratorInv'
    BY <1>1, BootKeeps
<1>2. ASSUME NEW i \in Instance, Step(i) PROVE MigratorInv'
    BY <1>2, ReadJournalKeeps, AcquireLockKeeps, LockTimeoutKeeps, EnsureJournalKeeps,
       RecheckKeeps, RecordKeeps DEF Step
<1>3. ASSUME NEW i \in Instance, Fail(i) PROVE MigratorInv'
    BY <1>3, LeaveKeeps DEF Fail
<1>4. ASSUME NEW i \in Instance, Crash(i) PROVE MigratorInv'
    BY <1>4, LeaveKeeps DEF Crash
<1> QED
    BY <1>1, <1>2, <1>3, <1>4, ReapKeeps, StutterKeeps DEF Next

\* Every reachable state of DatabaseMigrator satisfies the invariant.
THEOREM MigratorInvariant == Spec => []MigratorInv
BY MigratorInvInit, MigratorInvStep, PTL DEF Spec

\* However many instances start, fail and start again, the files that took
\* effect are the ones recorded, each once and as recorded.
THEOREM JournalCorrect == Spec => []JournalTellsSchema
<1>1. MigratorInv => JournalTellsSchema
    <2> SUFFICES ASSUME MigratorInv PROVE JournalTellsSchema
        OBVIOUS
    <2>1. schema \in Seq(Applied)
        BY DEF MigratorInv, TypeOK
    <2>2. \A j, k \in 1..Len(schema) : schema[j].id = schema[k].id => j = k
        BY DEF MigratorInv, Agree
    <2>3. ASSUME NEW m \in Id, journal[m] # NoSum
          PROVE  \E j \in 1..Len(schema) : schema[j] = [id |-> m, sum |-> journal[m]]
        <3>1. m \in 1..Len(schema)
            BY <2>1, <2>3 DEF MigratorInv, Agree, Recorded, Id
        <3>2. schema[m] \in Applied /\ schema[m].id = m /\ schema[m].sum = journal[m]
            BY <2>1, <3>1 DEF MigratorInv, Agree, Recorded, Id
        <3> QED
            BY <3>1, <3>2 DEF Applied
    <2>4. ASSUME NEW m \in Id, NEW j \in 1..Len(schema),
                 schema[j] = [id |-> m, sum |-> journal[m]]
          PROVE  journal[m] # NoSum
        BY <2>1, <2>4 DEF MigratorInv, Agree, Recorded
    <2> QED
        BY <2>2, <2>3, <2>4 DEF JournalTellsSchema
<1> QED
    BY <1>1, MigratorInvariant, PTL

\* Builds that append files apply them in order and without a gap, in whatever
\* turns their instances take.
THEOREM OrderCorrect == Spec => []OrdinalOrder
<1>1. MigratorInv => OrdinalOrder
    BY DEF MigratorInv, Agree, OrdinalOrder
<1> QED
    BY <1>1, MigratorInvariant, PTL

\* No instance, of whatever build, serves database routes on a schema that
\* lacks a file of its build or holds another text of it.
THEOREM ServingCorrect == Spec => []ServingMeansMigrated
<1>1. MigratorInv => ServingMeansMigrated
    BY DEF MigratorInv, InstanceInv, Serves, ServingMeansMigrated
<1> QED
    BY <1>1, MigratorInvariant, PTL

\* The journal, the schema, the lock and every instance are well typed.
THEOREM TypeCorrect == Spec => []TypeOK
<1>1. MigratorInv => TypeOK
  BY DEF MigratorInv
<1> QED
  BY <1>1, MigratorInvariant, PTL
=============================================================================
