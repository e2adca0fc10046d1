----------------------------- MODULE Migrations -----------------------------
(***************************************************************************)
(* Store.Open and RollbackMigration (internal/store): several processes    *)
(* bring one database file to the newest schema, may die at any step, and  *)
(* are started again.                                                      *)
(*                                                                         *)
(* The schema is the set of the tables, columns and indexes that exist.    *)
(* A transaction works on a copy of the schema and of the recorded         *)
(* versions; SQLite lets one process write at a time, and a process that   *)
(* waits more than busy_timeout for another gets an error.                 *)
(***************************************************************************)
EXTENDS Integers, FiniteSets

CONSTANTS
  Process,        \* processes that open the file
  None,           \* no process
  MaxCrashes,     \* bound: crashes, all processes together
  MaxRollbacks    \* bound: calls of RollbackMigration

ASSUME BoundAssumption == {MaxCrashes, MaxRollbacks} \subseteq Nat
ASSUME NoneAssumption == None \notin Process

VARIABLES
  applied,        \* schema_versions, as committed
  schema,         \* what exists in the file, as committed
  writer,         \* the process with a write transaction, or None
  draft,          \* what that transaction has made of schema
  stage,          \* where each process is
  snapshot,       \* the versions it read
  version,        \* the version it is applying or rolling back
  crashes, rollbacks

file == <<applied, schema>>
bounds == <<crashes, rollbacks>>
vars == <<file, writer, draft, stage, snapshot, version, bounds>>

InTransaction == {"record", "commit", "forget"}
Stage == {"closed", "read", "up", "open", "down", "older"} \cup InTransaction
-----------------------------------------------------------------------------
(***************************************************************************)
(* The files in internal/store/migrations, by what they create and drop.   *)
(***************************************************************************)
Versions == 1..10

Creates ==
  << {"queue"}, {"event_log"}, {"index_cache"}, {"metrics"},
     {"idx_queue_file_path"}, {"idx_event_log_timestamp"}, {"idx_metrics_name"},
     {"position"}, {"idx_queue_file_path_pending"}, {"idx_queue_status_position"} >>

Drops(v) == IF v = 9 THEN {"idx_queue_file_path"} ELSE {}

Needs ==
  << {}, {}, {}, {}, {"queue"}, {"event_log"}, {"metrics"},
     {"queue"}, {"queue"}, {"queue", "position"} >>

(* CREATE ... IF NOT EXISTS can be run twice, ADD COLUMN cannot; a column   *)
(* that an index uses cannot be dropped.                                    *)
CanRunUp(v, s) == Needs[v] \subseteq s /\ (v = 8 => "position" \notin s)
CanRunDown(v, s) == v = 8 => "position" \in s /\ "idx_queue_status_position" \notin s

RunUp(v, s) == (s \ Drops(v)) \cup Creates[v]
RunDown(v, s) == (s \ Creates[v]) \cup Drops(v)

\* Mutant of Missing: the loop stops one short.
MissingButLast(done) == (Versions \ {10}) \ done

Missing(done) == Versions \ done

Lowest(S) == CHOOSE v \in S : \A w \in S : v <= w
Highest(S) == CHOOSE v \in S : \A w \in S : v >= w

Init ==
  /\ applied = {} /\ schema = {}
  /\ writer = None /\ draft = {}
  /\ stage = [p \in Process |-> "closed"]
  /\ snapshot = [p \in Process |-> {}]
  /\ version = [p \in Process |-> 1]
  /\ crashes = 0 /\ rollbacks = 0
-----------------------------------------------------------------------------
At(p, s) == stage[p] = s
GoTo(p, s) == stage' = [stage EXCEPT ![p] = s]

(***************************************************************************)
(* Transactions.                                                           *)
(***************************************************************************)

\* Mutant of Shown: the script runs outside the transaction.
ShownAtOnce(s) == s

(* What others see of the schema while a transaction has made s of it. *)
Shown(s) == schema

(* The first statement of a transaction takes the write lock. *)
Script(p, s) ==
  /\ writer = None
  /\ writer' = p
  /\ draft' = s
  /\ schema' = Shown(s)

\* Mutant of Unlocked: the deferred Rollback is missing.
StillLocked(p) == writer

(* The write lock after the end of a transaction of p, if it has one. *)
Unlocked(p) == IF writer = p THEN None ELSE writer

(* The transaction is rolled back, if there is one; the store is closed.    *)
GiveUp(p) ==
  /\ writer' = Unlocked(p)
  /\ draft' = IF writer' = None THEN {} ELSE draft
  /\ GoTo(p, "closed")
  /\ UNCHANGED <<file, snapshot, version>>

Commit(p, versions) ==
  /\ applied' = versions
  /\ schema' = draft
  /\ writer' = None /\ draft' = {}
-----------------------------------------------------------------------------
(***************************************************************************)
(* Open: the connection, the pragmas and runMigrations.  RollbackMigration *)
(* has no caller in the program: it is used by hand, on a file no one else *)
(* has open.                                                               *)
(***************************************************************************)
Open(p) ==
  /\ At(p, "closed")
  /\ \A q \in Process : stage[q] \notin {"down", "forget"}
  /\ GoTo(p, "read")
  /\ UNCHANGED <<file, writer, draft, snapshot, version, bounds>>

(* The loop over the migrations, after those in done. *)
Continue(p, done) ==
  /\ snapshot' = [snapshot EXCEPT ![p] = done]
  /\ IF Missing(done) = {}
     THEN GoTo(p, "open") /\ UNCHANGED version
     ELSE GoTo(p, "up") /\ version' = [version EXCEPT ![p] = Lowest(Missing(done))]

(* CREATE TABLE IF NOT EXISTS schema_versions, and appliedVersions. *)
Read(p) ==
  /\ At(p, "read")
  /\ Continue(p, applied)
  /\ UNCHANGED <<file, writer, draft, bounds>>

(* applyMigration, statement by statement. *)
Up(p) ==
  /\ At(p, "up")
  /\ CanRunUp(version[p], schema)
  /\ Script(p, RunUp(version[p], schema))
  /\ GoTo(p, "record")
  /\ UNCHANGED <<applied, snapshot, version, bounds>>

UpFails(p) ==
  /\ At(p, "up")
  /\ writer = None /\ ~CanRunUp(version[p], schema)
  /\ GiveUp(p)
  /\ UNCHANGED bounds

Record(p) ==
  /\ At(p, "record")
  /\ version[p] \notin applied
  /\ GoTo(p, "commit")
  /\ UNCHANGED <<file, writer, draft, snapshot, version, bounds>>

(* The primary key: another process has recorded the version meanwhile. *)
RecordFails(p) ==
  /\ At(p, "record")
  /\ version[p] \in applied
  /\ GiveUp(p)
  /\ UNCHANGED bounds

CommitUp(p) ==
  /\ At(p, "commit")
  /\ Commit(p, applied \cup {version[p]})
  /\ Continue(p, snapshot[p] \cup {version[p]})
  /\ UNCHANGED bounds

(* busy_timeout is over and another process still has the write lock. *)
Busy(p) ==
  /\ stage[p] \in {"read", "up"}
  /\ writer \notin {None, p}
  /\ GiveUp(p)
  /\ UNCHANGED bounds

Close(p) ==
  /\ stage[p] \in {"open", "older"}
  /\ GiveUp(p)
  /\ UNCHANGED bounds

(* RollbackMigration: the newest version is read ... *)
Rollback(p) ==
  /\ rollbacks < MaxRollbacks
  /\ stage[p] \in {"open", "older"}
  /\ \A q \in Process \ {p} : At(q, "closed")
  /\ applied # {}
  /\ rollbacks' = rollbacks + 1
  /\ version' = [version EXCEPT ![p] = Highest(applied)]
  /\ GoTo(p, "down")
  /\ UNCHANGED <<file, writer, draft, snapshot, crashes>>

(* ... its down script is run ... *)
Down(p) ==
  /\ At(p, "down")
  /\ CanRunDown(version[p], schema)
  /\ Script(p, RunDown(version[p], schema))
  /\ GoTo(p, "forget")
  /\ UNCHANGED <<applied, snapshot, version, bounds>>

(* ... and its record is deleted, in the same transaction. *)
CommitDown(p) ==
  /\ At(p, "forget")
  /\ Commit(p, applied \ {version[p]})
  /\ GoTo(p, "older")
  /\ UNCHANGED <<snapshot, version, bounds>>

Crash(p) ==
  /\ crashes < MaxCrashes
  /\ stage[p] # "closed"
  /\ crashes' = crashes + 1
  /\ GiveUp(p)
  /\ UNCHANGED rollbacks

Migrate(p) == Read(p) \/ Up(p) \/ UpFails(p) \/ Record(p) \/ RecordFails(p) \/ CommitUp(p) \/ Busy(p)

Next ==
  \E p \in Process :
    \/ Open(p) \/ Migrate(p) \/ Close(p)
    \/ Rollback(p) \/ Down(p) \/ CommitDown(p)
    \/ Crash(p)

Spec == Init /\ [][Next]_vars

(* Whoever is not running is started again, and what is begun is carried    *)
(* through.  No one has to close a store, to roll back or to crash.         *)
FairSpec ==
  /\ Spec
  /\ \A p \in Process :
       WF_vars(Open(p)) /\ WF_vars(Migrate(p)) /\ WF_vars(Down(p)) /\ WF_vars(CommitDown(p))
-----------------------------------------------------------------------------
Objects == UNION {Creates[v] : v \in Versions}

(* Every variable keeps its type, and the write lock is with the one that   *)
(* is in a transaction.                                                     *)
TypeOK ==
  /\ applied \subseteq Versions
  /\ schema \subseteq Objects /\ draft \subseteq Objects
  /\ writer \in Process \cup {None}
  /\ stage \in [Process -> Stage]
  /\ \A p \in Process : stage[p] \in InTransaction <=> writer = p
  /\ snapshot \in [Process -> SUBSET Versions]
  /\ version \in [Process -> Versions]
  /\ crashes \in 0..MaxCrashes /\ rollbacks \in 0..MaxRollbacks

(* What exists when exactly the versions in V are applied, in order. *)
SchemaOf(V) ==
  {o \in Objects : \E v \in V : /\ o \in Creates[v]
                               /\ \A w \in V : w > v => o \notin Drops(w)}

(* The record never lies: whatever crashed, was rolled back, lost a race    *)
(* for a version or waited too long, the recorded versions are 1..n without *)
(* a gap, and exactly what they create is there.                            *)
RecordMatchesSchema ==
  /\ applied = 1..Cardinality(applied)
  /\ schema = SchemaOf(applied)

(* Open returns a store with the newest schema: the applied versions were   *)
(* read before they were acted on, and other processes applied, crashed and *)
(* failed meanwhile.                                                        *)
OpenIsComplete == \A p \in Process : At(p, "open") => applied = Versions

(* Processes that start together and get into each other's way do not stay  *)
(* there: when restarted they end up with a complete schema.                *)
EventuallyMigrated == <>[](applied = Versions)
=============================================================================
