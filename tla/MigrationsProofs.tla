-------------------------- MODULE MigrationsProofs --------------------------
(***************************************************************************)
(* The safety invariants of Migrations, for any number of processes,       *)
(* crashes and roll-backs.                                                 *)
(***************************************************************************)
EXTENDS Migrations, FiniteSetTheorems, TLAPS

(* The file is at version n, for some n. *)
FileInv == \E n \in 0..10 : applied = 1..n /\ schema = SchemaOf(1..n)

(* What a process is up to agrees with the file: the versions it has read   *)
(* are still there, its version is the next one or, if another process was  *)
(* faster, recorded; and who rolls back is alone.                           *)
Migrating(p) ==
  /\ stage[p] \in {"up", "record", "commit"} =>
       snapshot[p] = 1..(version[p] - 1) /\ snapshot[p] \subseteq applied
  /\ stage[p] \in {"record", "commit"} => draft = RunUp(version[p], schema)
  /\ stage[p] = "commit" => version[p] \notin applied

RollingBack(p) ==
  /\ stage[p] \in {"down", "forget"} =>
       /\ \A q \in Process \ {p} : stage[q] = "closed"
       /\ version[p] \in applied /\ \A v \in applied : v <= version[p]
  /\ stage[p] = "forget" => draft = RunDown(version[p], schema)

ProcessInv == \A p \in Process : Migrating(p) /\ RollingBack(p)

MigrationsInv == TypeOK /\ FileInv /\ ProcessInv /\ OpenIsComplete
-----------------------------------------------------------------------------
(***************************************************************************)
(* The scripts.                                                            *)
(***************************************************************************)
LEMMA ScriptsAreTyped ==
  ASSUME NEW v \in Versions
  PROVE  /\ Creates[v] \subseteq Objects /\ Drops(v) \subseteq Objects
         /\ \A s \in SUBSET Objects : RunUp(v, s) \subseteq Objects /\ RunDown(v, s) \subseteq Objects
<1>1. \A w \in Versions : Creates[w] \subseteq Objects
  BY DEF Objects
<1>2. Drops(v) \subseteq Objects
  <2>1. "idx_queue_file_path" \in Creates[5] /\ 5 \in Versions
    BY DEF Creates, Versions
  <2> QED BY <1>1, <2>1 DEF Drops
<1> QED BY <1>1, <1>2 DEF RunUp, RunDown

(* No two scripts create the same object. *)
LEMMA CreatedOnce ==
  ASSUME NEW v \in Versions, NEW w \in Versions, NEW o, o \in Creates[v], o \in Creates[w]
  PROVE  v = w
<1>1. \A u \in Versions : \/ u = 1 \/ u = 2 \/ u = 3 \/ u = 4 \/ u = 5
                          \/ u = 6 \/ u = 7 \/ u = 8 \/ u = 9 \/ u = 10
  BY DEF Versions
<1>2. /\ Creates[1] = {"queue"} /\ Creates[2] = {"event_log"} /\ Creates[3] = {"index_cache"}
      /\ Creates[4] = {"metrics"} /\ Creates[5] = {"idx_queue_file_path"}
      /\ Creates[6] = {"idx_event_log_timestamp"} /\ Creates[7] = {"idx_metrics_name"}
      /\ Creates[8] = {"position"} /\ Creates[9] = {"idx_queue_file_path_pending"}
      /\ Creates[10] = {"idx_queue_status_position"}
  BY DEF Creates
<1> QED BY <1>1, <1>2

(* An up script makes the schema of one version that of the next. *)
LEMMA UpOne ==
  ASSUME NEW n \in 0..9 PROVE RunUp(n + 1, SchemaOf(1..n)) = SchemaOf(1..(n + 1))
<1>1. n + 1 \in Versions /\ \A v \in 1..n : v \in Versions
  BY DEF Versions
<1>2. \A v : v \in 1..(n + 1) <=> v \in 1..n \/ v = n + 1
  OBVIOUS
<1>3. Creates[n + 1] \subseteq Objects
  BY <1>1, ScriptsAreTyped
<1>4. ASSUME NEW o \in RunUp(n + 1, SchemaOf(1..n)) PROVE o \in SchemaOf(1..(n + 1))
  <2>1. CASE o \in Creates[n + 1]
    <3>1. \A w \in 1..(n + 1) : ~(w > n + 1)
      OBVIOUS
    <3> QED BY <1>2, <1>3, <2>1, <3>1 DEF SchemaOf
  <2>2. CASE o \in SchemaOf(1..n) /\ o \notin Drops(n + 1)
    BY <1>2, <2>2 DEF SchemaOf
  <2> QED BY <1>4, <2>1, <2>2 DEF RunUp
<1>5. ASSUME NEW o \in SchemaOf(1..(n + 1)) PROVE o \in RunUp(n + 1, SchemaOf(1..n))
  <2>1. PICK v \in 1..(n + 1) : o \in Creates[v] /\ \A w \in 1..(n + 1) : w > v => o \notin Drops(w)
    BY <1>5 DEF SchemaOf
  <2>2. o \in Objects
    BY <1>5 DEF SchemaOf
  <2>3. CASE v = n + 1
    BY <2>1, <2>3 DEF RunUp
  <2>4. CASE v \in 1..n
    <3>1. o \in SchemaOf(1..n)
      BY <1>2, <2>1, <2>2, <2>4 DEF SchemaOf
    <3>2. o \notin Drops(n + 1)
      BY <2>1, <2>4
    <3> QED BY <3>1, <3>2 DEF RunUp
  <2> QED BY <1>2, <2>3, <2>4
<1> QED BY <1>4, <1>5

(* What a script drops was there, and none dropped it before. *)
LEMMA DroppedWasThere ==
  ASSUME NEW n \in Versions PROVE Drops(n) \subseteq SchemaOf(1..(n - 1))
<1>1. CASE n # 9
  BY <1>1 DEF Drops
<1>2. CASE n = 9
  <2>1. 5 \in 1..(n - 1) /\ 5 \in Versions /\ "idx_queue_file_path" \in Creates[5]
    BY <1>2 DEF Creates, Versions
  <2>2. \A w \in 1..(n - 1) : Drops(w) = {}
    BY <1>2 DEF Drops
  <2>3. "idx_queue_file_path" \in Objects
    BY <2>1, ScriptsAreTyped
  <2>4. "idx_queue_file_path" \in SchemaOf(1..(n - 1))
    BY <2>1, <2>2, <2>3 DEF SchemaOf
  <2> QED BY <1>2, <2>4 DEF Drops
<1> QED BY <1>1, <1>2

(* A down script makes the schema of one version that of the one before. *)
LEMMA DownOne ==
  ASSUME NEW n \in 1..10 PROVE RunDown(n, SchemaOf(1..n)) = SchemaOf(1..(n - 1))
<1>1. n \in Versions /\ \A v \in 1..n : v \in Versions
  BY DEF Versions
<1>2. \A v : v \in 1..n <=> v \in 1..(n - 1) \/ v = n
  OBVIOUS
<1>3. ASSUME NEW o \in RunDown(n, SchemaOf(1..n)) PROVE o \in SchemaOf(1..(n - 1))
  <2>1. CASE o \in Drops(n)
    BY <1>1, <2>1, DroppedWasThere
  <2>2. CASE o \in SchemaOf(1..n) /\ o \notin Creates[n]
    <3>1. PICK v \in 1..n : o \in Creates[v] /\ \A w \in 1..n : w > v => o \notin Drops(w)
      BY <2>2 DEF SchemaOf
    <3>2. v \in 1..(n - 1) /\ o \in Objects
      BY <1>2, <2>2, <3>1 DEF SchemaOf
    <3> QED BY <1>2, <3>1, <3>2 DEF SchemaOf
  <2> QED BY <1>3, <2>1, <2>2 DEF RunDown
<1>4. ASSUME NEW o \in SchemaOf(1..(n - 1)) PROVE o \in RunDown(n, SchemaOf(1..n))
  <2>1. PICK v \in 1..(n - 1) : o \in Creates[v] /\ \A w \in 1..(n - 1) : w > v => o \notin Drops(w)
    BY <1>4 DEF SchemaOf
  <2>2. o \in Objects /\ v \in 1..n /\ v # n
    BY <1>2, <1>4 DEF SchemaOf
  <2>3. o \notin Creates[n]
    BY <1>1, <2>1, <2>2, CreatedOnce
  <2>4. CASE o \in Drops(n)
    BY <2>4 DEF RunDown
  <2>5. CASE o \notin Drops(n)
    <3>1. o \in SchemaOf(1..n)
      BY <1>2, <2>1, <2>2, <2>5 DEF SchemaOf
    <3> QED BY <2>3, <3>1 DEF RunDown
  <2> QED BY <2>4, <2>5
<1> QED BY <1>3, <1>4

LEMMA NextVersion ==
  ASSUME NEW n \in 0..10
  PROVE  /\ n = 10 => Missing(1..n) = {}
         /\ n < 10 => Missing(1..n) # {} /\ Lowest(Missing(1..n)) = n + 1
<1>1. CASE n = 10
  BY <1>1 DEF Missing, Versions
<1>2. CASE n # 10
  <2>1. n + 1 \in Missing(1..n) /\ \A v \in Missing(1..n) : n + 1 <= v
    BY <1>2 DEF Missing, Versions
  <2>2. \A v \in Missing(1..n) : (\A w \in Missing(1..n) : v <= w) => v = n + 1
    BY <2>1 DEF Missing, Versions
  <2> QED BY <1>2, <2>1, <2>2 DEF Lowest
<1> QED BY <1>1, <1>2

LEMMA NewestVersion == ASSUME NEW n \in 1..10 PROVE Highest(1..n) = n
<1>1. n \in 1..n /\ \A v \in 1..n : v <= n
  OBVIOUS
<1>2. \A v \in 1..n : (\A w \in 1..n : v >= w) => v = n
  BY <1>1
<1> QED BY <1>1, <1>2 DEF Highest

LEMMA SchemaIsTyped == ASSUME NEW V PROVE SchemaOf(V) \subseteq Objects
BY DEF SchemaOf
-----------------------------------------------------------------------------
LEMMA InitMigrationsInv == Init => MigrationsInv
<1> SUFFICES ASSUME Init PROVE MigrationsInv
  OBVIOUS
<1>1. TypeOK
  BY NoneAssumption, BoundAssumption DEF Init, TypeOK, Stage, InTransaction, Versions
<1>2. SchemaOf(1..0) = {} /\ 1..0 = {}
  BY DEF SchemaOf
<1>3. FileInv
  BY <1>2 DEF Init, FileInv
<1>4. ProcessInv /\ OpenIsComplete
  BY DEF Init, ProcessInv, Migrating, RollingBack, OpenIsComplete, At
<1> QED BY <1>1, <1>3, <1>4 DEF MigrationsInv

(* One process at a time is in a transaction. *)
LEMMA OneWriter ==
  ASSUME TypeOK, NEW p \in Process, NEW q \in Process,
         stage[p] \in InTransaction, stage[q] \in InTransaction
  PROVE  p = q
BY DEF TypeOK

(* A process that moves to a stage outside transactions, on a file that     *)
(* stays as it is, touches the claims of no other.                          *)
LEMMA OthersKeep ==
  ASSUME MigrationsInv, NEW p \in Process, NEW t,
         UNCHANGED file, stage' = [stage EXCEPT ![p] = t],
         \A q \in Process \ {p} : /\ snapshot'[q] = snapshot[q] /\ version'[q] = version[q]
                                  /\ stage[q] \in InTransaction => draft' = draft,
         t = "closed" \/ \A q \in Process \ {p} : stage[q] \notin {"down", "forget"}
  PROVE  \A q \in Process \ {p} : Migrating(q)' /\ RollingBack(q)'
<1> SUFFICES ASSUME NEW q \in Process \ {p} PROVE Migrating(q)' /\ RollingBack(q)'
  OBVIOUS
<1>1. /\ stage'[q] = stage[q] /\ snapshot'[q] = snapshot[q] /\ version'[q] = version[q]
      /\ UNCHANGED <<applied, schema>>
      /\ \A r \in Process : stage'[r] = IF r = p THEN t ELSE stage[r]
  <2>1. stage \in [Process -> Stage]
    BY DEF MigrationsInv, TypeOK
  <2>2. \A r \in Process : stage'[r] = IF r = p THEN t ELSE stage[r]
    BY <2>1
  <2>3. stage'[q] = stage[q]
    BY <2>2
  <2>4. snapshot'[q] = snapshot[q] /\ version'[q] = version[q]
    OBVIOUS
  <2> QED BY <2>2, <2>3, <2>4 DEF file
<1>2. stage[q] \in {"record", "commit", "forget"} => draft' = draft
  <2>1. stage[q] \in InTransaction => draft' = draft
    OBVIOUS
  <2> QED BY <2>1 DEF InTransaction
<1>3. Migrating(q) /\ RollingBack(q)
  BY DEF MigrationsInv, ProcessInv
<1>4. Migrating(q)'
  BY <1>1, <1>2, <1>3 DEF Migrating
<1>5. RollingBack(q)'
  BY <1>1, <1>2, <1>3 DEF RollingBack
<1> QED BY <1>4, <1>5

LEMMA GiveUpKeeps ==
  ASSUME MigrationsInv, NEW p \in Process, GiveUp(p),
         crashes' \in 0..MaxCrashes, rollbacks' \in 0..MaxRollbacks
  PROVE  MigrationsInv'
<1>0. TypeOK
  BY DEF MigrationsInv
<1>1. /\ UNCHANGED <<applied, schema, snapshot, version>>
      /\ stage' = [stage EXCEPT ![p] = "closed"]
      /\ writer' = IF writer = p THEN None ELSE writer
      /\ draft' = IF writer' = None THEN {} ELSE draft
  BY DEF GiveUp, GoTo, Unlocked, file
<1>2. \A q \in Process : stage'[q] = IF q = p THEN "closed" ELSE stage[q]
  BY <1>0, <1>1 DEF TypeOK
<1>3. TypeOK'
  <2>1. stage' \in [Process -> Stage] /\ draft' \subseteq Objects
    BY <1>0, <1>1 DEF TypeOK, Stage
  <2>2. writer' \in Process \cup {None}
    BY <1>0, <1>1 DEF TypeOK
  <2>3. \A q \in Process : stage'[q] \in InTransaction <=> writer' = q
    BY <1>0, <1>1, <1>2, NoneAssumption DEF TypeOK, InTransaction
  <2> QED BY <1>0, <1>1, <2>1, <2>2, <2>3 DEF TypeOK
<1>4. FileInv'
  BY <1>1 DEF MigrationsInv, FileInv
<1>5. \A q \in Process \ {p} : stage[q] \in InTransaction => draft' = draft
  BY <1>0, <1>1, NoneAssumption DEF TypeOK
<1>6. \A q \in Process \ {p} : Migrating(q)' /\ RollingBack(q)'
  BY <1>1, <1>5, OthersKeep DEF file
<1>7. Migrating(p)' /\ RollingBack(p)'
  BY <1>2 DEF Migrating, RollingBack
<1>8. OpenIsComplete'
  BY <1>1, <1>2 DEF MigrationsInv, OpenIsComplete, At
<1>9. ProcessInv'
  BY <1>6, <1>7 DEF ProcessInv
<1> QED BY <1>3, <1>4, <1>8, <1>9 DEF MigrationsInv

LEMMA OpenKeeps == ASSUME MigrationsInv, NEW p \in Process, Open(p) PROVE MigrationsInv'
<1>0. TypeOK
  BY DEF MigrationsInv
<1>1. /\ UNCHANGED <<applied, schema, writer, draft, snapshot, version, crashes, rollbacks>>
      /\ stage[p] = "closed" /\ stage' = [stage EXCEPT ![p] = "read"]
      /\ \A q \in Process : stage[q] \notin {"down", "forget"}
  BY DEF Open, At, GoTo, file, bounds
<1>2. \A q \in Process : stage'[q] = IF q = p THEN "read" ELSE stage[q]
  BY <1>0, <1>1 DEF TypeOK
<1>3. TypeOK'
  BY <1>0, <1>1, <1>2 DEF TypeOK, Stage, InTransaction
<1>4. FileInv' /\ OpenIsComplete'
  <2>1. FileInv'
    BY <1>1 DEF MigrationsInv, FileInv
  <2>2. OpenIsComplete'
    BY <1>1, <1>2 DEF MigrationsInv, OpenIsComplete, At
  <2> QED BY <2>1, <2>2
<1>5. \A q \in Process \ {p} : Migrating(q)' /\ RollingBack(q)'
  BY <1>1, OthersKeep DEF file
<1>6. Migrating(p)' /\ RollingBack(p)'
  BY <1>2 DEF Migrating, RollingBack
<1>7. ProcessInv'
  BY <1>5, <1>6 DEF ProcessInv
<1> QED BY <1>3, <1>4, <1>7 DEF MigrationsInv

(* What Continue comes to on a file at version n. *)
LEMMA ContinueAt ==
  ASSUME TypeOK, NEW p \in Process, NEW n \in 0..10, NEW done, done = 1..n, Continue(p, done)
  PROVE  /\ snapshot' = [snapshot EXCEPT ![p] = 1..n]
         /\ \/ n = 10 /\ stage' = [stage EXCEPT ![p] = "open"] /\ version' = version
            \/ /\ n < 10 /\ stage' = [stage EXCEPT ![p] = "up"]
               /\ version' = [version EXCEPT ![p] = n + 1]
<1>1. snapshot' = [snapshot EXCEPT ![p] = 1..n]
  BY DEF Continue
<1>2. CASE n = 10
  <2>1. Missing(done) = {}
    BY <1>2, NextVersion
  <2> QED BY <1>1, <1>2, <2>1 DEF Continue, GoTo
<1>3. CASE n # 10
  <2>1. n < 10
    BY <1>3
  <2>2. Missing(1..n) # {} /\ Lowest(Missing(1..n)) = n + 1
    BY <2>1, NextVersion
  <2> QED BY <1>1, <2>1, <2>2 DEF Continue, GoTo
<1> QED BY <1>2, <1>3

(* The process that goes on has read what there is. *)
LEMMA ContinueKeeps ==
  ASSUME MigrationsInv, NEW p \in Process, NEW n \in 0..10, NEW done, done = 1..n,
         Continue(p, done), applied' = 1..n
  PROVE  /\ snapshot' \in [Process -> SUBSET Versions] /\ version' \in [Process -> Versions]
         /\ stage' \in [Process -> Stage] /\ stage'[p] \in {"up", "open"}
         /\ Migrating(p)' /\ RollingBack(p)' /\ (stage'[p] = "open" => applied' = Versions)
         /\ \A q \in Process \ {p} :
              stage'[q] = stage[q] /\ snapshot'[q] = snapshot[q] /\ version'[q] = version[q]
<1>0. TypeOK
  BY DEF MigrationsInv
<1>1. 1..n \subseteq Versions
  BY DEF Versions
<1>2. snapshot' = [snapshot EXCEPT ![p] = 1..n]
  BY <1>0, ContinueAt
<1>3. CASE n = 10 /\ stage' = [stage EXCEPT ![p] = "open"] /\ version' = version
  <2>1. stage'[p] = "open" /\ stage' \in [Process -> Stage]
    BY <1>0, <1>3 DEF TypeOK, Stage
  <2>2. applied' = Versions
    BY <1>3 DEF Versions
  <2>3. Migrating(p)' /\ RollingBack(p)'
    BY <2>1 DEF Migrating, RollingBack
  <2> QED BY <1>0, <1>1, <1>2, <1>3, <2>1, <2>2, <2>3 DEF TypeOK
<1>4. CASE n < 10 /\ stage' = [stage EXCEPT ![p] = "up"] /\ version' = [version EXCEPT ![p] = n + 1]
  <2>1. stage'[p] = "up" /\ stage' \in [Process -> Stage]
    BY <1>0, <1>4 DEF TypeOK, Stage
  <2>2. n + 1 \in Versions
    BY <1>4 DEF Versions
  <2>3. version'[p] = n + 1 /\ snapshot'[p] = 1..n
    BY <1>0, <1>2, <1>4 DEF TypeOK
  <2>4. (n + 1) - 1 = n
    OBVIOUS
  <2>5. Migrating(p)' /\ RollingBack(p)'
    BY <2>1, <2>3, <2>4 DEF Migrating, RollingBack
  <2> QED BY <1>0, <1>1, <1>2, <1>4, <2>1, <2>2, <2>5 DEF TypeOK
<1> QED BY <1>0, <1>3, <1>4, ContinueAt

LEMMA ReadKeeps == ASSUME MigrationsInv, NEW p \in Process, Read(p) PROVE MigrationsInv'
<1>0. TypeOK
  BY DEF MigrationsInv
<1>1. /\ stage[p] = "read" /\ Continue(p, applied)
      /\ UNCHANGED <<applied, schema, writer, draft, crashes, rollbacks>>
  BY DEF Read, At, file, bounds
<1>2. PICK n \in 0..10 : applied = 1..n
  BY DEF MigrationsInv, FileInv
<1>3. /\ snapshot' \in [Process -> SUBSET Versions] /\ version' \in [Process -> Versions]
      /\ stage' \in [Process -> Stage] /\ stage'[p] \in {"up", "open"}
      /\ Migrating(p)' /\ RollingBack(p)' /\ (stage'[p] = "open" => applied' = Versions)
      /\ \A q \in Process \ {p} :
           stage'[q] = stage[q] /\ snapshot'[q] = snapshot[q] /\ version'[q] = version[q]
  BY <1>1, <1>2, ContinueKeeps
<1>4. TypeOK'
  <2>1. \A q \in Process : stage'[q] \in InTransaction <=> writer' = q
    BY <1>0, <1>1, <1>3 DEF TypeOK, InTransaction
  <2> QED BY <1>0, <1>1, <1>3, <2>1 DEF TypeOK
<1>5. FileInv'
  BY <1>1 DEF MigrationsInv, FileInv
<1>6. OpenIsComplete'
  BY <1>1, <1>3 DEF MigrationsInv, OpenIsComplete, At
<1>7. ASSUME NEW q \in Process \ {p} PROVE Migrating(q)' /\ RollingBack(q)'
  <2>1. stage[q] \notin {"down", "forget"}
    BY <1>1 DEF MigrationsInv, ProcessInv, RollingBack
  <2>2. Migrating(q)
    BY DEF MigrationsInv, ProcessInv
  <2> QED BY <1>1, <1>3, <2>1, <2>2 DEF Migrating, RollingBack
<1>8. ProcessInv'
  BY <1>3, <1>7 DEF ProcessInv
<1> QED BY <1>4, <1>5, <1>6, <1>8 DEF MigrationsInv

(* A script is run on a copy: the file stays as it is. *)
LEMMA UpKeeps == ASSUME MigrationsInv, NEW p \in Process, Up(p) PROVE MigrationsInv'
<1>0. TypeOK
  BY DEF MigrationsInv
<1>1. /\ stage[p] = "up" /\ stage' = [stage EXCEPT ![p] = "record"]
      /\ writer = None /\ writer' = p /\ draft' = RunUp(version[p], schema)
      /\ UNCHANGED <<applied, schema, snapshot, version, crashes, rollbacks>>
  BY DEF Up, At, Script, Shown, GoTo, bounds
<1>2. \A q \in Process : stage'[q] = IF q = p THEN "record" ELSE stage[q]
  BY <1>0, <1>1 DEF TypeOK
<1>3. \A q \in Process : stage[q] \notin InTransaction
  BY <1>0, <1>1, NoneAssumption DEF TypeOK
<1>4. TypeOK'
  <2>1. draft' \subseteq Objects
    BY <1>0, <1>1, ScriptsAreTyped DEF TypeOK
  <2>2. \A q \in Process : stage'[q] \in InTransaction <=> writer' = q
    BY <1>1, <1>2, <1>3 DEF InTransaction
  <2>3. stage' \in [Process -> Stage]
    BY <1>0, <1>1 DEF TypeOK, Stage, InTransaction
  <2> QED BY <1>0, <1>1, <2>1, <2>2, <2>3 DEF TypeOK
<1>5. FileInv' /\ OpenIsComplete'
  <2>1. FileInv'
    BY <1>1 DEF MigrationsInv, FileInv
  <2>2. OpenIsComplete'
    BY <1>1, <1>2 DEF MigrationsInv, OpenIsComplete, At
  <2> QED BY <2>1, <2>2
<1>6. \A q \in Process \ {p} : stage[q] \notin {"down", "forget"}
  BY <1>1 DEF MigrationsInv, ProcessInv, RollingBack
<1>7. \A q \in Process \ {p} : Migrating(q)' /\ RollingBack(q)'
  BY <1>1, <1>3, <1>6, OthersKeep DEF file
<1>8. Migrating(p)' /\ RollingBack(p)'
  <2>1. Migrating(p)
    BY DEF MigrationsInv, ProcessInv
  <2> QED BY <1>1, <1>2, <2>1 DEF Migrating, RollingBack
<1>9. ProcessInv'
  BY <1>7, <1>8 DEF ProcessInv
<1> QED BY <1>4, <1>5, <1>9 DEF MigrationsInv

LEMMA RecordKeeps == ASSUME MigrationsInv, NEW p \in Process, Record(p) PROVE MigrationsInv'
<1>0. TypeOK
  BY DEF MigrationsInv
<1>1. /\ stage[p] = "record" /\ stage' = [stage EXCEPT ![p] = "commit"]
      /\ version[p] \notin applied
      /\ UNCHANGED <<applied, schema, writer, draft, snapshot, version, crashes, rollbacks>>
  BY DEF Record, At, GoTo, file, bounds
<1>2. \A q \in Process : stage'[q] = IF q = p THEN "commit" ELSE stage[q]
  BY <1>0, <1>1 DEF TypeOK
<1>3. TypeOK'
  <2>1. \A q \in Process : stage'[q] \in InTransaction <=> writer' = q
    BY <1>0, <1>1, <1>2 DEF TypeOK, InTransaction
  <2>2. stage' \in [Process -> Stage]
    BY <1>0, <1>1 DEF TypeOK, Stage, InTransaction
  <2> QED BY <1>0, <1>1, <2>1, <2>2 DEF TypeOK
<1>4. FileInv' /\ OpenIsComplete'
  <2>1. FileInv'
    BY <1>1 DEF MigrationsInv, FileInv
  <2>2. OpenIsComplete'
    BY <1>1, <1>2 DEF MigrationsInv, OpenIsComplete, At
  <2> QED BY <2>1, <2>2
<1>5. \A q \in Process \ {p} : stage[q] \notin {"down", "forget"}
  BY <1>1 DEF MigrationsInv, ProcessInv, RollingBack
<1>6. \A q \in Process \ {p} : Migrating(q)' /\ RollingBack(q)'
  BY <1>1, <1>5, OthersKeep DEF file
<1>7. Migrating(p)' /\ RollingBack(p)'
  <2>1. Migrating(p)
    BY DEF MigrationsInv, ProcessInv
  <2> QED BY <1>1, <1>2, <2>1 DEF Migrating, RollingBack
<1>8. ProcessInv'
  BY <1>6, <1>7 DEF ProcessInv
<1> QED BY <1>3, <1>4, <1>8 DEF MigrationsInv

(* The version that is recorded is the next one: those below were read, and *)
(* it was not there although others had time to record it.                  *)
LEMMA CommitUpKeeps == ASSUME MigrationsInv, NEW p \in Process, CommitUp(p) PROVE MigrationsInv'
<1>0. TypeOK
  BY DEF MigrationsInv
<1> DEFINE v == version[p]
<1>1. /\ stage[p] = "commit" /\ applied' = applied \cup {v} /\ schema' = draft
      /\ writer' = None /\ draft' = {} /\ Continue(p, snapshot[p] \cup {v})
      /\ UNCHANGED <<crashes, rollbacks>>
  BY DEF CommitUp, Commit, At, bounds
<1>2. PICK n \in 0..10 : applied = 1..n /\ schema = SchemaOf(1..n)
  BY DEF MigrationsInv, FileInv
<1>3. /\ v \in Versions /\ snapshot[p] = 1..(v - 1) /\ snapshot[p] \subseteq applied
      /\ draft = RunUp(v, schema) /\ v \notin applied
  BY <1>0, <1>1 DEF MigrationsInv, ProcessInv, Migrating, TypeOK
<1>4. v = n + 1 /\ n \in 0..9
  <2>1. v \in 1..10 /\ ~(v \in 1..n)
    BY <1>2, <1>3 DEF Versions
  <2>2. v = 1 \/ v - 1 \in 1..n
    <3>1. CASE v # 1
      <4>1. v - 1 \in 1..(v - 1)
        BY <2>1, <3>1
      <4> QED BY <1>2, <1>3, <4>1
    <3> QED BY <3>1
  <2> HIDE DEF v
  <2> QED BY <2>1, <2>2
<1> HIDE DEF v
<1>5. applied' = 1..(n + 1) /\ snapshot[p] \cup {v} = 1..(n + 1)
  BY <1>1, <1>2, <1>3, <1>4
<1>6. schema' = SchemaOf(1..(n + 1))
  BY <1>1, <1>2, <1>3, <1>4, UpOne
<1>7. FileInv'
  <2>1. n + 1 \in 0..10
    BY <1>4
  <2> QED BY <1>5, <1>6, <2>1 DEF FileInv
<1>8. /\ snapshot' \in [Process -> SUBSET Versions] /\ version' \in [Process -> Versions]
      /\ stage' \in [Process -> Stage] /\ stage'[p] \in {"up", "open"}
      /\ Migrating(p)' /\ RollingBack(p)' /\ (stage'[p] = "open" => applied' = Versions)
      /\ \A q \in Process \ {p} :
           stage'[q] = stage[q] /\ snapshot'[q] = snapshot[q] /\ version'[q] = version[q]
  <2>1. n + 1 \in 0..10
    BY <1>4
  <2> QED BY <1>1, <1>5, <2>1, ContinueKeeps
<1>9. \A q \in Process \ {p} : stage[q] \notin InTransaction
  BY <1>0, <1>1, OneWriter DEF InTransaction
<1>10. TypeOK'
  <2>1. \A q \in Process : stage'[q] \in InTransaction <=> writer' = q
    BY <1>1, <1>8, <1>9, NoneAssumption DEF InTransaction
  <2>2. applied' \subseteq Versions /\ schema' \subseteq Objects
    BY <1>4, <1>5, <1>6, SchemaIsTyped DEF Versions
  <2> QED BY <1>0, <1>1, <1>8, <2>1, <2>2 DEF TypeOK
<1>11. ASSUME NEW q \in Process \ {p} PROVE Migrating(q)' /\ RollingBack(q)'
  <2>1. stage'[q] = stage[q] /\ stage[q] \notin {"record", "commit", "forget"}
    BY <1>8, <1>9 DEF InTransaction
  <2>2. stage[q] # "down"
    BY <1>1 DEF MigrationsInv, ProcessInv, RollingBack
  <2>3. Migrating(q)
    BY DEF MigrationsInv, ProcessInv
  <2> QED BY <1>1, <1>8, <2>1, <2>2, <2>3 DEF Migrating, RollingBack
<1>12. OpenIsComplete'
  <2> SUFFICES ASSUME NEW q \in Process, stage'[q] = "open" PROVE applied' = Versions
    BY DEF OpenIsComplete, At
  <2>1. CASE q = p
    BY <1>8, <2>1
  <2>2. CASE q # p
    BY <1>3, <1>8, <2>2 DEF MigrationsInv, OpenIsComplete, At
  <2> QED BY <2>1, <2>2
<1>13. ProcessInv'
  BY <1>8, <1>11 DEF ProcessInv
<1> QED BY <1>7, <1>10, <1>12, <1>13 DEF MigrationsInv
-----------------------------------------------------------------------------
(***************************************************************************)
(* RollbackMigration, on a file no one else has open.                      *)
(***************************************************************************)
LEMMA RollbackKeeps == ASSUME MigrationsInv, NEW p \in Process, Rollback(p) PROVE MigrationsInv'
<1>0. TypeOK
  BY DEF MigrationsInv
<1>1. /\ stage[p] \in {"open", "older"} /\ stage' = [stage EXCEPT ![p] = "down"]
      /\ \A q \in Process \ {p} : stage[q] = "closed"
      /\ version' = [version EXCEPT ![p] = Highest(applied)] /\ applied # {}
      /\ rollbacks < MaxRollbacks /\ rollbacks' = rollbacks + 1
      /\ UNCHANGED <<applied, schema, writer, draft, snapshot, crashes>>
  BY DEF Rollback, At, GoTo, file
<1>2. \A q \in Process : stage'[q] = IF q = p THEN "down" ELSE stage[q]
  BY <1>0, <1>1 DEF TypeOK
<1>3. PICK n \in 1..10 : applied = 1..n /\ Highest(applied) = n
  <2>1. PICK n \in 0..10 : applied = 1..n
    BY DEF MigrationsInv, FileInv
  <2>2. n \in 1..10
    BY <1>1, <2>1
  <2> QED BY <2>1, <2>2, NewestVersion
<1>4. version'[p] = n /\ n \in Versions /\ n \in applied /\ \A v \in applied : v <= n
  BY <1>0, <1>1, <1>3 DEF TypeOK, Versions
<1>5. TypeOK'
  <2>1. \A q \in Process : stage'[q] \in InTransaction <=> writer' = q
    BY <1>0, <1>1, <1>2 DEF TypeOK, InTransaction
  <2>2. stage' \in [Process -> Stage] /\ version' \in [Process -> Versions]
    BY <1>0, <1>1, <1>3, <1>4 DEF TypeOK, Stage
  <2>3. rollbacks' \in 0..MaxRollbacks
    BY <1>0, <1>1, BoundAssumption DEF TypeOK
  <2> QED BY <1>0, <1>1, <2>1, <2>2, <2>3 DEF TypeOK
<1>6. FileInv' /\ OpenIsComplete'
  <2>1. FileInv'
    BY <1>1 DEF MigrationsInv, FileInv
  <2>2. OpenIsComplete'
    BY <1>1, <1>2 DEF MigrationsInv, OpenIsComplete, At
  <2> QED BY <2>1, <2>2
<1>7. ASSUME NEW q \in Process PROVE Migrating(q)' /\ RollingBack(q)'
  <2>1. CASE q = p
    <3>1. stage'[q] = "down" /\ \A r \in Process \ {q} : stage'[r] = "closed"
      BY <1>1, <1>2, <2>1
    <3> QED BY <1>1, <1>4, <2>1, <3>1 DEF Migrating, RollingBack
  <2>2. CASE q # p
    BY <1>1, <1>2, <2>2 DEF Migrating, RollingBack
  <2> QED BY <2>1, <2>2
<1>8. ProcessInv'
  BY <1>7 DEF ProcessInv
<1> QED BY <1>5, <1>6, <1>8 DEF MigrationsInv

LEMMA DownKeeps == ASSUME MigrationsInv, NEW p \in Process, Down(p) PROVE MigrationsInv'
<1>0. TypeOK
  BY DEF MigrationsInv
<1>1. /\ stage[p] = "down" /\ stage' = [stage EXCEPT ![p] = "forget"]
      /\ writer = None /\ writer' = p /\ draft' = RunDown(version[p], schema)
      /\ UNCHANGED <<applied, schema, snapshot, version, crashes, rollbacks>>
  BY DEF Down, At, Script, Shown, GoTo, bounds
<1>2. \A q \in Process : stage'[q] = IF q = p THEN "forget" ELSE stage[q]
  BY <1>0, <1>1 DEF TypeOK
<1>3. \A q \in Process \ {p} : stage'[q] = "closed"
  BY <1>1, <1>2 DEF MigrationsInv, ProcessInv, RollingBack
<1>4. TypeOK'
  <2>1. draft' \subseteq Objects
    BY <1>0, <1>1, ScriptsAreTyped DEF TypeOK
  <2>2. \A q \in Process : stage'[q] \in InTransaction <=> writer' = q
    BY <1>1, <1>2, <1>3 DEF InTransaction
  <2>3. stage' \in [Process -> Stage]
    BY <1>0, <1>1 DEF TypeOK, Stage, InTransaction
  <2> QED BY <1>0, <1>1, <2>1, <2>2, <2>3 DEF TypeOK
<1>5. FileInv' /\ OpenIsComplete'
  <2>1. FileInv'
    BY <1>1 DEF MigrationsInv, FileInv
  <2>2. OpenIsComplete'
    BY <1>1, <1>2 DEF MigrationsInv, OpenIsComplete, At
  <2> QED BY <2>1, <2>2
<1>6. ASSUME NEW q \in Process PROVE Migrating(q)' /\ RollingBack(q)'
  <2>1. CASE q = p
    <3>1. RollingBack(p)
      BY DEF MigrationsInv, ProcessInv
    <3> QED BY <1>1, <1>2, <1>3, <2>1, <3>1 DEF Migrating, RollingBack
  <2>2. CASE q # p
    BY <1>3, <2>2 DEF Migrating, RollingBack
  <2> QED BY <2>1, <2>2
<1>7. ProcessInv'
  BY <1>6 DEF ProcessInv
<1> QED BY <1>4, <1>5, <1>7 DEF MigrationsInv

LEMMA CommitDownKeeps ==
  ASSUME MigrationsInv, NEW p \in Process, CommitDown(p) PROVE MigrationsInv'
<1>0. TypeOK
  BY DEF MigrationsInv
<1>1. /\ stage[p] = "forget" /\ stage' = [stage EXCEPT ![p] = "older"]
      /\ applied' = applied \ {version[p]} /\ schema' = draft /\ writer' = None /\ draft' = {}
      /\ UNCHANGED <<snapshot, version, crashes, rollbacks>>
  BY DEF CommitDown, Commit, At, GoTo, bounds
<1>2. \A q \in Process : stage'[q] = IF q = p THEN "older" ELSE stage[q]
  BY <1>0, <1>1 DEF TypeOK
<1>3. /\ \A q \in Process \ {p} : stage'[q] = "closed"
      /\ version[p] \in applied /\ \A v \in applied : v <= version[p]
      /\ draft = RunDown(version[p], schema)
  BY <1>1, <1>2 DEF MigrationsInv, ProcessInv, RollingBack
<1>4. PICK n \in 0..10 : applied = 1..n /\ schema = SchemaOf(1..n)
  BY DEF MigrationsInv, FileInv
<1>5. version[p] = n /\ n \in 1..10
  <2>1. version[p] \in 1..n /\ n \in 1..n
    BY <1>3, <1>4
  <2> QED BY <1>3, <1>4, <2>1
<1>6. applied' = 1..(n - 1) /\ n - 1 \in 0..10
  BY <1>1, <1>4, <1>5
<1>7. schema' = SchemaOf(1..(n - 1))
  BY <1>1, <1>3, <1>4, <1>5, DownOne
<1>8. FileInv'
  BY <1>6, <1>7 DEF FileInv
<1>9. TypeOK'
  <2>1. \A q \in Process : stage'[q] \in InTransaction <=> writer' = q
    BY <1>1, <1>2, <1>3, NoneAssumption DEF InTransaction
  <2>2. stage' \in [Process -> Stage]
    BY <1>0, <1>1 DEF TypeOK, Stage
  <2>3. applied' \subseteq Versions /\ schema' \subseteq Objects
    BY <1>0, <1>1, <1>7, SchemaIsTyped DEF TypeOK
  <2> QED BY <1>0, <1>1, <2>1, <2>2, <2>3 DEF TypeOK
<1>10. \A q \in Process : stage'[q] \in {"older", "closed"}
  BY <1>2, <1>3
<1>11. ProcessInv' /\ OpenIsComplete'
  BY <1>10 DEF ProcessInv, Migrating, RollingBack, OpenIsComplete, At
<1> QED BY <1>8, <1>9, <1>11 DEF MigrationsInv
-----------------------------------------------------------------------------
LEMMA MigrationsInvStep == MigrationsInv /\ [Next]_vars => MigrationsInv'
<1> SUFFICES ASSUME MigrationsInv, [Next]_vars PROVE MigrationsInv'
  OBVIOUS
<1>0. /\ crashes \in 0..MaxCrashes /\ rollbacks \in 0..MaxRollbacks
      /\ MaxCrashes \in Nat /\ MaxRollbacks \in Nat
  BY BoundAssumption DEF MigrationsInv, TypeOK
<1>1. ASSUME NEW p \in Process, UpFails(p) \/ RecordFails(p) \/ Busy(p) \/ Close(p)
      PROVE  MigrationsInv'
  BY <1>0, <1>1, GiveUpKeeps DEF UpFails, RecordFails, Busy, Close, bounds
<1>2. ASSUME NEW p \in Process, Crash(p) PROVE MigrationsInv'
  <2>1. crashes' \in 0..MaxCrashes /\ rollbacks' = rollbacks
    BY <1>0, <1>2 DEF Crash
  <2> QED BY <1>0, <1>2, <2>1, GiveUpKeeps DEF Crash
<1>3. ASSUME NEW p \in Process, Open(p) PROVE MigrationsInv'
  BY <1>3, OpenKeeps
<1>4. ASSUME NEW p \in Process, Read(p) PROVE MigrationsInv'
  BY <1>4, ReadKeeps
<1>5. ASSUME NEW p \in Process, Up(p) PROVE MigrationsInv'
  BY <1>5, UpKeeps
<1>6. ASSUME NEW p \in Process, Record(p) PROVE MigrationsInv'
  BY <1>6, RecordKeeps
<1>7. ASSUME NEW p \in Process, CommitUp(p) PROVE MigrationsInv'
  BY <1>7, CommitUpKeeps
<1>8. ASSUME NEW p \in Process, Rollback(p) \/ Down(p) \/ CommitDown(p) PROVE MigrationsInv'
  BY <1>8, RollbackKeeps, DownKeeps, CommitDownKeeps
<1>9. CASE UNCHANGED vars
  BY <1>9 DEF vars, file, bounds, MigrationsInv, TypeOK, FileInv, ProcessInv, Migrating,
              RollingBack, OpenIsComplete, At
<1> QED BY <1>1, <1>2, <1>3, <1>4, <1>5, <1>6, <1>7, <1>8, <1>9 DEF Next, Migrate

LEMMA MigrationsInvHolds == Spec => []MigrationsInv
<1>1. Init => MigrationsInv
  BY InitMigrationsInv
<1>2. MigrationsInv /\ [Next]_vars => MigrationsInv'
  BY MigrationsInvStep
<1> QED BY <1>1, <1>2, PTL DEF Spec

(* Every variable keeps its type, and the write lock is with the process    *)
(* that is in a transaction.                                                *)
THEOREM MigrationTypesHold == Spec => []TypeOK
<1>1. MigrationsInv => TypeOK
  BY DEF MigrationsInv
<1> QED BY <1>1, MigrationsInvHolds, PTL

(* schema_versions is 1..n without a gap and the schema is what these       *)
(* migrations make, whatever processes race, fail, crash and roll back.     *)
THEOREM TheRecordNeverLies == Spec => []RecordMatchesSchema
<1>1. MigrationsInv => RecordMatchesSchema
  <2> SUFFICES ASSUME MigrationsInv PROVE RecordMatchesSchema
    OBVIOUS
  <2>1. PICK n \in 0..10 : applied = 1..n /\ schema = SchemaOf(1..n)
    BY DEF MigrationsInv, FileInv
  <2>2. Cardinality(1..n) = n
    <3>1. Cardinality(1..n) = IF 1 > n THEN 0 ELSE n - 1 + 1
      BY FS_Interval
    <3> QED BY <3>1
  <2> QED BY <2>1, <2>2 DEF RecordMatchesSchema
<1> QED BY <1>1, MigrationsInvHolds, PTL

(* A store that Open returned has the newest schema as long as it is open   *)
(* and its holder does not roll back.                                       *)
THEOREM OpenedIsComplete == Spec => []OpenIsComplete
<1>1. MigrationsInv => OpenIsComplete
  BY DEF MigrationsInv
<1> QED BY <1>1, MigrationsInvHolds, PTL
=============================================================================
