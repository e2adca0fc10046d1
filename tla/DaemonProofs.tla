---------------------------- MODULE DaemonProofs ----------------------------
(***************************************************************************)
(* The safety invariants of Daemon, for any number of notes, requests,     *)
(* rows and starts, and whatever fails, times out or crashes.              *)
(***************************************************************************)
EXTENDS Daemon, QueueTableProofs

(* Ids identify rows, and no row is further back than it has to be. *)
RowsInv ==
  /\ \A r \in queue : r.id < nextId /\ r.position < nextId
  /\ \A r, s \in queue : r.id = s.id => r = s

(* The worker's entry is a row that is being processed. *)
Holds(r) == r.id = entry.id /\ r.path = entry.path /\ r.status = "processing"
HeldInv == entry # None => \E r \in queue : Holds(r)

(* The event log follows the worker: nothing is logged before it was        *)
(* dequeued, and what the worker is about to log or to remove is in the log *)
(* not at all or once.                                                      *)
LogInv ==
  /\ \A i \in 1..MaxId : processed[i] <= 1 /\ (processed[i] > 0 => i < nextId)
  /\ \A r \in Pending(queue) : processed[r.id] = 0
  /\ worker = "append" => processed[entry.id] = 0
  /\ worker = "remove" => processed[entry.id] = 1 /\ entry.saw <= done[entry.path]
  /\ GoneIsLogged

(* Save n of p is processed, or seen by the worker, or waits in a row the   *)
(* worker is not about to remove.                                           *)
Kept(p, n) ==
  \/ n <= done[p]
  \/ entry # None /\ entry.path = p /\ n <= entry.saw
  \/ \E r \in queue : r.path = p /\ (entry # None => r.id # entry.id)

KeptInv ==
  /\ \A p \in Path : acked[p] <= saved[p] /\ Kept(p, acked[p])
  /\ \A s \in Slot : producers[s] # None =>
       /\ producers[s].save <= saved[producers[s].path]
       /\ producers[s].stage = "log" => Kept(producers[s].path, producers[s].save)

(* As long as nothing has failed, the rows being processed are those the    *)
(* process found and the one the worker has.                                *)
StopInv ==
  /\ run = "down" => entry = None
  /\ run # "down" /\ ~failed =>
       \A r \in Processing(queue) : r \in stranded \/ (entry # None /\ r.id = entry.id)
  /\ run = "returned" /\ result = "nil" => ~failed /\ worker = "exited"

DaemonInv == TypeOK /\ RowsInv /\ HeldInv /\ LogInv /\ KeptInv /\ StopInv
-----------------------------------------------------------------------------
LEMMA InitDaemonInv == Init => DaemonInv
<1> SUFFICES ASSUME Init PROVE DaemonInv
  OBVIOUS
<1>1. TypeOK
  <2>1. /\ queue \subseteq Row /\ nextId \in 1..(MaxId + 1)
        /\ processed \in [1..MaxId -> 0..2] /\ starts \in 0..MaxStarts
        /\ stranded \subseteq Row /\ due \subseteq Path
    BY BoundAssumption DEF Init
  <2>2. /\ {saved, acked, done} \subseteq [Path -> 0..MaxSaves]
        /\ producers \in [Slot -> Producer \cup {None}]
    BY BoundAssumption DEF Init
  <2>3. /\ run \in RunStage /\ result \in {None, "nil", "error", "timeout"}
        /\ {cancelled, failed, http, watching, signalled} \subseteq BOOLEAN
        /\ worker \in WorkerStage /\ worker = "exited" /\ entry = None
    BY DEF Init, RunStage, WorkerStage
  <2> QED BY <2>1, <2>2, <2>3 DEF TypeOK
<1>2. RowsInv /\ HeldInv /\ LogInv /\ StopInv
  BY DEF Init, RowsInv, HeldInv, LogInv, GoneIsLogged, StopInv, Pending
<1>3. KeptInv
  BY DEF Init, KeptInv, Kept
<1> QED BY <1>1, <1>2, <1>3 DEF DaemonInv

(* Mtimes are abstracted away, so a coalesced save changes nothing. *)
LEMMA RefreshChangesNothing ==
  ASSUME TypeOK, NEW p PROVE Refresh(queue, p, AnyMtime) = queue
<1>1. \A r \in queue : [r EXCEPT !.mtime = AnyMtime] = r
  BY DEF TypeOK, Row
<1> QED BY <1>1 DEF Refresh

LEMMA NewRowIsTyped ==
  ASSUME TypeOK, RowsInv, NEW p \in Path, nextId <= MaxId
  PROVE  LET n == NewRow(queue, nextId, p, AnyMtime)
         IN  /\ n \in Row /\ n.id = nextId /\ n.path = p /\ n.status = "pending"
             /\ n.position <= nextId
<1>1. MaxId \in Nat /\ nextId \in 1..MaxId
  BY BoundAssumption DEF TypeOK
<1>2. \A r \in queue : r.position \in 0..(nextId - 1)
  BY <1>1 DEF TypeOK, RowsInv, Row
<1>3. NextPosition(queue) \in 1..nextId
  <2>1. nextId - 1 \in Nat
    BY <1>1
  <2>2. NextPosition(queue) \in 1..((nextId - 1) + 1)
    BY <1>2, <2>1, NextPositionIsLast
  <2> QED BY <1>1, <2>2
<1> QED BY <1>1, <1>3 DEF NewRow, Row, Status

(* Every row with the id of the worker's entry is the worker's. *)
LEMMA HeldRow ==
  ASSUME RowsInv, HeldInv, entry # None, NEW r \in queue, r.id = entry.id PROVE Holds(r)
BY DEF RowsInv, HeldInv, Holds

LEMMA ProcessingRowIsTyped ==
  ASSUME NEW r \in Row
  PROVE  LET h == [r EXCEPT !.status = "processing"]
         IN  /\ h \in Row /\ h.id = r.id /\ h.path = r.path /\ h.position = r.position
             /\ h.status = "processing"
BY DEF Row, Status
-----------------------------------------------------------------------------
(***************************************************************************)
(* Types.                                                                  *)
(***************************************************************************)
LEMMA LifecycleTypes ==
  ASSUME TypeOK, StopInv,
         Start \/ Signal \/ GoroutineFails \/ Shutdown \/ Crash
  PROVE  TypeOK'
<1>1. CASE Start
  <2>1. starts' \in 0..MaxStarts /\ run' \in RunStage /\ worker' \in WorkerStage
    BY <1>1, BoundAssumption DEF Start, TypeOK, RunStage, WorkerStage
  <2>2. stranded' \subseteq Row /\ {http', watching'} \subseteq BOOLEAN
    BY <1>1 DEF Start, TypeOK, Processing
  <2>3. entry = None /\ worker' \notin {"append", "remove"}
    BY <1>1 DEF Start, StopInv
  <2> QED BY <1>1, <2>1, <2>2, <2>3 DEF Start, TypeOK, disk
<1>2. CASE Signal
  BY <1>2 DEF Signal, TypeOK, disk
<1>3. CASE GoroutineFails
  BY <1>3 DEF GoroutineFails, TypeOK, disk, history
<1>4. CASE HttpReturns \/ WatcherReturns
  BY <1>4 DEF HttpReturns, WatcherReturns, TypeOK, disk, history
<1>5. CASE RunReturns \/ RunTimesOut
  BY <1>5 DEF RunReturns, RunTimesOut, TypeOK, disk, history, RunStage
<1>6. CASE CloseStore
  BY <1>6 DEF CloseStore, TypeOK, disk, history, RunStage
<1>7. CASE Vanish
  BY <1>7 DEF Vanish, TypeOK, disk, RunStage, WorkerStage
<1> QED BY <1>1, <1>2, <1>3, <1>4, <1>5, <1>6, <1>7 DEF Shutdown, Exit, Crash

LEMMA WorkerTypes ==
  ASSUME TypeOK, LogInv, WorkerStep PROVE TypeOK'
<1>1. CASE WorkerStops \/ WorkerGoesOn \/ WorkerSleeps
  BY <1>1 DEF WorkerStops, WorkerGoesOn, WorkerSleeps, AtLoopTop, Worker, TypeOK,
              disk, lifecycle, history, WorkerStage
<1>2. CASE WorkerDequeues
  <2>1. PICK r \in queue :
          /\ queue' = MarkProcessing(queue, r)
          /\ entry' = [id |-> r.id, path |-> r.path, saw |-> saved[r.path]]
    BY <1>2 DEF WorkerDequeues
  <2>2. queue' \subseteq Row
    BY <2>1, ProcessingRowIsTyped DEF MarkProcessing, TypeOK
  <2>3. entry' \in Entry
    BY <2>1 DEF TypeOK, Row, Entry
  <2>4. worker' = "append" /\ entry' # None
    BY <1>2, <2>3, NoneAssumption DEF WorkerDequeues, Worker, AfterDequeue
  <2>5. UNCHANGED <<nextId, processed, lifecycle, producers, due, history>>
    BY <1>2 DEF WorkerDequeues
  <2> QED BY <2>2, <2>3, <2>4, <2>5 DEF TypeOK, lifecycle, history, WorkerStage
<1>3. CASE WorkerLogs
  <2>1. entry \in Entry /\ worker = "append" /\ worker' = "remove"
    BY <1>3 DEF WorkerLogs, Worker, TypeOK
  <2>2. processed[entry.id] = 0
    BY <2>1 DEF LogInv
  <2>3. processed' \in [1..MaxId -> 0..2]
    <3>1. processed' = [processed EXCEPT ![entry.id] = 1]
      BY <1>3, <2>2, <2>1 DEF WorkerLogs, TypeOK, Entry
    <3>2. processed \in [1..MaxId -> 0..2]
      BY DEF TypeOK
    <3>3. \A i \in 1..MaxId : processed'[i] \in 0..2
      BY <3>1, <3>2
    <3> QED BY <3>1, <3>2, <3>3
  <2>4. done' \in [Path -> 0..MaxSaves]
    <3>1. entry.saw \in 0..MaxSaves
      BY <2>1 DEF Entry
    <3> QED BY <1>3, <3>1 DEF WorkerLogs, TypeOK
  <2>5. UNCHANGED <<queue, nextId, lifecycle, entry, producers, due, saved, acked, signalled, stranded>>
    BY <1>3 DEF WorkerLogs
  <2> QED BY <2>1, <2>3, <2>4, <2>5 DEF TypeOK, lifecycle, WorkerStage
<1>4. CASE WorkerRemoves
  BY <1>4 DEF WorkerRemoves, Worker, DeleteId, TypeOK, lifecycle, history, WorkerStage
<1>5. CASE WorkerFails
  BY <1>5 DEF WorkerFails, TypeOK, disk, history, WorkerStage
<1> QED BY <1>1, <1>2, <1>3, <1>4, <1>5 DEF WorkerStep

LEMMA BeginTypes ==
  ASSUME TypeOK, NEW s \in Slot, NEW by \in {"http", "timer"}, NEW p \in Path, Begin(s, by, p)
  PROVE  producers' \in [Slot -> Producer \cup {None}]
<1> DEFINE x == [by |-> by, path |-> p, stage |-> "enqueue",
                 save |-> IF by = "http" THEN saved[p] ELSE 0]
<1>1. x \in Producer
  BY BoundAssumption DEF TypeOK, Producer
<1>2. producers' = [producers EXCEPT ![s] = x]
  BY DEF Begin
<1> HIDE DEF x
<1> QED BY <1>1, <1>2 DEF TypeOK

LEMMA EditorTypes ==
  ASSUME TypeOK, NEW p \in Path, Save(p) \/ Request(p) \/ TimerFires(p) PROVE TypeOK'
<1>1. CASE Save(p)
  <2>1. saved' \in [Path -> 0..MaxSaves]
    <3>1. saved[p] + 1 \in 0..MaxSaves /\ saved' = [saved EXCEPT ![p] = saved[p] + 1]
      BY <1>1, BoundAssumption DEF Save, TypeOK
    <3> QED BY <3>1 DEF TypeOK
  <2> QED BY <1>1, <2>1 DEF Save, TypeOK, disk, lifecycle
<1>2. CASE Request(p)
  BY <1>2, BeginTypes DEF Request, TypeOK, disk, lifecycle, history
<1>3. CASE TimerFires(p)
  BY <1>3, BeginTypes DEF TimerFires, TypeOK, disk, lifecycle, history
<1> QED BY <1>1, <1>2, <1>3

(* What an Enqueue does to the table: nothing, or one row more. *)
LEMMA Enqueued ==
  ASSUME TypeOK, RowsInv, NEW s \in Slot, ProducerEnqueues(s)
  PROVE  /\ producers[s] \in Producer /\ producers[s].stage = "enqueue"
         /\ \/ /\ queue' = queue /\ nextId' = nextId
               /\ \E r \in Pending(queue) : r.path = producers[s].path
            \/ \E n \in Row :
                 /\ nextId <= MaxId /\ queue' = queue \cup {n} /\ nextId' = nextId + 1
                 /\ n.id = nextId /\ n.path = producers[s].path /\ n.status = "pending"
                 /\ n.position <= nextId
<1>1. producers[s] \in Producer /\ producers[s].stage = "enqueue"
  BY DEF ProducerEnqueues, AtEnqueue, TypeOK
<1>2. producers[s].path \in Path
  BY <1>1 DEF Producer
<1> QED BY <1>1, <1>2, RefreshChangesNothing, NewRowIsTyped DEF ProducerEnqueues, PendingPaths

LEMMA ProducerTypes ==
  ASSUME TypeOK, RowsInv, KeptInv, NEW s \in Slot, ProducerStep(s) PROVE TypeOK'
<1>1. CASE ProducerEnqueues(s)
  <2>1. queue' \subseteq Row /\ nextId' \in 1..(MaxId + 1)
    BY <1>1, Enqueued, BoundAssumption DEF TypeOK
  <2>2. producers' \in [Slot -> Producer \cup {None}]
    <3> DEFINE x == [producers[s] EXCEPT !.stage = "log"]
    <3>1. x \in Producer
      BY <1>1, Enqueued DEF Producer
    <3>2. producers' = [producers EXCEPT ![s] = IF producers[s].by = "http" THEN x ELSE None]
      BY <1>1 DEF ProducerEnqueues, TypeOK
    <3> HIDE DEF x
    <3> QED BY <3>1, <3>2 DEF TypeOK
  <2>3. UNCHANGED <<processed, lifecycle, worker, entry, due, history>>
    BY <1>1 DEF ProducerEnqueues
  <2> QED BY <2>1, <2>2, <2>3 DEF TypeOK, lifecycle, history
<1>2. CASE ProducerFails(s)
  BY <1>2 DEF ProducerFails, TypeOK, disk, lifecycle, history
<1>3. CASE ProducerFinishes(s)
  <2>1. producers[s] \in Producer
    BY <1>3 DEF ProducerFinishes, TypeOK
  <2>2. acked' \in [Path -> 0..MaxSaves]
    BY <1>3, <2>1 DEF ProducerFinishes, Acknowledge, TypeOK, Producer
  <2>3. producers' \in [Slot -> Producer \cup {None}]
    BY <1>3 DEF ProducerFinishes, TypeOK
  <2>4. UNCHANGED <<disk, lifecycle, worker, entry, due, saved, done, signalled, stranded>>
    BY <1>3 DEF ProducerFinishes
  <2> QED BY <2>2, <2>3, <2>4 DEF TypeOK, disk, lifecycle
<1> QED BY <1>1, <1>2, <1>3 DEF ProducerStep

LEMMA TypesStep == ASSUME DaemonInv, [Next]_vars PROVE TypeOK'
<1>1. CASE UNCHANGED vars
  BY <1>1 DEF vars, disk, lifecycle, history, DaemonInv, TypeOK
<1>2. CASE Next
  BY <1>2, LifecycleTypes, WorkerTypes, EditorTypes, ProducerTypes DEF Next, DaemonInv
<1> QED BY <1>1, <1>2
-----------------------------------------------------------------------------
(***************************************************************************)
(* The table, the worker's entry and the event log.                        *)
(***************************************************************************)
TableInv == RowsInv /\ HeldInv /\ LogInv

(* Steps that touch none of them. *)
LEMMA ElsewhereKeepsTable ==
  ASSUME TableInv,
         UNCHANGED <<queue, nextId, processed, entry, done>>,
         worker' = worker \/ worker' \notin {"append", "remove"}
  PROVE  TableInv'
<1>1. RowsInv' /\ HeldInv'
  BY DEF TableInv, RowsInv, HeldInv, Holds
<1>2. LogInv'
  BY DEF TableInv, LogInv, GoneIsLogged, Pending
<1> QED BY <1>1, <1>2 DEF TableInv

(* The process ends, or the worker does: what it has is forgotten. *)
LEMMA ForgettingKeepsTable ==
  ASSUME TableInv, UNCHANGED <<queue, nextId, processed, done>>,
         entry' = None, worker' = "exited"
  PROVE  TableInv'
<1>1. RowsInv' /\ HeldInv'
  BY DEF TableInv, RowsInv, HeldInv
<1>2. LogInv'
  BY DEF TableInv, LogInv, GoneIsLogged, Pending
<1> QED BY <1>1, <1>2 DEF TableInv

LEMMA DequeueKeepsTable == ASSUME TypeOK, TableInv, WorkerDequeues PROVE TableInv'
<1>1. PICK r \in Pending(queue) :
        /\ queue' = MarkProcessing(queue, r)
        /\ entry' = [id |-> r.id, path |-> r.path, saw |-> saved[r.path]]
  BY DEF WorkerDequeues, IsFront
<1>2. UNCHANGED <<nextId, processed, done>> /\ worker' = "append"
  BY DEF WorkerDequeues, Worker, AfterDequeue, history
<1> DEFINE h == [r EXCEPT !.status = "processing"]
<1>3. r \in queue /\ r.status = "pending" /\ queue' = (queue \ {r}) \cup {h}
  BY <1>1 DEF MarkProcessing, Pending
<1>4. h.id = r.id /\ h.path = r.path /\ h.position = r.position /\ h.status = "processing"
  BY <1>3, ProcessingRowIsTyped DEF TypeOK
<1> HIDE DEF h
<1>5. RowsInv'
  BY <1>2, <1>3, <1>4 DEF TableInv, RowsInv
<1>6. HeldInv'
  BY <1>1, <1>3, <1>4 DEF HeldInv, Holds
<1>7. LogInv'
  <2>1. processed[entry'.id] = 0
    BY <1>1 DEF TableInv, LogInv
  <2>2. Pending(queue)' \subseteq Pending(queue)
    BY <1>3, <1>4 DEF Pending
  <2>3. GoneIsLogged'
    BY <1>2, <1>3, <1>4 DEF TableInv, LogInv, GoneIsLogged
  <2> QED BY <1>2, <2>1, <2>2, <2>3 DEF TableInv, LogInv
<1> QED BY <1>5, <1>6, <1>7 DEF TableInv

(* The rows that wait are not the worker's: their log stays empty. *)
LEMMA LogKeepsTable == ASSUME TypeOK, TableInv, WorkerLogs PROVE TableInv'
<1>1. /\ worker = "append" /\ worker' = "remove"
      /\ UNCHANGED <<queue, nextId, entry>>
      /\ processed' = [processed EXCEPT ![entry.id] = processed[entry.id] + 1]
      /\ done' = [done EXCEPT ![entry.path] = IF @ < entry.saw THEN entry.saw ELSE @]
  BY DEF WorkerLogs, Worker
<1>2. entry # None /\ entry \in Entry
  BY <1>1 DEF TypeOK
<1>3. entry.id \in 1..MaxId /\ entry.path \in Path /\ entry.saw \in 0..MaxSaves
  BY <1>2 DEF Entry
<1>4. processed \in [1..MaxId -> 0..2] /\ done \in [Path -> 0..MaxSaves] /\ nextId \in 1..(MaxId + 1)
  BY DEF TypeOK
<1>5. processed[entry.id] = 0
  BY <1>1 DEF TableInv, LogInv
<1>6. \A i \in 1..MaxId : processed'[i] = IF i = entry.id THEN 1 ELSE processed[i]
  BY <1>1, <1>3, <1>4, <1>5
<1>7. RowsInv' /\ HeldInv'
  BY <1>1 DEF TableInv, RowsInv, HeldInv, Holds
<1>8. entry.id < nextId
  BY <1>2 DEF TableInv, HeldInv, RowsInv, Holds
<1>9. ASSUME NEW r \in Pending(queue) PROVE processed'[r.id] = 0
  <2>1. r \in queue /\ r.status = "pending" /\ r.id \in 1..MaxId
    BY DEF Pending, TypeOK, Row
  <2>2. r.id # entry.id
    BY <1>2, <2>1, HeldRow DEF TableInv, Holds
  <2> QED BY <1>6, <2>1, <2>2 DEF TableInv, LogInv
<1>10. entry.saw <= done'[entry.path]
  <2>1. done'[entry.path] = IF done[entry.path] < entry.saw THEN entry.saw ELSE done[entry.path]
    BY <1>1, <1>3, <1>4
  <2>2. done[entry.path] \in 0..MaxSaves
    BY <1>3, <1>4
  <2> QED BY <1>3, <2>1, <2>2
<1>11. GoneIsLogged'
  <2>1. \A i \in 1..(nextId - 1) : i \in 1..MaxId
    BY <1>4, BoundAssumption
  <2> QED BY <1>1, <1>6, <2>1 DEF TableInv, LogInv, GoneIsLogged
<1>12. \A i \in 1..MaxId : processed'[i] <= 1 /\ (processed'[i] > 0 => i < nextId)
  BY <1>6, <1>8 DEF TableInv, LogInv
<1>13. LogInv'
  <2>1. Pending(queue)' = Pending(queue)
    BY <1>1 DEF Pending
  <2>2. processed'[entry.id] = 1
    BY <1>3, <1>6
  <2> QED BY <1>1, <1>9, <1>10, <1>11, <1>12, <2>1, <2>2 DEF LogInv
<1> QED BY <1>7, <1>13 DEF TableInv

LEMMA RemoveKeepsTable == ASSUME TypeOK, TableInv, WorkerRemoves PROVE TableInv'
<1>1. /\ worker = "remove" /\ worker' = "top" /\ entry' = None
      /\ UNCHANGED <<nextId, processed, done>>
      /\ queue' = {r \in queue : r.id # entry.id}
  BY DEF WorkerRemoves, Worker, DeleteId, history
<1>2. RowsInv' /\ HeldInv'
  BY <1>1 DEF TableInv, RowsInv, HeldInv
<1>3. processed[entry.id] = 1
  BY <1>1 DEF TableInv, LogInv
<1>4. GoneIsLogged'
  <2> SUFFICES ASSUME NEW i \in 1..(nextId - 1), \A r \in queue' : r.id # i PROVE processed[i] > 0
    BY <1>1 DEF GoneIsLogged
  <2>1. CASE i = entry.id
    BY <1>3, <2>1
  <2>2. CASE i # entry.id
    BY <1>1, <2>2 DEF TableInv, LogInv, GoneIsLogged
  <2> QED BY <2>1, <2>2
<1>5. LogInv'
  BY <1>1, <1>4 DEF TableInv, LogInv, Pending
<1> QED BY <1>2, <1>5 DEF TableInv

(* A new row has an id nobody had. *)
LEMMA EnqueueKeepsTable ==
  ASSUME TypeOK, TableInv, NEW s \in Slot, ProducerEnqueues(s) PROVE TableInv'
<1>1. UNCHANGED <<processed, worker, entry, done>>
  BY DEF ProducerEnqueues, history
<1>2. CASE queue' = queue /\ nextId' = nextId
  BY <1>1, <1>2, ElsewhereKeepsTable
<1>3. ASSUME NEW n \in Row, nextId <= MaxId, queue' = queue \cup {n}, nextId' = nextId + 1,
             n.id = nextId, n.status = "pending", n.position <= nextId
      PROVE  TableInv'
  <2>1. nextId \in 1..MaxId /\ n.position \in 1..MaxId /\ processed \in [1..MaxId -> 0..2]
    BY <1>3 DEF TypeOK, Row
  <2>2. \A r \in queue : r.id \in 1..MaxId /\ r.position \in 1..MaxId
    BY DEF TypeOK, Row
  <2>3. \A r \in queue : r.id < nextId /\ r.position < nextId
    BY DEF TableInv, RowsInv
  <2>4. RowsInv'
    <3>1. \A r \in queue' : r.id < nextId' /\ r.position < nextId'
      BY <1>3, <2>1, <2>2, <2>3
    <3>2. \A r \in queue : r.id # n.id
      BY <1>3, <2>1, <2>2, <2>3
    <3> QED BY <1>3, <3>1, <3>2 DEF TableInv, RowsInv
  <2>5. HeldInv'
    BY <1>1, <1>3 DEF TableInv, HeldInv, Holds
  <2>6. processed[nextId] = 0
    BY <2>1 DEF TableInv, LogInv
  <2>7. GoneIsLogged'
    <3> SUFFICES ASSUME NEW i \in 1..(nextId' - 1), \A r \in queue' : r.id # i PROVE processed[i] > 0
      BY <1>1 DEF GoneIsLogged
    <3>1. i \in 1..(nextId - 1) /\ \A r \in queue : r.id # i
      BY <1>3, <2>1
    <3> QED BY <3>1 DEF TableInv, LogInv, GoneIsLogged
  <2>8. \A r \in Pending(queue)' : processed[r.id] = 0
    BY <1>3, <2>6 DEF TableInv, LogInv, Pending
  <2>9. \A i \in 1..MaxId : processed[i] <= 1 /\ (processed[i] > 0 => i < nextId')
    BY <1>3, <2>1 DEF TableInv, LogInv
  <2>10. LogInv'
    BY <1>1, <2>7, <2>8, <2>9 DEF TableInv, LogInv
  <2> QED BY <2>4, <2>5, <2>10 DEF TableInv
<1> QED BY <1>2, <1>3, Enqueued DEF TableInv

(* The steps that leave the table, the log and the entry alone. *)
Aside ==
  \/ Start \/ Signal \/ GoroutineFails
  \/ HttpReturns \/ WatcherReturns \/ RunReturns \/ RunTimesOut \/ CloseStore
  \/ WorkerStops \/ WorkerGoesOn \/ WorkerSleeps
  \/ \E p \in Path : Save(p) \/ Request(p) \/ TimerFires(p)
  \/ \E s \in Slot : ProducerFails(s) \/ ProducerFinishes(s)
  \/ UNCHANGED vars

LEMMA AsideIsAside ==
  ASSUME Aside
  PROVE  /\ UNCHANGED <<queue, nextId, processed, entry, done>>
         /\ worker' = worker \/ worker' \notin {"append", "remove"}
<1>1. CASE Start \/ Signal \/ GoroutineFails
  BY <1>1 DEF Start, Signal, GoroutineFails, disk, history
<1>2. CASE HttpReturns \/ WatcherReturns \/ RunReturns \/ RunTimesOut \/ CloseStore
  BY <1>2 DEF HttpReturns, WatcherReturns, RunReturns, RunTimesOut, CloseStore, disk, history
<1>3. CASE WorkerStops \/ WorkerGoesOn \/ WorkerSleeps
  BY <1>3 DEF WorkerStops, WorkerGoesOn, WorkerSleeps, Worker, disk, history
<1>4. ASSUME NEW p \in Path, Save(p) \/ Request(p) \/ TimerFires(p)
      PROVE  UNCHANGED <<queue, nextId, processed, entry, done, worker>>
  BY <1>4 DEF Save, Request, TimerFires, disk, history
<1>5. ASSUME NEW s \in Slot, ProducerFails(s) \/ ProducerFinishes(s)
      PROVE  UNCHANGED <<queue, nextId, processed, entry, done, worker>>
  BY <1>5 DEF ProducerFails, ProducerFinishes, disk, history
<1>6. CASE UNCHANGED vars
  BY <1>6 DEF vars, disk, history
<1> QED BY <1>1, <1>2, <1>3, <1>4, <1>5, <1>6 DEF Aside

(* Every step is one of those, or one that was looked at above. *)
LEMMA StepCases ==
  ASSUME [Next]_vars
  PROVE  \/ Aside \/ WorkerDequeues \/ WorkerLogs \/ WorkerRemoves \/ WorkerFails \/ Vanish
         \/ \E s \in Slot : ProducerEnqueues(s)
BY DEF Next, Aside, Shutdown, Exit, Crash, WorkerStep, ProducerStep

LEMMA TableStep == ASSUME TypeOK, TableInv, [Next]_vars PROVE TableInv'
<1>1. CASE Aside
  BY <1>1, AsideIsAside, ElsewhereKeepsTable
<1>2. CASE WorkerDequeues \/ WorkerLogs \/ WorkerRemoves
  BY <1>2, DequeueKeepsTable, LogKeepsTable, RemoveKeepsTable
<1>3. CASE WorkerFails
  BY <1>3, ForgettingKeepsTable DEF WorkerFails, disk, history
<1>4. CASE Vanish
  BY <1>4, ForgettingKeepsTable DEF Vanish, disk
<1>5. ASSUME NEW s \in Slot, ProducerEnqueues(s) PROVE TableInv'
  BY <1>5, EnqueueKeepsTable
<1> QED BY <1>1, <1>2, <1>3, <1>4, <1>5, StepCases
-----------------------------------------------------------------------------
(***************************************************************************)
(* What is acknowledged is kept.                                           *)
(***************************************************************************)

(* Kept in the next state, of a path and a save of this one. *)
StillKept(p, n) ==
  \/ n <= done'[p]
  \/ entry' # None /\ entry'.path = p /\ n <= entry'.saw
  \/ \E r \in queue' : r.path = p /\ (entry' # None => r.id # entry'.id)

(* A save passes from a row to the worker and from there to the log, or     *)
(* falls back to the row when the worker ends.                              *)
LEMMA KeptStaysKept ==
  ASSUME TypeOK, TableInv, [Next]_vars, NEW p \in Path, NEW n \in 0..saved[p], Kept(p, n)
  PROVE  StillKept(p, n)
<1>1. CASE Aside
  <2>1. UNCHANGED <<queue, entry, done>>
    BY <1>1, AsideIsAside
  <2> QED BY <2>1 DEF Kept, StillKept
<1>2. CASE WorkerDequeues
  <2>1. PICK r \in queue :
          /\ queue' = MarkProcessing(queue, r)
          /\ entry' = [id |-> r.id, path |-> r.path, saw |-> saved[r.path]]
    BY <1>2 DEF WorkerDequeues
  <2>2. entry = None /\ done' = done
    BY <1>2 DEF WorkerDequeues, Worker, TypeOK, history
  <2>3. entry' \in Entry /\ entry'.id = r.id /\ entry'.path = r.path /\ entry'.saw = saved[r.path]
    BY <2>1 DEF TypeOK, Row, Entry
  <2>4. entry' # None
    BY <2>3, NoneAssumption
  <2>5. CASE n <= done[p]
    BY <2>2, <2>5 DEF Kept, StillKept
  <2>6. ASSUME NEW x \in queue, x.path = p PROVE StillKept(p, n)
    <3>1. CASE x = r
      BY <2>3, <2>4, <2>6, <3>1 DEF Kept, StillKept
    <3>2. CASE x # r
      <4>1. x \in queue' /\ x.id # r.id
        BY <2>1, <2>6, <3>2 DEF MarkProcessing, TableInv, RowsInv
      <4> QED BY <2>3, <2>6, <4>1 DEF Kept, StillKept
    <3> QED BY <3>1, <3>2
  <2> QED BY <2>2, <2>5, <2>6 DEF Kept, StillKept
<1>3. CASE WorkerLogs
  <2>1. /\ UNCHANGED <<queue, entry>> /\ entry \in Entry
        /\ done' = [done EXCEPT ![entry.path] = IF @ < entry.saw THEN entry.saw ELSE @]
    BY <1>3 DEF WorkerLogs, Worker, TypeOK
  <2>2. entry.saw \in Nat /\ done \in [Path -> 0..MaxSaves]
    BY <2>1 DEF Entry, TypeOK
  <2>3. done[p] <= done'[p] /\ done'[p] \in Nat /\ done[p] \in Nat
    BY <2>1, <2>2
  <2>4. entry.path = p => entry.saw <= done'[p]
    BY <2>1, <2>2
  <2> QED BY <2>1, <2>2, <2>3, <2>4 DEF Kept, StillKept
<1>4. CASE WorkerRemoves
  <2>1. /\ worker = "remove" /\ entry' = None /\ done' = done
        /\ queue' = {r \in queue : r.id # entry.id}
    BY <1>4 DEF WorkerRemoves, Worker, DeleteId, history
  <2>2. entry # None /\ entry \in Entry /\ entry.saw <= done[entry.path]
    BY <2>1 DEF TypeOK, TableInv, LogInv
  <2>3. entry.saw \in Nat /\ done[p] \in Nat
    BY <2>2 DEF Entry, TypeOK
  <2>4. CASE n <= done[p]
    BY <2>1, <2>4 DEF Kept, StillKept
  <2>5. CASE entry.path = p /\ n <= entry.saw
    BY <2>1, <2>2, <2>3, <2>5 DEF Kept, StillKept
  <2>6. ASSUME NEW r \in queue, r.path = p, r.id # entry.id PROVE StillKept(p, n)
    BY <2>1, <2>6 DEF Kept, StillKept
  <2> QED BY <2>2, <2>4, <2>5, <2>6 DEF Kept, StillKept
<1>5. CASE WorkerFails \/ Vanish
  <2>1. entry' = None /\ UNCHANGED <<queue, done>>
    BY <1>5 DEF WorkerFails, Vanish, disk, history
  <2>2. entry # None => \E r \in queue : r.path = entry.path
    BY DEF TableInv, HeldInv, Holds
  <2> QED BY <2>1, <2>2 DEF Kept, StillKept
<1>6. ASSUME NEW s \in Slot, ProducerEnqueues(s) PROVE StillKept(p, n)
  <2>1. UNCHANGED <<entry, done>>
    BY <1>6 DEF ProducerEnqueues, history
  <2>2. queue \subseteq queue'
    BY <1>6, Enqueued DEF TableInv
  <2> QED BY <2>1, <2>2 DEF Kept, StillKept
<1> QED BY <1>1, <1>2, <1>3, <1>4, <1>5, <1>6, StepCases

(* After an Enqueue the path has a row that is not the worker's. *)
LEMMA EnqueuedIsKept ==
  ASSUME TypeOK, TableInv, NEW s \in Slot, ProducerEnqueues(s), NEW n
  PROVE  StillKept(producers[s].path, n)
<1>1. entry' = entry
  BY DEF ProducerEnqueues
<1>2. CASE /\ queue' = queue
           /\ \E r \in Pending(queue) : r.path = producers[s].path
  <2>1. PICK r \in queue : r.path = producers[s].path /\ r.status = "pending"
    BY <1>2 DEF Pending
  <2>2. entry # None => r.id # entry.id
    BY <2>1, HeldRow DEF TableInv, Holds
  <2> QED BY <1>1, <1>2, <2>1, <2>2 DEF Kept, StillKept
<1>3. ASSUME NEW x \in Row, queue' = queue \cup {x}, x.id = nextId, x.path = producers[s].path
      PROVE  StillKept(producers[s].path, n)
  <2>1. entry # None => entry.id < nextId /\ entry.id \in Nat /\ nextId \in Nat
    BY DEF TableInv, HeldInv, RowsInv, Holds, TypeOK, Entry
  <2>2. entry # None => x.id # entry.id
    BY <1>3, <2>1
  <2> QED BY <1>1, <1>3, <2>2 DEF Kept, StillKept
<1> QED BY <1>2, <1>3, Enqueued DEF TableInv

LEMMA KeptStep == ASSUME TypeOK, TableInv, KeptInv, [Next]_vars PROVE KeptInv'
<1>0. /\ acked \in [Path -> 0..MaxSaves] /\ saved \in [Path -> 0..MaxSaves]
      /\ producers \in [Slot -> Producer \cup {None}]
  BY DEF TypeOK
<1>1. \A p \in Path, n \in 0..MaxSaves : n <= saved[p] /\ Kept(p, n) => StillKept(p, n)
  <2> SUFFICES ASSUME NEW p \in Path, NEW n \in 0..MaxSaves, n <= saved[p], Kept(p, n)
               PROVE  StillKept(p, n)
    OBVIOUS
  <2>1. n \in 0..saved[p]
    BY <1>0
  <2> QED BY <2>1, KeptStaysKept
<1>2. \A p \in Path : acked[p] <= saved[p] /\ StillKept(p, acked[p])
  BY <1>0, <1>1 DEF KeptInv
<1>3. \A s \in Slot : producers[s] # None =>
        /\ producers[s].path \in Path /\ producers[s].save \in 0..MaxSaves
        /\ producers[s].save <= saved[producers[s].path]
        /\ producers[s].stage = "log" => StillKept(producers[s].path, producers[s].save)
  <2> SUFFICES ASSUME NEW s \in Slot, producers[s] # None
               PROVE  /\ producers[s].path \in Path /\ producers[s].save \in 0..MaxSaves
                      /\ producers[s].save <= saved[producers[s].path]
                      /\ producers[s].stage = "log" => StillKept(producers[s].path, producers[s].save)
    OBVIOUS
  <2>1. producers[s].path \in Path /\ producers[s].save \in 0..MaxSaves
    BY <1>0 DEF Producer
  <2>2. /\ producers[s].save <= saved[producers[s].path]
        /\ producers[s].stage = "log" => Kept(producers[s].path, producers[s].save)
    BY DEF KeptInv
  <2> QED BY <1>1, <2>1, <2>2
(* A step that begins no more than an Enqueue, and acknowledges nothing. *)
<1>4. ASSUME acked' = acked, \A p \in Path : saved[p] <= saved'[p] /\ saved'[p] \in Nat,
             \A s \in Slot : \/ producers'[s] = None
                             \/ producers'[s] = producers[s]
                             \/ /\ producers'[s].stage # "log"
                                /\ producers'[s].save <= saved'[producers'[s].path]
      PROVE  KeptInv'
  <2>1. \A p \in Path : acked'[p] <= saved'[p] /\ StillKept(p, acked'[p])
    BY <1>0, <1>2, <1>4
  <2>2. ASSUME NEW s \in Slot, producers'[s] # None
        PROVE  /\ producers'[s].save <= saved'[producers'[s].path]
               /\ producers'[s].stage = "log" => StillKept(producers'[s].path, producers'[s].save)
    <3>1. CASE producers'[s] = producers[s]
      <4>1. /\ producers[s].path \in Path /\ producers[s].save \in 0..MaxSaves
            /\ producers[s].save <= saved[producers[s].path]
            /\ producers[s].stage = "log" => StillKept(producers[s].path, producers[s].save)
        BY <1>3, <2>2, <3>1
      <4> QED BY <1>0, <1>4, <3>1, <4>1
    <3>2. CASE producers'[s] # producers[s]
      BY <1>4, <2>2, <3>2
    <3> QED BY <3>1, <3>2
  <2> QED BY <2>1, <2>2 DEF KeptInv, Kept, StillKept
<1>5. CASE UNCHANGED <<acked, saved, producers>>
  BY <1>0, <1>4, <1>5
<1>6. ASSUME NEW p \in Path, Save(p) PROVE KeptInv'
  <2>1. UNCHANGED <<acked, producers>> /\ saved' = [saved EXCEPT ![p] = saved[p] + 1]
    BY <1>6 DEF Save
  <2>2. \A q \in Path : saved[q] <= saved'[q] /\ saved'[q] \in Nat
    BY <1>0, <2>1
  <2> QED BY <1>4, <2>1, <2>2
<1>7. ASSUME NEW p \in Path, Request(p) \/ TimerFires(p) PROVE KeptInv'
  <2>1. UNCHANGED <<acked, saved>>
    BY <1>7 DEF Request, TimerFires, history
  <2>2. PICK s \in Slot, by \in {"http", "timer"} : Begin(s, by, p)
    BY <1>7 DEF Request, TimerFires
  <2> DEFINE x == [by |-> by, path |-> p, stage |-> "enqueue",
                   save |-> IF by = "http" THEN saved[p] ELSE 0]
  <2>3. producers' = [producers EXCEPT ![s] = x]
    BY <2>2 DEF Begin
  <2>4. x.stage # "log" /\ x.path = p /\ x.save <= saved[p] /\ saved[p] \in Nat
    BY <1>0
  <2> HIDE DEF x
  <2>5. \A q \in Slot : producers'[q] = IF q = s THEN x ELSE producers[q]
    BY <1>0, <2>3
  <2>6. \A q \in Path : saved[q] <= saved'[q] /\ saved'[q] \in Nat
    BY <1>0, <2>1
  <2>7. \A q \in Slot : \/ producers'[q] = producers[q]
                        \/ /\ producers'[q].stage # "log"
                           /\ producers'[q].save <= saved'[producers'[q].path]
    BY <2>1, <2>4, <2>5
  <2> QED BY <1>4, <2>1, <2>6, <2>7
<1>8. ASSUME NEW s \in Slot, ProducerFails(s) PROVE KeptInv'
  <2>1. /\ UNCHANGED <<acked, saved>>
        /\ \A q \in Slot : producers'[q] = None \/ producers'[q] = producers[q]
    BY <1>0, <1>8 DEF ProducerFails, history
  <2> QED BY <1>0, <1>4, <2>1
<1>9. CASE Vanish
  <2>1. UNCHANGED <<acked, saved>> /\ \A q \in Slot : producers'[q] = None
    BY <1>9 DEF Vanish
  <2> QED BY <1>0, <1>4, <2>1
<1>10. ASSUME NEW s \in Slot, ProducerEnqueues(s) PROVE KeptInv'
  <2> DEFINE x == [producers[s] EXCEPT !.stage = "log"]
  <2>1. producers[s] \in Producer /\ producers[s] # None
    BY <1>10 DEF ProducerEnqueues, AtEnqueue, TypeOK
  <2>2. x.path = producers[s].path /\ x.save = producers[s].save
    BY <2>1 DEF Producer
  <2>3. producers' = [producers EXCEPT ![s] = IF producers[s].by = "http" THEN x ELSE None]
    BY <1>0, <1>10 DEF ProducerEnqueues
  <2> HIDE DEF x
  <2>4. UNCHANGED <<acked, saved>>
    BY <1>10 DEF ProducerEnqueues, history
  <2>5. \A q \in Slot : q # s => producers'[q] = producers[q]
    BY <1>0, <2>3
  <2>6. producers'[s] \in {x, None}
    BY <1>0, <2>3
  <2>7. \A n : StillKept(producers[s].path, n)
    BY <1>10, EnqueuedIsKept
  <2>8. ASSUME NEW q \in Slot, producers'[q] # None
        PROVE  /\ producers'[q].save <= saved'[producers'[q].path]
               /\ producers'[q].stage = "log" => StillKept(producers'[q].path, producers'[q].save)
    <3>1. CASE q = s
      <4>1. producers'[q] = x
        BY <2>6, <2>8, <3>1
      <4>2. StillKept(x.path, x.save)
        BY <2>2, <2>7
      <4>3. x.save <= saved[x.path]
        BY <1>3, <2>1, <2>2
      <4> QED BY <2>4, <4>1, <4>2, <4>3
    <3>2. CASE q # s
      <4>1. producers'[q] = producers[q]
        BY <2>5, <3>2
      <4> QED BY <1>3, <2>4, <2>8, <4>1
    <3> QED BY <3>1, <3>2
  <2>9. \A p \in Path : acked'[p] <= saved'[p] /\ StillKept(p, acked'[p])
    BY <1>2, <2>4
  <2> QED BY <2>8, <2>9 DEF KeptInv, Kept, StillKept
<1>11. ASSUME NEW s \in Slot, ProducerFinishes(s) PROVE KeptInv'
  <2> DEFINE x == producers[s]
  <2>1. /\ x # None /\ x.stage = "log"
        /\ acked' = [acked EXCEPT ![x.path] = IF @ < x.save THEN x.save ELSE @]
        /\ producers' = [producers EXCEPT ![s] = None]
        /\ saved' = saved
    BY <1>11 DEF ProducerFinishes, Acknowledge
  <2>2. x.path \in Path /\ x.save <= saved[x.path] /\ StillKept(x.path, x.save)
    BY <1>3, <2>1
  <2> HIDE DEF x
  <2>3. \A q \in Slot : producers'[q] = None \/ producers'[q] = producers[q]
    BY <1>0, <2>1
  <2>4. \A p \in Path : acked'[p] = acked[p] \/ (p = x.path /\ acked'[p] = x.save)
    BY <1>0, <2>1
  <2>5. ASSUME NEW p \in Path PROVE acked'[p] <= saved'[p] /\ StillKept(p, acked'[p])
    <3>1. CASE acked'[p] = acked[p]
      BY <1>2, <2>1, <3>1
    <3>2. CASE p = x.path /\ acked'[p] = x.save
      BY <2>1, <2>2, <3>2
    <3> QED BY <2>4, <3>1, <3>2
  <2>6. ASSUME NEW q \in Slot, producers'[q] # None
        PROVE  /\ producers'[q].save <= saved'[producers'[q].path]
               /\ producers'[q].stage = "log" => StillKept(producers'[q].path, producers'[q].save)
    <3>1. producers'[q] = producers[q]
      BY <2>3, <2>6
    <3> QED BY <1>3, <2>1, <2>6, <3>1
  <2> QED BY <2>5, <2>6 DEF KeptInv, Kept, StillKept
(* Every other step leaves saves, producers and acknowledgements alone. *)
<1>12. CASE Start \/ Signal \/ GoroutineFails \/ HttpReturns \/ WatcherReturns
            \/ RunReturns \/ RunTimesOut \/ CloseStore
  <2>1. UNCHANGED <<acked, saved, producers>>
    BY <1>12 DEF Start, Signal, GoroutineFails, HttpReturns, WatcherReturns, RunReturns,
                 RunTimesOut, CloseStore, history
  <2> QED BY <1>5, <2>1
<1>13. CASE WorkerStep
  <2>1. UNCHANGED <<acked, saved, producers>>
    BY <1>13 DEF WorkerStep, WorkerStops, WorkerGoesOn, WorkerSleeps, WorkerDequeues,
                 WorkerLogs, WorkerRemoves, WorkerFails, history
  <2> QED BY <1>5, <2>1
<1>14. CASE UNCHANGED vars
  BY <1>5, <1>14 DEF vars, history
<1> QED BY <1>6, <1>7, <1>8, <1>9, <1>10, <1>11, <1>12, <1>13, <1>14
        DEF Next, Shutdown, Exit, Crash, ProducerStep
-----------------------------------------------------------------------------
(***************************************************************************)
(* A clean stop.                                                           *)
(***************************************************************************)
LEMMA StopStep == ASSUME TypeOK, TableInv, StopInv, [Next]_vars PROVE StopInv'
<1>1. CASE Start
  BY <1>1 DEF Start, StopInv, disk, Processing
<1>2. CASE Signal \/ HttpReturns \/ WatcherReturns \/ CloseStore
  BY <1>2 DEF Signal, HttpReturns, WatcherReturns, CloseStore, StopInv, disk, history, Processing
<1>3. CASE GoroutineFails
  BY <1>3 DEF GoroutineFails, StopInv
<1>4. CASE RunReturns \/ RunTimesOut
  BY <1>4 DEF RunReturns, RunTimesOut, GoroutinesReturned, StopInv, disk, history, Processing
<1>5. CASE Vanish
  BY <1>5 DEF Vanish, StopInv
<1>6. CASE WorkerStops \/ WorkerGoesOn \/ WorkerSleeps
  BY <1>6 DEF WorkerStops, WorkerGoesOn, WorkerSleeps, AtLoopTop, Worker, StopInv,
              disk, lifecycle, history, Processing
<1>7. CASE WorkerDequeues
  <2>1. PICK r \in queue :
          /\ queue' = MarkProcessing(queue, r)
          /\ entry' = [id |-> r.id, path |-> r.path, saw |-> saved[r.path]]
    BY <1>7 DEF WorkerDequeues
  <2>2. /\ DbOpen /\ worker = "poll" /\ entry = None
        /\ UNCHANGED <<run, failed, result, stranded>>
    BY <1>7 DEF WorkerDequeues, Worker, TypeOK, lifecycle, history
  <2>3. entry' \in Entry /\ entry'.id = r.id
    BY <2>1 DEF TypeOK, Row, Entry
  <2>4. \A x \in Processing(queue)' : x \in Processing(queue) \/ x.id = r.id
    BY <2>1, ProcessingRowIsTyped DEF MarkProcessing, Processing, TypeOK
  <2> QED BY <2>2, <2>3, <2>4, NoneAssumption DEF StopInv, DbOpen
<1>8. CASE WorkerLogs
  BY <1>8 DEF WorkerLogs, Worker, StopInv, lifecycle, Processing
<1>9. CASE WorkerRemoves
  BY <1>9 DEF WorkerRemoves, Worker, DeleteId, StopInv, lifecycle, history, Processing
<1>10. CASE WorkerFails
  BY <1>10 DEF WorkerFails, StopInv
<1>11. ASSUME NEW p \in Path, Save(p) \/ Request(p) \/ TimerFires(p) PROVE StopInv'
  BY <1>11 DEF Save, Request, TimerFires, StopInv, disk, lifecycle, history, Processing
<1>12. ASSUME NEW s \in Slot, ProducerEnqueues(s) PROVE StopInv'
  <2>1. Processing(queue)' = Processing(queue)
    BY <1>12, Enqueued DEF TableInv, Processing
  <2> QED BY <1>12, <2>1 DEF ProducerEnqueues, StopInv, lifecycle, history
<1>13. ASSUME NEW s \in Slot, ProducerFails(s) \/ ProducerFinishes(s) PROVE StopInv'
  BY <1>13 DEF ProducerFails, ProducerFinishes, StopInv, disk, lifecycle, history, Processing
<1>14. CASE UNCHANGED vars
  BY <1>14 DEF vars, disk, lifecycle, history, StopInv, Processing
<1> QED BY <1>1, <1>2, <1>3, <1>4, <1>5, <1>6, <1>7, <1>8, <1>9, <1>10, <1>11, <1>12, <1>13, <1>14
        DEF Next, Shutdown, Exit, Crash, WorkerStep, ProducerStep
-----------------------------------------------------------------------------
LEMMA DaemonInvHolds == Spec => []DaemonInv
<1>1. Init => DaemonInv
  BY InitDaemonInv
<1>2. DaemonInv /\ [Next]_vars => DaemonInv'
  BY TypesStep, TableStep, KeptStep, StopStep DEF DaemonInv, TableInv
<1> QED BY <1>1, <1>2, PTL DEF Spec

(* Every variable keeps its type, the positions of new rows included, and   *)
(* the worker has an entry exactly while it logs or removes one.            *)
THEOREM DaemonTypesHold == Spec => []TypeOK
<1>1. DaemonInv => TypeOK
  BY DEF DaemonInv
<1> QED BY <1>1, DaemonInvHolds, PTL

(* When Run returns nil, the worker has removed the row it had: errgroup    *)
(* waits for it, and it looks at the context only when it has none.         *)
THEOREM StopIsClean == Spec => []CleanStop
<1>1. DaemonInv => CleanStop
  BY DEF DaemonInv, StopInv, TypeOK, CleanStop
<1> QED BY <1>1, DaemonInvHolds, PTL

(* A path whose newest acknowledged save is not processed has a row,        *)
(* whatever failed, timed out or crashed since the client got its 200.      *)
THEOREM AcknowledgedSavesAreKept == Spec => []AcknowledgedIsKept
<1>1. DaemonInv => AcknowledgedIsKept
  <2> SUFFICES ASSUME DaemonInv, NEW p \in Path, acked[p] > done[p]
               PROVE  \E r \in queue : r.path = p
    BY DEF AcknowledgedIsKept
  <2>1. Kept(p, acked[p]) /\ acked[p] \in Nat /\ done[p] \in Nat
    BY DEF DaemonInv, KeptInv, TypeOK
  <2>2. entry # None => \E r \in queue : r.path = entry.path
    BY DEF DaemonInv, HeldInv, Holds
  <2> QED BY <2>1, <2>2 DEF Kept
<1> QED BY <1>1, DaemonInvHolds, PTL

(* Every row that was inserted and is gone has its `processed' event. *)
THEOREM RemovedRowsAreLogged == Spec => []GoneIsLogged
<1>1. DaemonInv => GoneIsLogged
  BY DEF DaemonInv, LogInv
<1> QED BY <1>1, DaemonInvHolds, PTL

(* And no row has two of them. *)
THEOREM NoRowIsLoggedTwice == Spec => []LoggedAtMostOnce
<1>1. DaemonInv => LoggedAtMostOnce
  BY DEF DaemonInv, LogInv, LoggedAtMostOnce
<1> QED BY <1>1, DaemonInvHolds, PTL
=============================================================================
