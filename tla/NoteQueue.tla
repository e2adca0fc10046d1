----------------------------- MODULE NoteQueue ------------------------------
(***************************************************************************)
(* The deduplicating FIFO queue of internal/queue/queue.go, driven the way *)
(* its API is meant to be driven: any number of callers Enqueue a path     *)
(* with an mtime; a worker Dequeues an entry, then settles it with Remove  *)
(* or ReEnqueue; a worker's process may die while it holds an entry.       *)
(***************************************************************************)
EXTENDS QueueTable

CONSTANTS
  Path,       \* the note paths
  Mtime,      \* the mtimes a caller may pass
  Worker,     \* the processes or goroutines that dequeue
  None,       \* what a worker that holds no entry holds
  MaxId,      \* bound: at most this many rows are ever inserted
  LastPos,    \* bound: no row goes beyond this position
  CanCrash    \* whether a worker's process may die

Entry == [id : Nat, path : Path, mtime : Mtime]

ASSUME NoneAssumption == None \notin Entry \cup [path : Path, mtime : Mtime]
ASSUME BoundAssumption == MaxId \in Nat /\ LastPos \in Nat
ASSUME CrashAssumption == CanCrash \in BOOLEAN

VARIABLES
  queue,      \* the rows of the table
  nextId,     \* AUTOINCREMENT: ids are never used twice
  held,       \* the entry each worker got from Dequeue and has not settled
  refused     \* workers whose last ReEnqueue returned an error

vars == <<queue, nextId, held, refused>>

Init ==
  /\ queue = {}
  /\ nextId = 1
  /\ held = [w \in Worker |-> None]
  /\ refused = {}
-----------------------------------------------------------------------------
(* Enqueue, by its two outcomes: a fresh row at the back ... *)
Insert(p, m) ==
  /\ p \notin PendingPaths(queue)
  /\ nextId <= MaxId
  /\ NextPosition(queue) <= LastPos
  /\ queue' = queue \cup {NewRow(queue, nextId, p, m)}
  /\ nextId' = nextId + 1
  /\ UNCHANGED <<held, refused>>

(* ... or the mtime of the row that already waits. *)
Coalesce(p, m) ==
  /\ p \in PendingPaths(queue)
  /\ queue' = Refresh(queue, p, m)
  /\ UNCHANGED <<nextId, held, refused>>

Enqueue(p, m) == Insert(p, m) \/ Coalesce(p, m)

(* Dequeue of an entry ... *)
Dequeue(w) ==
  /\ held[w] = None
  /\ \E r \in queue :
       /\ IsFront(queue, r)
       /\ queue' = MarkProcessing(queue, r)
       /\ held' = [held EXCEPT ![w] = [id |-> r.id, path |-> r.path, mtime |-> r.mtime]]
  /\ UNCHANGED <<nextId, refused>>

(* ... and with nothing pending: nil is returned and nothing changes. *)
DequeueNil(w) ==
  /\ held[w] = None
  /\ Pending(queue) = {}
  /\ UNCHANGED vars

HeldRow(w) == CHOOSE r \in queue : r.id = held[w].id

HasRow(w) == held[w] # None /\ \E r \in queue : r.id = held[w].id

(* Remove: the row is there, one row affected. *)
Remove(w) ==
  /\ HasRow(w)
  /\ queue' = DeleteId(queue, held[w].id)
  /\ held' = [held EXCEPT ![w] = None]
  /\ refused' = refused \ {w}
  /\ UNCHANGED nextId

(* ReEnqueue that goes through. *)
ReEnqueue(w) ==
  /\ HasRow(w)
  /\ ~IndexRefuses(queue, HeldRow(w))
  /\ NextPosition(queue) <= LastPos
  /\ queue' = ToBack(queue, HeldRow(w))
  /\ held' = [held EXCEPT ![w] = None]
  /\ refused' = refused \ {w}
  /\ UNCHANGED nextId

(* ReEnqueue that breaks the unique index: the statement is rolled back and *)
(* the error is returned, so the caller still has its entry to settle.      *)
ReEnqueueFails(w) ==
  /\ HasRow(w)
  /\ IndexRefuses(queue, HeldRow(w))
  /\ refused' = refused \cup {w}
  /\ UNCHANGED <<queue, nextId, held>>

(* The process dies: what it held is forgotten, the table is on disk. *)
Crash(w) ==
  /\ CanCrash
  /\ held[w] # None
  /\ held' = [held EXCEPT ![w] = None]
  /\ refused' = refused \ {w}
  /\ UNCHANGED <<queue, nextId>>

Next ==
  \/ \E p \in Path, m \in Mtime : Enqueue(p, m)
  \/ \E w \in Worker :
       \/ Dequeue(w) \/ DequeueNil(w)
       \/ Remove(w) \/ ReEnqueue(w) \/ ReEnqueueFails(w)
       \/ Crash(w)

Spec == Init /\ [][Next]_vars

(***************************************************************************)
(* queueWorker is a loop: it polls every 100 ms while it has nothing, and  *)
(* goes straight on to settle what it has.  Nothing obliges callers to     *)
(* enqueue, workers to prefer one way of settling, or processes to die.    *)
(***************************************************************************)
FairSpec ==
  Spec /\ \A w \in Worker : WF_vars(Dequeue(w)) /\ WF_vars(Remove(w) \/ ReEnqueue(w))
-----------------------------------------------------------------------------
Row == [id : 1..MaxId, path : Path, mtime : Mtime, position : 1..LastPos, status : Status]

(* Every variable keeps its type: rows have ids that were handed out and    *)
(* positions counted from 1.                                                *)
TypeOK ==
  /\ queue \subseteq Row
  /\ nextId \in 1..(MaxId + 1)
  /\ held \in [Worker -> Entry \cup {None}]
  /\ refused \subseteq Worker

(* The deduplication the package promises: a path has at most one pending   *)
(* row, whatever mixture of Enqueue and ReEnqueue produced it.              *)
PendingUnique ==
  \A r, s \in Pending(queue) : r.path = s.path => r = s

(* FIFO order is a strict order: no two rows, of whatever status, share a   *)
(* position, although positions are recomputed from MAX(position) each time *)
(* and start again from 1 when the table empties.                           *)
PositionsDistinct ==
  \A r, s \in queue : r.position = s.position => r = s

(* A dequeued entry stays true while it is held: its row is still there and *)
(* still processing, with the path and the mtime the worker was given, and  *)
(* it belongs to that worker alone.                                         *)
HeldConsistent ==
  \A w \in Worker : held[w] # None =>
    /\ \E r \in queue : /\ r.id = held[w].id
                        /\ r.path = held[w].path
                        /\ r.mtime = held[w].mtime
                        /\ r.status = "processing"
    /\ \A v \in Worker : held[v] # None /\ held[v].id = held[w].id => v = w

(* <<p, q>>: both wait and p is in front of q. *)
OrderOf(q) ==
  {pq \in PendingPaths(q) \X PendingPaths(q) :
     \E r, s \in Pending(q) : r.path = pq[1] /\ s.path = pq[2] /\ r.position < s.position}

Order == OrderOf(queue)

(* Nobody jumps the queue: as long as a path keeps waiting, no step puts    *)
(* another path in front of it.  A further save may not either, as          *)
(* openspec/specs/note-queue/spec.md:27 has it; see ResavedGoesToBack.      *)
NoOvertaking ==
  [][\A p \in Path :
       p \in PendingPaths(queue) /\ p \in PendingPaths(queue)' =>
         \A q \in Path : <<q, p>> \in Order' => <<q, p>> \in Order]_vars

InTable(p) == \E r \in queue : r.path = p
Held(p) == \E w \in Worker : held[w] # None /\ held[w].path = p

(* Whoever waits is served: a pending row is eventually taken, although     *)
(* others are saved for ever, come and are given back, and workers die.     *)
WaitingGetsTaken == \A p \in Path : p \in PendingPaths(queue) ~> Held(p)

(* Every row is reached: a path that has a row is eventually in the hands   *)
(* of a worker or out of the table.                                         *)
EveryNoteReached == \A p \in Path : InTable(p) ~> (Held(p) \/ ~InTable(p))

(* The opposite promise, of docs/automated-annotation-prd.md:115 and        *)
(* docs/implementation-plan.md:27: a path that is saved again while it      *)
(* waits leaves its place, and ends up behind the others.                   *)
ResavedGoesToBack ==
  [][\A r \in Pending(queue), s \in Pending(queue)' :
       r.path = s.path /\ r.mtime # s.mtime =>
         \A q \in PendingPaths(queue)' \ {s.path} : <<q, s.path>> \in Order']_vars

(* The promise of openspec/specs/note-queue/spec.md on ReEnqueue: the       *)
(* holder of a processing row can always give it back.                      *)
GiveBackSucceeds == refused = {}
-----------------------------------------------------------------------------
Note(r) == [path |-> r.path, mtime |-> r.mtime]

(* What openspec/specs/note-queue/spec.md promises, as an order on paths:   *)
(* see FifoWork.                                                            *)
Promise == INSTANCE FifoWork WITH
  waiting <- {Note(r) : r \in Pending(queue)},
  before <- Order,
  inWork <- [w \in Worker |-> IF held[w] = None THEN None ELSE Note(held[w])]

(* The table, with its positions and statuses, does what that promise says. *)
KeepsPromise == Promise!Spec
=============================================================================
