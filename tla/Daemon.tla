------------------------------- MODULE Daemon -------------------------------
(***************************************************************************)
(* One daemon process: Run and its goroutines (internal/daemon/daemon.go)  *)
(* around the queue table, from start to shutdown, with crashes and        *)
(* restarts in between.                                                    *)
(*                                                                         *)
(*   on disk      queue, nextId, processed (the `processed' events)        *)
(*   in memory    everything else; it is gone when the process ends        *)
(*                                                                         *)
(* The HTTP handlers and the debounce callbacks are the two kinds of       *)
(* producers: both call Enqueue, then append an `enqueued' event whose     *)
(* failure is ignored.  The debounce timers themselves are in FsWatcher;   *)
(* here a save sets due[p], and a callback may start for a path that is    *)
(* due.  Requests that are answered with 400 change nothing here (Control  *)
(* has them).  Index flushing is in IndexCache.                            *)
(***************************************************************************)
EXTENDS QueueTable

CONSTANTS
  Path,          \* the notes
  Slot,          \* bound: requests and callbacks in progress at once
  None,          \* nobody, nothing
  MaxSaves,      \* bound: saves per note
  MaxId,         \* bound: rows ever inserted
  MaxStarts,     \* bound: starts of the process
  CanCrash,      \* whether the process may be killed
  CanFail,       \* whether statements, listeners and watches may return an error
  CanTimeOut     \* whether a process may live for 10 seconds

ASSUME BoundAssumption == {MaxSaves, MaxId, MaxStarts} \subseteq Nat
ASSUME FlagAssumption == {CanCrash, CanFail, CanTimeOut} \subseteq BOOLEAN

Entry == [id : 1..MaxId, path : Path, saw : 0..MaxSaves]
Producer == [by : {"http", "timer"}, path : Path, stage : {"enqueue", "log"}, save : 0..MaxSaves]

ASSUME NoneAssumption == None \notin Path \cup Entry \cup Producer

VARIABLES
  queue, nextId, \* the table
  processed,     \* the ids whose `processed' event was logged, each with how often
  starts,        \* how often the process was started
  run,           \* where Run and runDaemon are
  result,        \* what Run returned: "nil", "error" or "timeout"
  cancelled,     \* whether the errgroup's context is done
  failed,        \* whether a goroutine returned an error
  http,          \* whether httpServer is serving
  watching,      \* whether fsWatcher is in its loop
  worker,        \* where queueWorker is
  entry,         \* the entry it has, with the save it saw, or None
  producers,     \* slot -> a request or callback in progress, or None
  due,           \* the paths with a debounce timer armed
  saved,         \* history: how often each note was saved
  acked,         \* history: the newest save a client got 200 for
  done,          \* history: the newest save a `processed' event covers
  signalled,     \* history: whether SIGTERM or SIGINT came since the start
  stranded       \* history: the processing rows the process found when it started

disk == <<queue, nextId, processed>>
lifecycle == <<starts, run, result, cancelled, failed, http, watching>>
history == <<saved, acked, done, signalled, stranded>>
vars == <<disk, lifecycle, worker, entry, producers, due, history>>

RunStage == {"down", "waiting", "returned", "closed"}
WorkerStage == {"top", "poll", "append", "remove", "exited"}

(* Mtimes are data that no step of the daemon looks at. *)
AnyMtime == 0

Processing(q) == {r \in q : r.status = "processing"}

Init ==
  /\ queue = {} /\ nextId = 1
  /\ processed = [i \in 1..MaxId |-> 0]
  /\ starts = 0
  /\ run = "down" /\ result = None
  /\ cancelled = FALSE /\ failed = FALSE
  /\ http = FALSE /\ watching = FALSE
  /\ worker = "exited" /\ entry = None
  /\ producers = [s \in Slot |-> None]
  /\ due = {}
  /\ saved = [p \in Path |-> 0]
  /\ acked = [p \in Path |-> 0]
  /\ done = [p \in Path |-> 0]
  /\ signalled = FALSE
  /\ stranded = {}
-----------------------------------------------------------------------------
(***************************************************************************)
(* The process.                                                            *)
(***************************************************************************)

(* runDaemon opens the store and calls Run, which starts the goroutines. *)
Start ==
  /\ run = "down"
  /\ starts < MaxStarts
  /\ starts' = starts + 1
  /\ run' = "waiting"
  /\ http' = TRUE /\ watching' = TRUE
  /\ worker' = "top"
  /\ stranded' = Processing(queue)
  /\ UNCHANGED <<disk, result, cancelled, failed, entry, producers, due,
                 saved, acked, done, signalled>>

(* SIGTERM or SIGINT: NotifyContext cancels the context. *)
Signal ==
  /\ run = "waiting"
  /\ cancelled' = TRUE
  /\ signalled' = TRUE
  /\ UNCHANGED <<disk, starts, run, result, failed, http, watching, worker, entry,
                 producers, due, saved, acked, done, stranded>>

(* Shutdown makes Serve, and so httpServer, return at once: requests in     *)
(* progress go on in their own goroutines.                                  *)
HttpReturns ==
  /\ http /\ cancelled
  /\ http' = FALSE
  /\ UNCHANGED <<disk, starts, run, result, cancelled, failed, watching, worker, entry,
                 producers, due, history>>

(* fsWatcher returns and leaves its timers armed. *)
WatcherReturns ==
  /\ watching /\ cancelled
  /\ watching' = FALSE
  /\ UNCHANGED <<disk, starts, run, result, cancelled, failed, http, worker, entry,
                 producers, due, history>>

(* httpServer cannot listen, fsWatcher cannot watch, or indexFlusher cannot *)
(* flush: the error it returns cancels the context of all of them.          *)
GoroutineFails ==
  /\ CanFail
  /\ run = "waiting"
  /\ \/ http /\ http' = FALSE /\ UNCHANGED watching
     \/ watching /\ watching' = FALSE /\ UNCHANGED http
     \/ UNCHANGED <<http, watching>>
  /\ failed' = TRUE /\ cancelled' = TRUE
  /\ UNCHANGED <<disk, starts, run, result, worker, entry, producers, due, history>>

GoroutinesReturned == ~http /\ ~watching /\ worker = "exited"

(* g.Wait returned, and FlushDirty is done, with or without an error. *)
RunReturns ==
  /\ run = "waiting"
  /\ GoroutinesReturned
  /\ run' = "returned"
  /\ \/ failed /\ result' = "error"
     \/ ~failed /\ result' = "nil"
     \/ CanFail /\ result' = "error"
  /\ UNCHANGED <<disk, starts, cancelled, failed, http, watching, worker, entry,
                 producers, due, history>>

(* The 10 seconds since Run was called are over first. *)
RunTimesOut ==
  /\ run = "waiting"
  /\ CanTimeOut
  /\ run' = "returned"
  /\ result' = "timeout"
  /\ UNCHANGED <<disk, starts, cancelled, failed, http, watching, worker, entry,
                 producers, due, history>>

(* runDaemon's deferred calls: stop() cancels the context, q.Close() and    *)
(* s.Close() end the statements and the connection.                         *)
CloseStore ==
  /\ run = "returned"
  /\ run' = "closed"
  /\ cancelled' = TRUE
  /\ UNCHANGED <<disk, starts, result, failed, http, watching, worker, entry,
                 producers, due, history>>

Vanish ==
  /\ run' = "down" /\ result' = None
  /\ cancelled' = FALSE /\ failed' = FALSE
  /\ http' = FALSE /\ watching' = FALSE
  /\ worker' = "exited" /\ entry' = None
  /\ producers' = [s \in Slot |-> None]
  /\ due' = {}
  /\ signalled' = FALSE /\ stranded' = {}
  /\ UNCHANGED <<disk, starts, saved, acked, done>>

Exit == run = "closed" /\ Vanish

(* SIGKILL, power loss, a panic. *)
Crash == CanCrash /\ run # "down" /\ Vanish

DbOpen == run \in {"waiting", "returned"}
-----------------------------------------------------------------------------
(***************************************************************************)
(* queueWorker.                                                            *)
(***************************************************************************)
Worker(from, to) == worker = from /\ worker' = to

\* Mutant of AtLoopTop: the context is looked at again after Dequeue.
AtTopOrHolding == worker \in {"top", "append"}

(* The select at the top of the loop. *)
AtLoopTop == worker = "top"

WorkerStops ==
  /\ cancelled /\ AtLoopTop
  /\ worker' = "exited"
  /\ UNCHANGED <<disk, lifecycle, entry, producers, due, history>>

WorkerGoesOn ==
  /\ ~cancelled
  /\ Worker("top", "poll")
  /\ UNCHANGED <<disk, lifecycle, entry, producers, due, history>>

\* Mutant of AfterDequeue: the event is not logged.
StraightToRemove == "remove"

AfterDequeue == "append"

WorkerDequeues ==
  /\ DbOpen
  /\ Worker("poll", AfterDequeue)
  /\ \E r \in queue :
       /\ IsFront(queue, r)
       /\ queue' = MarkProcessing(queue, r)
       /\ entry' = [id |-> r.id, path |-> r.path, saw |-> saved[r.path]]
  /\ UNCHANGED <<nextId, processed, lifecycle, producers, due, history>>

(* Nothing pending: it sleeps 100 ms, or less if the context is done. *)
WorkerSleeps ==
  /\ DbOpen /\ Pending(queue) = {}
  /\ Worker("poll", "top")
  /\ UNCHANGED <<disk, lifecycle, entry, producers, due, history>>

WorkerLogs ==
  /\ DbOpen
  /\ Worker("append", "remove")
  /\ processed' = [processed EXCEPT ![entry.id] = @ + 1]
  /\ done' = [done EXCEPT ![entry.path] = IF @ < entry.saw THEN entry.saw ELSE @]
  /\ UNCHANGED <<queue, nextId, lifecycle, entry, producers, due,
                 saved, acked, signalled, stranded>>

WorkerRemoves ==
  /\ DbOpen
  /\ Worker("remove", "top")
  /\ queue' = DeleteId(queue, entry.id)
  /\ entry' = None
  /\ UNCHANGED <<nextId, processed, lifecycle, producers, due, history>>

(* Any statement returns an error, because the disk or the lock fails or    *)
(* because the store is closed: queueWorker returns it, and errgroup        *)
(* cancels the context.                                                     *)
WorkerFails ==
  /\ worker \in {"poll", "append", "remove"}
  /\ CanFail \/ ~DbOpen
  /\ worker' = "exited"
  /\ entry' = None
  /\ failed' = TRUE /\ cancelled' = TRUE
  /\ UNCHANGED <<disk, starts, run, result, http, watching, producers, due, history>>

WorkerStep ==
  \/ WorkerStops \/ WorkerGoesOn \/ WorkerDequeues \/ WorkerSleeps
  \/ WorkerLogs \/ WorkerRemoves \/ WorkerFails
-----------------------------------------------------------------------------
(***************************************************************************)
(* The producers: handleEnqueue and the debounce callbacks.                *)
(***************************************************************************)
(* An editor saves the note; fsWatcher, if it is there, arms a timer. *)
Save(p) ==
  /\ saved[p] < MaxSaves
  /\ saved' = [saved EXCEPT ![p] = @ + 1]
  /\ due' = IF watching THEN due \cup {p} ELSE due
  /\ UNCHANGED <<disk, lifecycle, worker, entry, producers, acked, done,
                 signalled, stranded>>

(* Slots are alike: the first free one is taken.  A callback leaves its slot *)
(* when it has enqueued; the rest of it is in FsWatcher.                    *)
Begin(s, by, p) ==
  /\ producers[s] = None
  /\ s = CHOOSE x \in Slot : producers[x] = None
  /\ producers' = [producers EXCEPT
       ![s] = [by |-> by, path |-> p, stage |-> "enqueue",
               save |-> IF by = "http" THEN saved[p] ELSE 0]]

(* annotate enqueue: the request is read. *)
Request(p) ==
  /\ http
  /\ saved[p] > 0
  /\ \E s \in Slot : Begin(s, "http", p)
  /\ UNCHANGED <<disk, lifecycle, worker, entry, due, history>>

(* A debounce timer fires and starts its callback. *)
TimerFires(p) ==
  /\ p \in due
  /\ due' = due \ {p}
  /\ \E s \in Slot : Begin(s, "timer", p)
  /\ UNCHANGED <<disk, lifecycle, worker, entry, history>>

AtEnqueue(s) == producers[s] # None /\ producers[s].stage = "enqueue"

(* A handler replies 200 after it has enqueued. *)
Acknowledge(x) ==
  acked' = [acked EXCEPT ![x.path] = IF @ < x.save THEN x.save ELSE @]

ProducerEnqueues(s) ==
  /\ AtEnqueue(s) /\ DbOpen
  /\ LET x == producers[s]
     IN  IF x.path \in PendingPaths(queue)
         THEN queue' = Refresh(queue, x.path, AnyMtime) /\ UNCHANGED nextId
         ELSE /\ nextId <= MaxId
              /\ queue' = queue \cup {NewRow(queue, nextId, x.path, AnyMtime)}
              /\ nextId' = nextId + 1
  /\ producers' = [producers EXCEPT
       ![s] = IF @.by = "http" THEN [@ EXCEPT !.stage = "log"] ELSE None]
  /\ UNCHANGED <<processed, lifecycle, worker, entry, due, history>>

(* Enqueue returns an error: 500 from the handler, nothing from a callback. *)
ProducerFails(s) ==
  /\ AtEnqueue(s)
  /\ CanFail \/ ~DbOpen
  /\ producers' = [producers EXCEPT ![s] = None]
  /\ UNCHANGED <<disk, lifecycle, worker, entry, due, history>>

(* The event is appended or not, and the handler writes 200. *)
ProducerFinishes(s) ==
  /\ producers[s] # None /\ producers[s].stage = "log"
  /\ Acknowledge(producers[s])
  /\ producers' = [producers EXCEPT ![s] = None]
  /\ UNCHANGED <<disk, lifecycle, worker, entry, due, saved, done, signalled, stranded>>

ProducerStep(s) == ProducerEnqueues(s) \/ ProducerFails(s) \/ ProducerFinishes(s)
-----------------------------------------------------------------------------
Shutdown == HttpReturns \/ WatcherReturns \/ RunReturns \/ RunTimesOut \/ CloseStore \/ Exit

Next ==
  \/ Start \/ Signal \/ GoroutineFails \/ Shutdown \/ Crash
  \/ WorkerStep
  \/ \E p \in Path : Save(p) \/ Request(p) \/ TimerFires(p)
  \/ \E s \in Slot : ProducerStep(s)

Spec == Init /\ [][Next]_vars

(* Goroutines make progress, timers fire, the deferred calls run, and       *)
(* whoever supervises the daemon starts it again.  No one has to send       *)
(* signals, save notes or post requests.                                    *)
FairSpec ==
  /\ Spec
  /\ WF_vars(Start) /\ WF_vars(HttpReturns) /\ WF_vars(WatcherReturns)
  /\ WF_vars(RunReturns) /\ WF_vars(CloseStore) /\ WF_vars(Exit)
  /\ WF_vars(WorkerStep)
  /\ \A p \in Path : WF_vars(TimerFires(p))
  /\ \A s \in Slot : WF_vars(ProducerStep(s))
-----------------------------------------------------------------------------
Row == [id : 1..MaxId, path : Path, mtime : {AnyMtime},
        position : 1..MaxId, status : Status]

(* Every variable keeps its type, and the worker has an entry exactly while *)
(* it logs or removes one.                                                  *)
TypeOK ==
  /\ queue \subseteq Row
  /\ nextId \in 1..(MaxId + 1)
  /\ processed \in [1..MaxId -> 0..2]
  /\ starts \in 0..MaxStarts
  /\ run \in RunStage
  /\ result \in {None, "nil", "error", "timeout"}
  /\ {cancelled, failed, http, watching, signalled} \subseteq BOOLEAN
  /\ worker \in WorkerStage
  /\ entry \in Entry \cup {None}
  /\ entry # None <=> worker \in {"append", "remove"}
  /\ producers \in [Slot -> Producer \cup {None}]
  /\ due \subseteq Path
  /\ {saved, acked, done} \subseteq [Path -> 0..MaxSaves]
  /\ stranded \subseteq Row

(* A clean stop leaves nothing half done: when Run returns nil, the worker  *)
(* has removed what it dequeued, whenever the signal came.                  *)
CleanStop ==
  run = "returned" /\ result = "nil" => Processing(queue) \subseteq stranded

(* A client that got 200 is owed its run: as long as no `processed' event   *)
(* covers the save, the path has a row.  Signals, errors, timeouts, crashes *)
(* and restarts do not make the row disappear.                              *)
AcknowledgedIsKept ==
  \A p \in Path : acked[p] > done[p] => \E r \in queue : r.path = p

(* The event log accounts for the table: a row that was inserted and is     *)
(* gone has its `processed' event, although the event and the deletion are  *)
(* separate statements and a crash may fall between.                        *)
GoneIsLogged ==
  \A i \in 1..(nextId - 1) : (\A r \in queue : r.id # i) => processed[i] > 0

(* No row is logged as processed twice, whatever fails between its event    *)
(* and its removal.                                                         *)
LoggedAtMostOnce == \A i \in 1..MaxId : processed[i] <= 1

(* The last process the bound allows is being stopped or gone: no one      *)
(* starts another.                                                          *)
LastStop == starts = MaxStarts /\ (cancelled \/ run # "waiting")

(* The row was dequeued by a process that is gone. *)
Stranded(p) == \E r \in Processing(queue) : r.path = p /\ (worker = "exited" \/ r \in stranded)

(* What a client got 200 for is processed, across errors, crashes and       *)
(* restarts, unless its row was being processed when its process ended.     *)
AcknowledgedGetsProcessed ==
  \A p \in Path : (acked[p] > done[p]) ~> (acked[p] <= done[p] \/ Stranded(p) \/ LastStop)

(* The daemon stops when it is told to or when a goroutine fails.           *)
StopsForAReason ==
  run = "returned" => signalled \/ failed

(* Every save that fsWatcher saw is processed, across clean restarts.       *)
SavesGetProcessed ==
  \A p \in Path, n \in 1..MaxSaves :
    (saved[p] = n /\ p \in due) ~> (done[p] >= n \/ LastStop)
=============================================================================
