----------------------------- MODULE FsWatcher ------------------------------
(***************************************************************************)
(* fsWatcher of internal/daemon/daemon.go: the goroutine that turns file   *)
(* system events into debounced calls of Queue.Enqueue.                    *)
(*                                                                         *)
(* Three kinds of processes share the map `timers' under a mutex: the      *)
(* watcher loop, the time.AfterFunc timers, and the callbacks the timers   *)
(* start.  A timer that is Reset while its callback runs starts a second   *)
(* one; a callback deletes the map entry of its path whatever timer the    *)
(* entry holds by then.  Each critical section is one step.                *)
(*                                                                         *)
(* Time is counted in ticks: an armed timer knows how many it has left.    *)
(* It may fire late but never early.                                       *)
(***************************************************************************)
EXTENDS Integers, Sequences

CONSTANTS
  Path,        \* the .md files of the workspace
  Timer,       \* bound: the time.Timer objects alive at once
  Slot,        \* bound: the callbacks running at once
  None,        \* no timer, no callback, no path
  Delay,       \* DebounceInterval, in ticks
  MaxEvents,   \* bound: events per path
  CanFail      \* whether Queue.Enqueue may return an error

ASSUME DelayAssumption == Delay \in Nat \ {0}     \* New refuses a Delay <= 0
ASSUME BoundAssumption == MaxEvents \in Nat
ASSUME FailAssumption == CanFail \in BOOLEAN

Op == {"write", "other"}                 \* Write or Create; Remove, Rename, Chmod
Stage == {"enqueue", "log", "delete"}    \* what a callback is about to do

ASSUME NoneAssumption ==
  /\ None \notin Path \cup Timer \cup Slot
  /\ None \notin [path : Path, left : 0..Delay]
  /\ None \notin [path : Path, stage : Stage]

VARIABLES
  saves,       \* history: how often each path was written
  noise,       \* history: how often it had another event
  events,      \* fsnotify's channel
  arming,      \* the path whose `saved' is logged and whose timer is next, or None
  timers,      \* the map: path -> timer, or None
  armed,       \* timer -> the path it is for and the ticks it has left, or None
  callbacks,   \* slot -> the path and the stage of a running callback, or None
  tried,       \* history: saves[p] when Enqueue was last called for p
  enqueues     \* history: how often p was enqueued

vars == <<saves, noise, events, arming, timers, armed, callbacks, tried, enqueues>>

Init ==
  /\ saves = [p \in Path |-> 0]
  /\ noise = [p \in Path |-> 0]
  /\ events = <<>>
  /\ arming = None
  /\ timers = [p \in Path |-> None]
  /\ armed = [t \in Timer |-> None]
  /\ callbacks = [s \in Slot |-> None]
  /\ tried = [p \in Path |-> 0]
  /\ enqueues = [p \in Path |-> 0]
-----------------------------------------------------------------------------
(* An editor writes the file, or does something else to it. *)
Save(p) ==
  /\ saves[p] < MaxEvents
  /\ saves' = [saves EXCEPT ![p] = @ + 1]
  /\ events' = Append(events, [path |-> p, op |-> "write"])
  /\ UNCHANGED <<noise, arming, timers, armed, callbacks, tried, enqueues>>

Touch(p) ==
  /\ noise[p] < 1
  /\ noise' = [noise EXCEPT ![p] = @ + 1]
  /\ events' = Append(events, [path |-> p, op |-> "other"])
  /\ UNCHANGED <<saves, arming, timers, armed, callbacks, tried, enqueues>>

\* Mutant of Relevant: the test of event.Op is dropped.
Everything(e) == TRUE

Relevant(e) == e.op = "write"

(* The loop takes an event; one that matters is logged as `saved'. *)
Receive ==
  /\ arming = None
  /\ events # <<>>
  /\ events' = Tail(events)
  /\ arming' = IF Relevant(Head(events)) THEN Head(events).path ELSE None
  /\ UNCHANGED <<saves, noise, timers, armed, callbacks, tried, enqueues>>

\* Mutant of Countdown: one tick too many.
LongCountdown(p) == [path |-> p, left |-> Delay + 1]

Countdown(p) == [path |-> p, left |-> Delay]

Free(t) == armed[t] = None /\ \A p \in Path : timers[p] # t

\* Mutant of SetTimer: a timer that is in the map already is left alone.
SetTimerOnce(p) ==
  IF timers[p] # None THEN UNCHANGED <<timers, armed>>
  ELSE \E t \in Timer :
         /\ Free(t)
         /\ timers' = [timers EXCEPT ![p] = t]
         /\ armed' = [armed EXCEPT ![t] = Countdown(p)]

(* The timer whose turn it is for p: the one in the map is Reset, else one  *)
(* is made by AfterFunc and put there.                                      *)
SetTimer(p) ==
  \E t \in Timer :
    /\ IF timers[p] # None THEN t = timers[p] ELSE Free(t)
    /\ timers' = [timers EXCEPT ![p] = t]
    /\ armed' = [armed EXCEPT ![t] = Countdown(p)]

Arm ==
  /\ arming # None
  /\ SetTimer(arming)
  /\ arming' = None
  /\ UNCHANGED <<saves, noise, events, callbacks, tried, enqueues>>

(* The runtime starts the callback of an expired timer in a goroutine. *)
Fire(t) ==
  /\ armed[t] # None
  /\ armed[t].left = 0
  /\ \E s \in Slot :
       /\ callbacks[s] = None
       /\ callbacks' = [callbacks EXCEPT ![s] = [path |-> armed[t].path, stage |-> "enqueue"]]
  /\ armed' = [armed EXCEPT ![t] = None]
  /\ UNCHANGED <<saves, noise, events, arming, timers, tried, enqueues>>

At(s, stage) == callbacks[s] # None /\ callbacks[s].stage = stage

GoTo(s, stage) == callbacks' = [callbacks EXCEPT ![s].stage = stage]

Try(s) == tried' = [tried EXCEPT ![callbacks[s].path] = saves[callbacks[s].path]]

(* Queue.Enqueue goes through: whoever dequeues the row from now on finds   *)
(* the file as it is at this moment, or newer.                              *)
CallbackEnqueue(s) ==
  /\ At(s, "enqueue")
  /\ Try(s)
  /\ enqueues' = [enqueues EXCEPT ![callbacks[s].path] = @ + 1]
  /\ GoTo(s, "log")
  /\ UNCHANGED <<saves, noise, events, arming, timers, armed>>

(* Queue.Enqueue returns an error: the callback returns at once, without    *)
(* deleting the map entry.                                                  *)
CallbackFails(s) ==
  /\ CanFail
  /\ At(s, "enqueue")
  /\ Try(s)
  /\ callbacks' = [callbacks EXCEPT ![s] = None]
  /\ UNCHANGED <<saves, noise, events, arming, timers, armed, enqueues>>

(* The `enqueued' event is appended; an error is ignored. *)
CallbackLog(s) ==
  /\ At(s, "log")
  /\ GoTo(s, "delete")
  /\ UNCHANGED <<saves, noise, events, arming, timers, armed, tried, enqueues>>

CallbackDelete(s) ==
  /\ At(s, "delete")
  /\ timers' = [timers EXCEPT ![callbacks[s].path] = None]
  /\ callbacks' = [callbacks EXCEPT ![s] = None]
  /\ UNCHANGED <<saves, noise, events, arming, armed, tried, enqueues>>

(* One tick.  It does nothing once every timer has expired. *)
Tick ==
  /\ \E t \in Timer : armed[t] # None /\ armed[t].left > 0
  /\ armed' = [t \in Timer |->
                 IF armed[t] # None /\ armed[t].left > 0
                 THEN [armed[t] EXCEPT !.left = @ - 1] ELSE armed[t]]
  /\ UNCHANGED <<saves, noise, events, arming, timers, callbacks, tried, enqueues>>

Callback(s) == CallbackEnqueue(s) \/ CallbackFails(s) \/ CallbackLog(s) \/ CallbackDelete(s)

Next ==
  \/ \E p \in Path : Save(p) \/ Touch(p)
  \/ Receive \/ Arm \/ Tick
  \/ \E t \in Timer : Fire(t)
  \/ \E s \in Slot : Callback(s)

Spec == Init /\ [][Next]_vars

(* The loop runs, time passes, timers fire and goroutines proceed; editors  *)
(* owe nothing, and Enqueue is not obliged to fail.                         *)
FairSpec ==
  /\ Spec
  /\ WF_vars(Receive) /\ WF_vars(Arm) /\ WF_vars(Tick)
  /\ \A t \in Timer : WF_vars(Fire(t))
  /\ \A s \in Slot : WF_vars(Callback(s))
-----------------------------------------------------------------------------
(* Every variable keeps its type; in particular no path is enqueued more    *)
(* often than it can have been written.                                     *)
TypeOK ==
  /\ saves \in [Path -> 0..MaxEvents]
  /\ noise \in [Path -> 0..1]
  /\ events \in Seq([path : Path, op : Op])
  /\ arming \in Path \cup {None}
  /\ timers \in [Path -> Timer \cup {None}]
  /\ armed \in [Timer -> [path : Path, left : 0..Delay] \cup {None}]
  /\ callbacks \in [Slot -> [path : Path, stage : Stage] \cup {None}]
  /\ tried \in [Path -> 0..MaxEvents]
  /\ enqueues \in [Path -> 0..MaxEvents]

(* Someone still has to enqueue p: the event is unread or half handled, a   *)
(* timer for p is armed, or a callback has yet to call Enqueue.             *)
OnItsWay(p) ==
  \/ \E i \in DOMAIN events : events[i] = [path |-> p, op |-> "write"]
  \/ arming = p
  \/ \E t \in Timer : armed[t] # None /\ armed[t].path = p
  \/ \E s \in Slot : At(s, "enqueue") /\ callbacks[s].path = p

(* No save is forgotten, in whatever order events, Resets and the deletion  *)
(* of map entries fall, and whatever map entry a failed callback leaves     *)
(* behind: what was saved after the last call of Enqueue for its path is on *)
(* its way to another.                                                      *)
NoSaveForgotten == \A p \in Path : saves[p] > tried[p] => OnItsWay(p)

(* Debouncing never adds work: a path is enqueued at most once per write,   *)
(* and events that write nothing enqueue nothing.                           *)
AtMostOncePerSave == \A p \in Path : enqueues[p] <= saves[p]

(* Every save is followed by an Enqueue of its path, which may succeed or   *)
(* fail; failures do not keep later saves from being tried.  Saves are      *)
(* finite: a path saved for ever at intervals below DebounceInterval is     *)
(* never enqueued.                                                          *)
SavesGetEnqueued ==
  \A p \in Path, n \in 1..MaxEvents : saves[p] = n ~> tried[p] >= n
=============================================================================
