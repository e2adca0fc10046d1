------------------------------ MODULE EventLog ------------------------------
(***************************************************************************)
(* internal/eventlog: Append and Prune, called by any number of goroutines *)
(* at once.  Both read the clock before their statement runs, and others   *)
(* may come in between.  An event is the id of its row and its timestamp.  *)
(***************************************************************************)
EXTENDS Integers

CONSTANTS
  Caller,        \* bound: calls at once
  Day,           \* ticks of the clock in a day
  MaxTime,       \* bound: ticks of the clock
  MaxEvents,     \* bound: events ever appended
  NoCall         \* a caller that calls nothing

ASSUME EventBounds == {Day, MaxTime, MaxEvents} \subseteq Nat

VARIABLES
  retention,     \* the retentionDays that Prune is called with
  clock,         \* time.Now
  log,           \* the rows of event_log
  sequence,      \* sqlite_sequence: the greatest id ever given
  calls,         \* caller -> the call in progress and the time it works with
  appended       \* history: the rows that were ever in the log

eventVars == <<retention, clock, log, sequence, calls, appended>>

EventLogInit(callers, retentions) ==
  /\ retention \in retentions
  /\ clock = 0
  /\ log = {} /\ sequence = 0
  /\ calls = [c \in callers |-> NoCall]
  /\ appended = {}

Tick ==
  /\ clock < MaxTime
  /\ clock' = clock + 1
  /\ UNCHANGED <<retention, log, sequence, calls, appended>>

Begin(c, call) ==
  /\ calls[c] = NoCall
  /\ calls' = [calls EXCEPT ![c] = call]
  /\ UNCHANGED <<retention, clock, log, sequence, appended>>

(* The timestamp is read. *)
AppendEvent(c) == Begin(c, [op |-> "append", at |-> clock])

Cutoff == clock - retention * Day

Prune(c) == Begin(c, [op |-> "prune", at |-> Cutoff])

(* INTEGER PRIMARY KEY AUTOINCREMENT *)
NextEventId == sequence + 1

Returned(c) == calls' = [calls EXCEPT ![c] = NoCall]

InsertEvent(c) ==
  /\ calls[c] # NoCall /\ calls[c].op = "append"
  /\ sequence < MaxEvents
  /\ LET event == [id |-> NextEventId, at |-> calls[c].at]
     IN  log' = log \cup {event} /\ appended' = appended \cup {event}
  /\ sequence' = sequence + 1
  /\ Returned(c)
  /\ UNCHANGED <<retention, clock>>

\* Mutant of Expired: the events at the cutoff go too.
ExpiredAtCutoff(cutoff) == {e \in log : e.at <= cutoff}

Expired(cutoff) == {e \in log : e.at < cutoff}

DeleteExpired(c) ==
  /\ calls[c] # NoCall /\ calls[c].op = "prune"
  /\ log' = log \ Expired(calls[c].at)
  /\ Returned(c)
  /\ UNCHANGED <<retention, clock, sequence, appended>>

(* A statement fails: nothing is inserted or deleted. *)
StatementFails(c) ==
  /\ calls[c] # NoCall
  /\ Returned(c)
  /\ UNCHANGED <<retention, clock, log, sequence, appended>>

EventLogNext ==
  \/ Tick
  \/ \E c \in DOMAIN calls :
       AppendEvent(c) \/ Prune(c) \/ InsertEvent(c) \/ DeleteExpired(c) \/ StatementFails(c)
-----------------------------------------------------------------------------
(* An event is in the log for the whole of its retention, whoever appends   *)
(* and prunes meanwhile and however long a call takes from the clock to its *)
(* statement.  A retention of 0 days has another promise, "deletes all      *)
(* rows" (eventlog.go:71, openspec/specs/event-log/spec.md:44-46): the code *)
(* deletes those before the reading of the clock, and a row appended        *)
(* between it and the statement stays.                                      *)
RetentionIsKept ==
  retention > 0 => \A e \in appended : clock - e.at <= retention * Day => e \in log
=============================================================================
