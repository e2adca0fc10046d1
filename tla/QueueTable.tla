----------------------------- MODULE QueueTable -----------------------------
(***************************************************************************)
(* The `queue' table of internal/queue/queue.go and the four prepared SQL  *)
(* statements that read and write it, as operators on a set of rows.       *)
(*                                                                         *)
(* A row is [id, path, mtime, position, status].  The columns created_at   *)
(* and updated_at are never read by the program and are left out.  Each    *)
(* statement runs in SQLite as one implicit transaction, so one operator   *)
(* is one atomic step.                                                     *)
(***************************************************************************)
EXTENDS Integers

Status == {"pending", "processing"}

Pending(q) == {r \in q : r.status = "pending"}

\* Mutant of PendingPaths: the unique index covers rows of every status.
PathsOf(q) == {r.path : r \in q}

PendingPaths(q) == {r.path : r \in Pending(q)}

\* Mutant of MaxPosition: the maximum over the rows that wait only.
MaxPendingPosition(q) ==
  CHOOSE n \in {0} \cup {r.position : r \in Pending(q)} :
    \A r \in Pending(q) : r.position <= n

(* COALESCE(MAX(position), 0), over the rows of both statuses. *)
MaxPosition(q) ==
  CHOOSE n \in {0} \cup {r.position : r \in q} : \A r \in q : r.position <= n

\* Mutant of NextPosition: the + 1 is dropped.
LastPosition(q) == MaxPosition(q)

NextPosition(q) == MaxPosition(q) + 1

(***************************************************************************)
(* sqlEnqueue: insert at the back or, when the partial unique index        *)
(* (file_path WHERE status = 'pending') already has the path, refresh the  *)
(* mtime of that row and nothing else.                                     *)
(***************************************************************************)
NewRow(q, id, p, m) ==
  [id |-> id, path |-> p, mtime |-> m,
   position |-> NextPosition(q), status |-> "pending"]

\* Mutant of Refresh: the conflict target lost its WHERE status = 'pending'.
RefreshAnyStatus(q, p, m) ==
  {IF r.path = p THEN [r EXCEPT !.mtime = m] ELSE r : r \in q}

\* Mutant of Refresh: a coalesced save moves its row to the back.
RefreshAtBack(q, p, m) ==
  {IF r.path = p /\ r.status = "pending"
     THEN [r EXCEPT !.mtime = m, !.position = NextPosition(q)] ELSE r : r \in q}

Refresh(q, p, m) ==
  {IF r.path = p /\ r.status = "pending" THEN [r EXCEPT !.mtime = m] ELSE r : r \in q}

\* Mutant of IsFront: ORDER BY position DESC.
IsBack(q, r) == r \in Pending(q) /\ \A s \in Pending(q) : s.position <= r.position

\* Mutant of IsFront: WHERE status = 'pending' is dropped.
IsFirst(q, r) == r \in q /\ \A s \in q : r.position <= s.position

(* ORDER BY position ASC LIMIT 1: a pending row no pending row is before. *)
IsFront(q, r) == r \in Pending(q) /\ \A s \in Pending(q) : r.position <= s.position

(* sqlDequeue, on the row it selects. *)
MarkProcessing(q, r) == (q \ {r}) \cup {[r EXCEPT !.status = "processing"]}

\* Mutant of ToBack: the status is not set back to pending.
ToBackProcessing(q, r) == (q \ {r}) \cup {[r EXCEPT !.position = NextPosition(q)]}

(* sqlReEnqueue, on the row with the given id: its new position is computed *)
(* over all rows, itself included.                                          *)
ToBack(q, r) ==
  (q \ {r}) \cup {[r EXCEPT !.status = "pending", !.position = NextPosition(q)]}

\* Mutant of IndexRefuses: the schema before migration 009, no unique index.
NoIndex(q, r) == FALSE

(* The partial unique index refuses a second pending row for a path. *)
IndexRefuses(q, r) == \E s \in Pending(q) : s.path = r.path /\ s.id # r.id

\* Mutant of DeleteId: DELETE ... WHERE file_path = the path of that row.
DeletePath(q, id) == {r \in q : \A s \in q : s.id = id => r.path # s.path}

(* sqlRemove. *)
DeleteId(q, id) == {r \in q : r.id # id}
=============================================================================
