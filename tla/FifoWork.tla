------------------------------ MODULE FifoWork ------------------------------
(***************************************************************************)
(* What openspec/specs/note-queue/spec.md promises of the queue, with no   *)
(* table in sight.  A path waits at most once, with the newest mtime it    *)
(* was submitted with; paths are taken in the order in which they began to *)
(* wait; a path submitted while it is in work waits again, behind the      *)
(* others.  (docs/automated-annotation-prd.md:115 would have Update move   *)
(* the path to the back: NoteQueue's ResavedGoesToBack.)                   *)
(***************************************************************************)
CONSTANTS Path, Mtime, Worker, None

VARIABLES
  waiting,    \* the notes that wait: [path, mtime], one per path
  before,     \* <<p, q>>: p began to wait before q
  inWork      \* the note each worker has, or None

vars == <<waiting, before, inWork>>

Paths == {n.path : n \in waiting}

Init ==
  /\ waiting = {}
  /\ before = {}
  /\ inWork = [w \in Worker |-> None]

JoinBack(n) ==
  /\ n.path \notin Paths
  /\ waiting' = waiting \cup {n}
  /\ before' = before \cup (Paths \X {n.path})

(* A path that does not wait yet goes to the back ... *)
Submit(p, m) ==
  /\ JoinBack([path |-> p, mtime |-> m])
  /\ UNCHANGED inWork

(* ... one that does keeps its place and takes the new mtime (spec.md:27).  *)
Update(p, m) ==
  /\ p \in Paths
  /\ waiting' = {n \in waiting : n.path # p} \cup {[path |-> p, mtime |-> m]}
  /\ UNCHANGED <<before, inWork>>

(* An idle worker takes the note that has waited longest. *)
Take(w) ==
  /\ inWork[w] = None
  /\ \E n \in waiting :
       /\ \A q \in Paths : <<q, n.path>> \notin before
       /\ waiting' = waiting \ {n}
       /\ before' = {pq \in before : pq[1] # n.path /\ pq[2] # n.path}
       /\ inWork' = [inWork EXCEPT ![w] = n]

(* The work is over, or its worker is gone. *)
Drop(w) ==
  /\ inWork[w] # None
  /\ inWork' = [inWork EXCEPT ![w] = None]
  /\ UNCHANGED <<waiting, before>>

(* The note goes to the back of the line for another turn. *)
GiveBack(w) ==
  /\ inWork[w] # None
  /\ JoinBack(inWork[w])
  /\ inWork' = [inWork EXCEPT ![w] = None]

Next ==
  \/ \E p \in Path, m \in Mtime : Submit(p, m) \/ Update(p, m)
  \/ \E w \in Worker : Take(w) \/ Drop(w) \/ GiveBack(w)

Spec == Init /\ [][Next]_vars
=============================================================================
