-------------------------- MODULE NoteQueueProofs ---------------------------
(***************************************************************************)
(* The safety invariants of NoteQueue, proved for every set of paths,      *)
(* mtimes and workers and for every value of the bounds.                   *)
(***************************************************************************)
EXTENDS NoteQueue, QueueTableProofs

LEMMA NextPositionIsNew ==
  ASSUME NEW q \in SUBSET Row
  PROVE  /\ NextPosition(q) \in Nat \ {0}
         /\ \A r \in q : r.position < NextPosition(q)
<1>1. LastPos \in Nat /\ \A r \in q : r.position \in 0..LastPos
  BY BoundAssumption DEF Row
<1> QED BY <1>1, NextPositionIsLast
-----------------------------------------------------------------------------
(* Ids identify rows, because each was handed out once.                     *)
IdsUnique ==
  /\ \A r \in queue : r.id < nextId
  /\ \A r, s \in queue : r.id = s.id => r = s

(***************************************************************************)
(* The inductive invariant.  HeldConsistent needs IdsUnique: a worker      *)
(* names its row by id, and Remove or ReEnqueue of one worker must not     *)
(* reach the row of another.                                               *)
(***************************************************************************)
IInv == TypeOK /\ IdsUnique /\ PendingUnique /\ PositionsDistinct /\ HeldConsistent

(* What a worker's id denotes, when the invariant holds. *)
LEMMA HeldRowIsHeld ==
  ASSUME IInv, NEW w \in Worker, held[w] # None
  PROVE  /\ HeldRow(w) \in queue
         /\ HeldRow(w).id = held[w].id
         /\ HeldRow(w).path = held[w].path
         /\ HeldRow(w).mtime = held[w].mtime
         /\ HeldRow(w).status = "processing"
<1>1. PICK r \in queue : /\ r.id = held[w].id
                         /\ r.path = held[w].path
                         /\ r.mtime = held[w].mtime
                         /\ r.status = "processing"
  BY DEF IInv, HeldConsistent
<1>2. HeldRow(w) \in queue /\ HeldRow(w).id = held[w].id
  BY <1>1 DEF HeldRow
<1>3. HeldRow(w) = r
  BY <1>1, <1>2 DEF IInv, IdsUnique
<1> QED BY <1>1, <1>3

LEMMA InitIInv == Init => IInv
BY BoundAssumption DEF Init, IInv, TypeOK, IdsUnique, PendingUnique, PositionsDistinct,
                       HeldConsistent, Pending
-----------------------------------------------------------------------------
LEMMA InsertIInv ==
  ASSUME IInv, NEW p \in Path, NEW m \in Mtime, Insert(p, m)
  PROVE  IInv'
<1> DEFINE n == NewRow(queue, nextId, p, m)
<1>1. queue \in SUBSET Row /\ nextId \in 1..MaxId
  BY BoundAssumption DEF IInv, TypeOK, Insert
<1>2. /\ NextPosition(queue) \in 1..LastPos
      /\ \A r \in queue : r.position < NextPosition(queue)
  BY <1>1, NextPositionIsNew, BoundAssumption DEF Insert
<1>3. /\ n \in Row
      /\ n.id = nextId /\ n.path = p /\ n.mtime = m
      /\ n.position = NextPosition(queue) /\ n.status = "pending"
  BY <1>1, <1>2 DEF NewRow, Row, Status
<1>4. queue' = queue \cup {n} /\ nextId' = nextId + 1 /\ held' = held /\ refused' = refused
  BY DEF Insert
<1> HIDE DEF n
<1>5. TypeOK'
  BY <1>1, <1>3, <1>4, BoundAssumption DEF IInv, TypeOK
<1>6. IdsUnique'
  <2>1. \A r \in queue : r.id \in Nat /\ r.id < nextId
    BY <1>1, BoundAssumption DEF IInv, IdsUnique, Row
  <2> QED BY <1>1, <1>3, <1>4, <2>1 DEF IInv, IdsUnique
<1>7. PendingUnique'
  <2>1. \A r \in Pending(queue) : r.path # p
    BY DEF Insert, PendingPaths
  <2> QED BY <1>3, <1>4, <2>1 DEF IInv, PendingUnique, Pending
<1>8. PositionsDistinct'
  <2>1. \A r \in queue : r.position # n.position
    BY <1>1, <1>2, <1>3, BoundAssumption DEF Row
  <2> QED BY <1>4, <2>1 DEF IInv, PositionsDistinct
<1>9. HeldConsistent'
  BY <1>4 DEF IInv, HeldConsistent
<1> QED BY <1>5, <1>6, <1>7, <1>8, <1>9 DEF IInv

LEMMA CoalesceIInv ==
  ASSUME IInv, NEW p \in Path, NEW m \in Mtime, Coalesce(p, m)
  PROVE  IInv'
<1> DEFINE F(r) == IF r.path = p /\ r.status = "pending" THEN [r EXCEPT !.mtime = m] ELSE r
<1>1. queue' = {F(r) : r \in queue} /\ UNCHANGED <<nextId, held, refused>>
  BY DEF Coalesce, Refresh
<1>2. ASSUME NEW r \in queue
      PROVE  /\ F(r) \in Row
             /\ F(r).id = r.id /\ F(r).path = r.path
             /\ F(r).position = r.position /\ F(r).status = r.status
             /\ r.status = "processing" => F(r) = r
  <2>1. r \in Row
    BY DEF IInv, TypeOK
  <2> QED BY <2>1 DEF Row, Status
<1> HIDE DEF F
<1>3. TypeOK'
  BY <1>1, <1>2 DEF IInv, TypeOK
<1>4. IdsUnique'
  BY <1>1, <1>2 DEF IInv, IdsUnique
<1>5. PendingUnique'
  BY <1>1, <1>2 DEF IInv, PendingUnique, Pending
<1>6. PositionsDistinct'
  BY <1>1, <1>2 DEF IInv, PositionsDistinct
<1>7. HeldConsistent'
  BY <1>1, <1>2 DEF IInv, HeldConsistent
<1> QED BY <1>3, <1>4, <1>5, <1>6, <1>7 DEF IInv

LEMMA DequeueIInv ==
  ASSUME IInv, NEW w \in Worker, Dequeue(w)
  PROVE  IInv'
<1>1. PICK r \in queue :
        /\ IsFront(queue, r)
        /\ queue' = MarkProcessing(queue, r)
        /\ held' = [held EXCEPT ![w] = [id |-> r.id, path |-> r.path, mtime |-> r.mtime]]
  BY DEF Dequeue
<1> DEFINE n == [r EXCEPT !.status = "processing"]
           e == [id |-> r.id, path |-> r.path, mtime |-> r.mtime]
<1>2. queue' = (queue \ {r}) \cup {n} /\ held' = [held EXCEPT ![w] = e]
      /\ UNCHANGED <<nextId, refused>>
  BY <1>1 DEF MarkProcessing, Dequeue
<1>3. r \in Row /\ r.status = "pending"
  BY <1>1 DEF IInv, TypeOK, IsFront, Pending
<1>4. /\ n \in Row
      /\ n.id = r.id /\ n.path = r.path /\ n.mtime = r.mtime
      /\ n.position = r.position /\ n.status = "processing"
  BY <1>3 DEF Row, Status
<1>5. e \in Entry /\ e # None /\ e.id = r.id /\ e.path = r.path /\ e.mtime = r.mtime
  BY <1>3, NoneAssumption, BoundAssumption DEF Row, Entry
<1> HIDE DEF n, e
<1>6. TypeOK'
  BY <1>2, <1>4, <1>5 DEF IInv, TypeOK
<1>7. IdsUnique'
  BY <1>2, <1>4 DEF IInv, IdsUnique
<1>8. PendingUnique'
  BY <1>2, <1>4 DEF IInv, PendingUnique, Pending
<1>9. PositionsDistinct'
  BY <1>2, <1>4 DEF IInv, PositionsDistinct
<1>10. HeldConsistent'
  <2>1. ASSUME NEW v \in Worker, held'[v] # None
        PROVE  \E s \in queue' : /\ s.id = held'[v].id
                                 /\ s.path = held'[v].path
                                 /\ s.mtime = held'[v].mtime
                                 /\ s.status = "processing"
    <3>1. CASE v = w
      <4>1. held'[v] = e
        BY <1>2, <3>1 DEF IInv, TypeOK
      <4> QED BY <1>2, <1>4, <1>5, <4>1
    <3>2. CASE v # w
      <4>1. held'[v] = held[v]
        BY <1>2, <3>2 DEF IInv, TypeOK
      <4>2. PICK s \in queue : /\ s.id = held[v].id
                               /\ s.path = held[v].path
                               /\ s.mtime = held[v].mtime
                               /\ s.status = "processing"
        BY <2>1, <4>1 DEF IInv, HeldConsistent
      <4>3. s # r
        BY <1>3, <4>2
      <4> QED BY <1>2, <4>1, <4>2, <4>3
    <3> QED BY <3>1, <3>2
  <2>2. ASSUME NEW u \in Worker, NEW v \in Worker,
               held'[u] # None, held'[v] # None, held'[v].id = held'[u].id
        PROVE  v = u
    <3>1. \A x \in Worker : x # w /\ held[x] # None => held[x].id # r.id
      BY <1>3 DEF IInv, HeldConsistent, IdsUnique
    <3>2. held'[w] = e /\ \A x \in Worker : x # w => held'[x] = held[x]
      BY <1>2 DEF IInv, TypeOK
    <3>3. CASE u = w \/ v = w
      BY <1>5, <2>2, <3>1, <3>2, <3>3
    <3>4. CASE u # w /\ v # w
      BY <2>2, <3>2, <3>4 DEF IInv, HeldConsistent
    <3> QED BY <3>3, <3>4
  <2> QED BY <2>1, <2>2 DEF HeldConsistent
<1> QED BY <1>6, <1>7, <1>8, <1>9, <1>10 DEF IInv

(***************************************************************************)
(* Workers that let go of an entry: what is left of HeldConsistent is that *)
(* the rows of the other workers are still there, unchanged.               *)
(***************************************************************************)
LEMMA LetGo ==
  ASSUME IInv, NEW w \in Worker, held[w] # None,
         held' = [held EXCEPT ![w] = None],
         \A r \in queue : r.id # held[w].id => r \in queue'
  PROVE  HeldConsistent' /\ held' \in [Worker -> Entry \cup {None}]
<1>1. \A v \in Worker : held'[v] = IF v = w THEN None ELSE held[v]
  BY DEF IInv, TypeOK
<1>2. ASSUME NEW v \in Worker, held'[v] # None
      PROVE  \E s \in queue' : /\ s.id = held'[v].id
                               /\ s.path = held'[v].path
                               /\ s.mtime = held'[v].mtime
                               /\ s.status = "processing"
  <2>1. v # w /\ held'[v] = held[v]
    BY <1>1, <1>2
  <2>2. PICK s \in queue : /\ s.id = held[v].id
                           /\ s.path = held[v].path
                           /\ s.mtime = held[v].mtime
                           /\ s.status = "processing"
    BY <1>2, <2>1 DEF IInv, HeldConsistent
  <2>3. s.id # held[w].id
    BY <1>2, <2>1, <2>2 DEF IInv, HeldConsistent
  <2> QED BY <2>1, <2>2, <2>3
<1>3. ASSUME NEW u \in Worker, NEW v \in Worker,
             held'[u] # None, held'[v] # None, held'[v].id = held'[u].id
      PROVE  v = u
  BY <1>1, <1>3 DEF IInv, HeldConsistent
<1>4. held' \in [Worker -> Entry \cup {None}]
  BY DEF IInv, TypeOK
<1> QED BY <1>2, <1>3, <1>4 DEF HeldConsistent

LEMMA RemoveIInv ==
  ASSUME IInv, NEW w \in Worker, Remove(w)
  PROVE  IInv'
<1>1. /\ held[w] # None
      /\ queue' = {r \in queue : r.id # held[w].id}
      /\ held' = [held EXCEPT ![w] = None]
      /\ refused' = refused \ {w} /\ nextId' = nextId
  BY DEF Remove, HasRow, DeleteId
<1>2. HeldConsistent' /\ held' \in [Worker -> Entry \cup {None}]
  BY <1>1, LetGo
<1>3. queue' \subseteq queue
  BY <1>1
<1>4. TypeOK'
  BY <1>1, <1>2, <1>3 DEF IInv, TypeOK
<1>5. IdsUnique' /\ PendingUnique' /\ PositionsDistinct'
  BY <1>1, <1>3 DEF IInv, IdsUnique, PendingUnique, PositionsDistinct, Pending
<1> QED BY <1>2, <1>4, <1>5 DEF IInv

LEMMA ReEnqueueIInv ==
  ASSUME IInv, NEW w \in Worker, ReEnqueue(w)
  PROVE  IInv'
<1> DEFINE h == HeldRow(w)
           n == [h EXCEPT !.status = "pending", !.position = NextPosition(queue)]
<1>1. /\ held[w] # None
      /\ ~IndexRefuses(queue, h)
      /\ queue' = (queue \ {h}) \cup {n}
      /\ held' = [held EXCEPT ![w] = None]
      /\ refused' = refused \ {w} /\ nextId' = nextId
  BY DEF ReEnqueue, HasRow, ToBack
<1>2. h \in queue /\ h.id = held[w].id /\ h.path = held[w].path
  BY <1>1, HeldRowIsHeld
<1>3. /\ NextPosition(queue) \in 1..LastPos
      /\ \A r \in queue : r.position # NextPosition(queue)
  <2>1. queue \in SUBSET Row /\ NextPosition(queue) <= LastPos
    BY DEF IInv, TypeOK, ReEnqueue
  <2>2. \A r \in queue : r.position \in Nat
    BY <2>1, BoundAssumption DEF Row
  <2> QED BY <2>1, <2>2, NextPositionIsNew, BoundAssumption
<1>4. /\ n \in Row
      /\ n.id = h.id /\ n.path = h.path /\ n.mtime = h.mtime
      /\ n.position = NextPosition(queue) /\ n.status = "pending"
  <2>1. h \in Row
    BY <1>2 DEF IInv, TypeOK
  <2> HIDE DEF h
  <2> QED BY <1>3, <2>1 DEF Row, Status
<1>5. HeldConsistent' /\ held' \in [Worker -> Entry \cup {None}]
  <2>1. \A r \in queue : r.id # held[w].id => r \in queue'
    BY <1>1, <1>2
  <2> QED BY <1>1, <2>1, LetGo
<1> HIDE DEF n, h
<1>6. TypeOK'
  BY <1>1, <1>4, <1>5 DEF IInv, TypeOK
<1>7. IdsUnique'
  BY <1>1, <1>2, <1>4 DEF IInv, IdsUnique
<1>8. PendingUnique'
  <2>1. \A s \in Pending(queue) : s # h => s.path # h.path
    BY <1>1, <1>2 DEF IndexRefuses, Pending, IInv, IdsUnique
  <2> QED BY <1>1, <1>4, <2>1 DEF IInv, PendingUnique, Pending
<1>9. PositionsDistinct'
  BY <1>1, <1>3, <1>4 DEF IInv, PositionsDistinct
<1> QED BY <1>5, <1>6, <1>7, <1>8, <1>9 DEF IInv

LEMMA CrashIInv ==
  ASSUME IInv, NEW w \in Worker, Crash(w)
  PROVE  IInv'
<1>1. /\ held[w] # None
      /\ held' = [held EXCEPT ![w] = None]
      /\ refused' = refused \ {w} /\ queue' = queue /\ nextId' = nextId
  BY DEF Crash
<1>2. HeldConsistent' /\ held' \in [Worker -> Entry \cup {None}]
  BY <1>1, LetGo
<1> QED BY <1>1, <1>2 DEF IInv, TypeOK, IdsUnique, PendingUnique, PositionsDistinct, Pending

LEMMA SameTableIInv ==
  ASSUME IInv, UNCHANGED <<queue, nextId, held>>, refused' \subseteq Worker
  PROVE  IInv'
BY DEF IInv, TypeOK, IdsUnique, PendingUnique, PositionsDistinct, HeldConsistent, Pending

LEMMA NextIInv == IInv /\ [Next]_vars => IInv'
<1> SUFFICES ASSUME IInv, [Next]_vars PROVE IInv'
  OBVIOUS
<1>1. ASSUME NEW p \in Path, NEW m \in Mtime, Enqueue(p, m) PROVE IInv'
  BY <1>1, InsertIInv, CoalesceIInv DEF Enqueue
<1>2. ASSUME NEW w \in Worker, Dequeue(w) PROVE IInv'
  BY <1>2, DequeueIInv
<1>3. ASSUME NEW w \in Worker, Remove(w) PROVE IInv'
  BY <1>3, RemoveIInv
<1>4. ASSUME NEW w \in Worker, ReEnqueue(w) PROVE IInv'
  BY <1>4, ReEnqueueIInv
<1>5. ASSUME NEW w \in Worker, ReEnqueueFails(w) PROVE IInv'
  <2>1. refused' \subseteq Worker /\ UNCHANGED <<queue, nextId, held>>
    BY <1>5 DEF ReEnqueueFails, IInv, TypeOK
  <2> QED BY <2>1, SameTableIInv
<1>6. ASSUME NEW w \in Worker, Crash(w) PROVE IInv'
  BY <1>6, CrashIInv
<1>7. CASE UNCHANGED vars
  <2>1. refused' \subseteq Worker /\ UNCHANGED <<queue, nextId, held>>
    BY <1>7 DEF vars, IInv, TypeOK
  <2> QED BY <2>1, SameTableIInv
<1> QED BY <1>1, <1>2, <1>3, <1>4, <1>5, <1>6, <1>7 DEF Next, DequeueNil

THEOREM Inductive == Spec => []IInv
BY InitIInv, NextIInv, PTL DEF Spec
-----------------------------------------------------------------------------
(* Every reachable state is well typed.                                     *)
THEOREM TypeCorrect == Spec => []TypeOK
<1>1. IInv => TypeOK
  BY DEF IInv
<1> QED BY <1>1, Inductive, PTL

(* At most one pending row per path, always.                                *)
THEOREM Deduplicated == Spec => []PendingUnique
<1>1. IInv => PendingUnique
  BY DEF IInv
<1> QED BY <1>1, Inductive, PTL

(* Positions order the rows strictly, always.                               *)
THEOREM StrictOrder == Spec => []PositionsDistinct
<1>1. IInv => PositionsDistinct
  BY DEF IInv
<1> QED BY <1>1, Inductive, PTL

(* What a worker holds is its own and still true, always.                   *)
THEOREM HeldIsTrue == Spec => []HeldConsistent
<1>1. IInv => HeldConsistent
  BY DEF IInv
<1> QED BY <1>1, Inductive, PTL
-----------------------------------------------------------------------------
(***************************************************************************)
(* What the queue promises, proved: nobody is overtaken, and the table     *)
(* with its positions and statuses implements FifoWork.  Both rest on the  *)
(* inductive invariant.                                                    *)
(***************************************************************************)
LEMMA OrderMember ==
  ASSUME NEW q, NEW a, NEW b
  PROVE  <<a, b>> \in OrderOf(q) <=>
           \E r, s \in Pending(q) : r.path = a /\ s.path = b /\ r.position < s.position
BY DEF OrderOf, PendingPaths

(* A set of pairs is the order if it has the same pairs. *)
LEMMA OrderIs ==
  ASSUME NEW q, NEW O, O \subseteq PendingPaths(q) \X PendingPaths(q),
         \A a, b \in PendingPaths(q) : <<a, b>> \in O <=> <<a, b>> \in OrderOf(q)
  PROVE  OrderOf(q) = O
BY DEF OrderOf

(***************************************************************************)
(* Every step keeps the waiting rows in their places or puts a path that   *)
(* did not wait behind all rows.                                           *)
(***************************************************************************)
KeepsPlaces ==
  \A r \in Pending(queue') :
    \/ \E o \in Pending(queue) : o.path = r.path /\ o.position = r.position
    \/ /\ r.path \notin PendingPaths(queue)
       /\ \A o \in queue : o.position < r.position

LEMMA InsertKeepsPlaces ==
  ASSUME IInv, NEW p \in Path, NEW m \in Mtime, Insert(p, m)
  PROVE  KeepsPlaces
<1> DEFINE n == NewRow(queue, nextId, p, m)
<1>1. queue \in SUBSET Row /\ queue' = queue \cup {n} /\ p \notin PendingPaths(queue)
  BY DEF IInv, TypeOK, Insert
<1>2. n.path = p /\ \A r \in queue : r.position < n.position
  BY <1>1, NextPositionIsNew DEF NewRow
<1> HIDE DEF n
<1> QED BY <1>1, <1>2 DEF KeepsPlaces, Pending

LEMMA CoalesceKeepsPlaces ==
  ASSUME IInv, NEW p \in Path, NEW m \in Mtime, Coalesce(p, m)
  PROVE  KeepsPlaces
<1> DEFINE F(r) == IF r.path = p /\ r.status = "pending" THEN [r EXCEPT !.mtime = m] ELSE r
<1>1. queue' = {F(r) : r \in queue}
  BY DEF Coalesce, Refresh
<1>2. ASSUME NEW r \in queue
      PROVE  F(r).path = r.path /\ F(r).position = r.position /\ F(r).status = r.status
  BY DEF IInv, TypeOK, Row
<1> HIDE DEF F
<1> QED BY <1>1, <1>2 DEF KeepsPlaces, Pending

LEMMA DequeueKeepsPlaces ==
  ASSUME IInv, NEW w \in Worker, Dequeue(w)
  PROVE  KeepsPlaces
<1>1. PICK r \in queue : queue' = MarkProcessing(queue, r)
  BY DEF Dequeue
<1>2. [r EXCEPT !.status = "processing"].status = "processing"
  BY <1>1 DEF IInv, TypeOK, Row
<1> QED BY <1>1, <1>2 DEF KeepsPlaces, Pending, MarkProcessing

LEMMA RemoveKeepsPlaces ==
  ASSUME NEW w \in Worker, Remove(w)
  PROVE  KeepsPlaces
BY DEF KeepsPlaces, Pending, Remove, DeleteId

LEMMA ReEnqueueKeepsPlaces ==
  ASSUME IInv, NEW w \in Worker, ReEnqueue(w)
  PROVE  KeepsPlaces
<1> DEFINE h == HeldRow(w)
           n == [h EXCEPT !.status = "pending", !.position = NextPosition(queue)]
<1>1. held[w] # None /\ ~IndexRefuses(queue, h) /\ queue' = (queue \ {h}) \cup {n}
  BY DEF ReEnqueue, HasRow, ToBack
<1>2. h \in queue /\ h.status = "processing"
  BY <1>1, HeldRowIsHeld
<1>3. h.path \notin PendingPaths(queue)
  <2>1. \A s \in Pending(queue) : s.id # h.id
    BY <1>2 DEF Pending, IInv, IdsUnique
  <2> QED BY <1>1, <2>1 DEF IndexRefuses, PendingPaths
<1>4. n.path = h.path /\ n.position = NextPosition(queue)
  BY <1>2 DEF IInv, TypeOK, Row
<1>5. \A r \in queue : r.position < NextPosition(queue)
  BY NextPositionIsNew DEF IInv, TypeOK
<1> HIDE DEF n, h
<1> QED BY <1>1, <1>3, <1>4, <1>5 DEF KeepsPlaces, Pending

LEMMA NextKeepsPlaces == IInv /\ [Next]_vars => KeepsPlaces
<1> SUFFICES ASSUME IInv, [Next]_vars PROVE KeepsPlaces
  OBVIOUS
<1>1. ASSUME NEW p \in Path, NEW m \in Mtime, Enqueue(p, m) PROVE KeepsPlaces
  BY <1>1, InsertKeepsPlaces, CoalesceKeepsPlaces DEF Enqueue
<1>2. ASSUME NEW w \in Worker, Dequeue(w) PROVE KeepsPlaces
  BY <1>2, DequeueKeepsPlaces
<1>3. ASSUME NEW w \in Worker, Remove(w) PROVE KeepsPlaces
  BY <1>3, RemoveKeepsPlaces
<1>4. ASSUME NEW w \in Worker, ReEnqueue(w) PROVE KeepsPlaces
  BY <1>4, ReEnqueueKeepsPlaces
<1>5. CASE queue' = queue
  BY <1>5 DEF KeepsPlaces
<1> QED BY <1>1, <1>2, <1>3, <1>4, <1>5
        DEF Next, DequeueNil, ReEnqueueFails, Crash, vars

(* Nobody jumps the queue, whatever is saved, taken and given back.         *)
THEOREM FirstComeFirstServed == Spec => NoOvertaking
<1> DEFINE Fair == \A p \in Path :
             p \in PendingPaths(queue) /\ p \in PendingPaths(queue)' =>
               \A q \in Path : <<q, p>> \in Order' => <<q, p>> \in Order
<1>1. IInv /\ IInv' /\ KeepsPlaces => Fair
  <2> SUFFICES ASSUME IInv, IInv', KeepsPlaces,
                      NEW p \in Path, p \in PendingPaths(queue),
                      NEW q \in Path, <<q, p>> \in OrderOf(queue')
               PROVE  <<q, p>> \in OrderOf(queue)
    BY DEF Order
  <2>1. PICK r, s \in Pending(queue') : r.path = q /\ s.path = p /\ r.position < s.position
    BY OrderMember
  <2>2. PICK t \in Pending(queue) : t.path = p /\ t.position = s.position
    BY <2>1 DEF KeepsPlaces
  <2>3. t \in queue /\ t.position \in Nat /\ r.position \in Nat
    BY <2>1, <2>2, BoundAssumption DEF Pending, IInv, TypeOK, Row
  <2>4. PICK u \in Pending(queue) : u.path = q /\ u.position = r.position
    BY <2>1, <2>2, <2>3 DEF KeepsPlaces
  <2> QED BY <2>1, <2>2, <2>4, OrderMember
<1>2. IInv /\ IInv' /\ [Next]_vars => [Fair]_vars
  BY <1>1, NextKeepsPlaces
<1> QED BY <1>2, Inductive, PTL DEF Spec, NoOvertaking
-----------------------------------------------------------------------------
(***************************************************************************)
(* The refinement of FifoWork, action by action.                           *)
(***************************************************************************)
Waiting(q) == {Note(r) : r \in Pending(q)}
InWork(h) == [w \in Worker |-> IF h[w] = None THEN None ELSE Note(h[w])]

LEMMA PromisePaths == Promise!Paths = PendingPaths(queue)
<1>1. \A r : Note(r).path = r.path
  BY DEF Note
<1>2. Promise!Paths = {n.path : n \in {Note(r) : r \in Pending(queue)}}
  BY DEF Promise!Paths
<1> HIDE DEF Note
<1> QED BY <1>1, <1>2 DEF PendingPaths

(* A row that joins behind all others, in both vocabularies. *)
LEMMA JoinsBack ==
  ASSUME IInv, NEW n \in Row, n.path \notin PendingPaths(queue),
         Pending(queue') = Pending(queue) \cup {n},
         \A r \in Pending(queue) : r.position < n.position
  PROVE  Promise!JoinBack(Note(n))
<1>1. Waiting(queue') = Waiting(queue) \cup {Note(n)}
  BY DEF Waiting
<1>2. PendingPaths(queue') = PendingPaths(queue) \cup {n.path}
  BY DEF PendingPaths
<1>3. OrderOf(queue') = OrderOf(queue) \cup (PendingPaths(queue) \X {n.path})
  <2> DEFINE O == OrderOf(queue) \cup (PendingPaths(queue) \X {n.path})
  <2>1. O \subseteq PendingPaths(queue') \X PendingPaths(queue')
    BY <1>2 DEF OrderOf
  <2>2. ASSUME NEW a \in PendingPaths(queue'), NEW b \in PendingPaths(queue')
        PROVE  <<a, b>> \in O <=> <<a, b>> \in OrderOf(queue')
    <3>0. /\ \A r \in Pending(queue) : r.path # n.path /\ r.position \in Nat
          /\ n.position \in Nat
      BY BoundAssumption DEF PendingPaths, Pending, IInv, TypeOK, Row
    <3>1. CASE b = n.path
      <4>1. <<a, b>> \in O <=> a \in PendingPaths(queue)
        BY <3>1, <3>0 DEF OrderOf
      <4>2. <<a, b>> \in OrderOf(queue') <=>
              \E r \in Pending(queue') : r.path = a /\ r.position < n.position
        BY <3>0, <3>1, OrderMember
      <4>3. (\E r \in Pending(queue') : r.path = a /\ r.position < n.position)
              <=> a \in PendingPaths(queue)
        BY <3>0 DEF PendingPaths
      <4> QED BY <4>1, <4>2, <4>3
    <3>2. CASE b # n.path
      <4>1. <<a, b>> \in O <=> <<a, b>> \in OrderOf(queue)
        BY <3>2
      <4>2. <<a, b>> \in OrderOf(queue') <=> <<a, b>> \in OrderOf(queue)
        <5>1. ASSUME NEW r \in Pending(queue'), NEW s \in Pending(queue'),
                     r.path = a, s.path = b, r.position < s.position
              PROVE  r \in Pending(queue) /\ s \in Pending(queue)
          BY <3>0, <3>2, <5>1
        <5> QED BY <5>1, OrderMember
      <4> QED BY <4>1, <4>2
    <3> QED BY <3>1, <3>2
  <2> HIDE DEF O
  <2>3. OrderOf(queue') = O
    BY <2>1, <2>2, OrderIs
  <2> QED BY <2>3 DEF O
<1>4. Note(n).path \notin Promise!Paths
  BY PromisePaths DEF Note
<1>5. Note(n).path = n.path
  BY DEF Note
<1> QED BY <1>1, <1>3, <1>4, <1>5, PromisePaths DEF Promise!JoinBack, Order, Waiting

LEMMA InsertSubmits ==
  ASSUME IInv, NEW p \in Path, NEW m \in Mtime, Insert(p, m)
  PROVE  Promise!Submit(p, m)
<1> DEFINE n == NewRow(queue, nextId, p, m)
<1>1. /\ queue \in SUBSET Row /\ queue' = queue \cup {n} /\ held' = held
      /\ p \notin PendingPaths(queue)
      /\ nextId \in 1..MaxId /\ NextPosition(queue) <= LastPos
  BY BoundAssumption DEF IInv, TypeOK, Insert
<1>2. NextPosition(queue) \in 1..LastPos
      /\ \A r \in queue : r.position < NextPosition(queue)
  BY <1>1, NextPositionIsNew, BoundAssumption
<1>3. /\ n \in Row /\ n.path = p /\ n.mtime = m
      /\ n.position = NextPosition(queue) /\ n.status = "pending"
  BY <1>1, <1>2 DEF NewRow, Row, Status
<1> HIDE DEF n
<1>4. Pending(queue') = Pending(queue) \cup {n}
  BY <1>1, <1>3 DEF Pending
<1>5. \A r \in Pending(queue) : r.position < n.position
  BY <1>2, <1>3 DEF Pending
<1>6. Promise!JoinBack(Note(n))
  BY <1>1, <1>3, <1>4, <1>5, JoinsBack
<1>7. Note(n) = [path |-> p, mtime |-> m]
  BY <1>3 DEF Note
<1> QED BY <1>1, <1>6, <1>7 DEF Promise!Submit

LEMMA CoalesceUpdates ==
  ASSUME IInv, NEW p \in Path, NEW m \in Mtime, Coalesce(p, m)
  PROVE  Promise!Update(p, m)
<1> DEFINE F(r) == IF r.path = p /\ r.status = "pending" THEN [r EXCEPT !.mtime = m] ELSE r
<1>1. queue' = {F(r) : r \in queue} /\ held' = held /\ p \in PendingPaths(queue)
  BY DEF Coalesce, Refresh
<1>2. ASSUME NEW r \in queue
      PROVE  /\ F(r).path = r.path /\ F(r).position = r.position /\ F(r).status = r.status
             /\ r \in Pending(queue) => F(r).mtime = IF r.path = p THEN m ELSE r.mtime
  <2>1. r \in Row
    BY DEF IInv, TypeOK
  <2> QED BY <2>1 DEF Row, Pending
<1> HIDE DEF F
<1>3. Pending(queue') = {F(r) : r \in Pending(queue)}
  BY <1>1, <1>2 DEF Pending
<1>4. \A r \in Pending(queue) : r \in queue
  BY DEF Pending
<1>5. OrderOf(queue') = OrderOf(queue)
  <2>1. PendingPaths(queue') = PendingPaths(queue)
    BY <1>2, <1>3, <1>4 DEF PendingPaths
  <2>2. ASSUME NEW a, NEW b
        PROVE  <<a, b>> \in OrderOf(queue) <=> <<a, b>> \in OrderOf(queue')
    <3>1. (\E r, s \in Pending(queue) : r.path = a /\ s.path = b /\ r.position < s.position)
            <=> (\E r, s \in Pending(queue') : r.path = a /\ s.path = b /\ r.position < s.position)
      BY <1>2, <1>3, <1>4
    <3> QED BY <3>1, OrderMember
  <2>3. OrderOf(queue) \subseteq PendingPaths(queue') \X PendingPaths(queue')
    BY <2>1 DEF OrderOf
  <2> QED BY <2>2, <2>3, OrderIs
<1>6. Waiting(queue') = {n \in Waiting(queue) : n.path # p} \cup {[path |-> p, mtime |-> m]}
  <2>1. \A r \in Pending(queue) :
          Note(F(r)) = IF r.path = p THEN [path |-> p, mtime |-> m] ELSE Note(r)
    BY <1>2, <1>4 DEF Note
  <2>2. \A r : Note(r).path = r.path
    BY DEF Note
  <2>3. \E r \in Pending(queue) : r.path = p
    BY <1>1 DEF PendingPaths
  <2>4. Waiting(queue') = {Note(F(r)) : r \in Pending(queue)}
    BY <1>3 DEF Waiting
  <2>5. ASSUME NEW x
        PROVE  x \in Waiting(queue') <=>
                 x \in {n \in Waiting(queue) : n.path # p} \cup {[path |-> p, mtime |-> m]}
    <3>1. x \in Waiting(queue') <=> \E r \in Pending(queue) : x = Note(F(r))
      BY <2>4
    <3>2. x \in Waiting(queue) <=> \E r \in Pending(queue) : x = Note(r)
      BY DEF Waiting
    <3> HIDE DEF Note, Waiting
    <3> QED BY <2>1, <2>2, <2>3, <3>1, <3>2
  <2> QED BY <2>5
<1> QED BY <1>1, <1>5, <1>6, PromisePaths DEF Promise!Update, Order, Waiting

(* What a worker has, in the vocabulary of FifoWork.                        *)
LEMMA InWorkSettled ==
  ASSUME IInv, NEW w \in Worker, held[w] # None, held' = [held EXCEPT ![w] = None]
  PROVE  /\ InWork(held)[w] = Note(held[w]) /\ InWork(held)[w] # None
         /\ InWork(held') = [InWork(held) EXCEPT ![w] = None]
<1>1. held[w] \in Entry
  BY DEF IInv, TypeOK
<1>2. Note(held[w]) \in [path : Path, mtime : Mtime]
  BY <1>1 DEF Entry, Note
<1>3. InWork(held)[w] = Note(held[w]) /\ InWork(held)[w] # None
  BY <1>2, NoneAssumption DEF InWork
<1>4. \A v \in Worker : held'[v] = IF v = w THEN None ELSE held[v]
  BY DEF IInv, TypeOK
<1>5. InWork(held') = [InWork(held) EXCEPT ![w] = None]
  <2> DEFINE f == InWork(held')
             g == InWork(held)
  <2>1. f = [v \in Worker |-> f[v]] /\ g = [v \in Worker |-> g[v]]
    BY DEF InWork
  <2>2. \A v \in Worker : f[v] = IF v = w THEN None ELSE g[v]
    BY <1>4 DEF InWork
  <2> HIDE DEF f, g
  <2>3. f = [g EXCEPT ![w] = None]
    BY <2>1, <2>2
  <2> QED BY <2>3 DEF f, g
<1> QED BY <1>3, <1>5

LEMMA DequeueTakes ==
  ASSUME IInv, NEW w \in Worker, Dequeue(w)
  PROVE  Promise!Take(w)
<1>1. PICK r \in queue :
        /\ IsFront(queue, r)
        /\ queue' = MarkProcessing(queue, r)
        /\ held' = [held EXCEPT ![w] = [id |-> r.id, path |-> r.path, mtime |-> r.mtime]]
  BY DEF Dequeue
<1> DEFINE n == [r EXCEPT !.status = "processing"]
           e == [id |-> r.id, path |-> r.path, mtime |-> r.mtime]
<1>2. r \in Row /\ r \in Pending(queue) /\ \A s \in Pending(queue) : r.position <= s.position
  BY <1>1 DEF IInv, TypeOK, IsFront
<1>3. n.status = "processing"
  BY <1>2 DEF Row
<1>4. Pending(queue') = Pending(queue) \ {r}
  BY <1>1, <1>3 DEF MarkProcessing, Pending
<1>5. \A s \in Pending(queue) : s.path = r.path <=> s = r
  BY <1>2 DEF IInv, PendingUnique
<1>6. \A s \in Pending(queue) : s.position \in Nat
  BY BoundAssumption DEF Pending, IInv, TypeOK, Row
<1>7. \A q \in PendingPaths(queue) : <<q, r.path>> \notin Order
  <2> SUFFICES ASSUME NEW q, <<q, r.path>> \in OrderOf(queue) PROVE FALSE
    BY DEF Order
  <2>1. PICK s, t \in Pending(queue) : t.path = r.path /\ s.position < t.position
    BY OrderMember
  <2> QED BY <1>2, <1>5, <1>6, <2>1
<1>8. Waiting(queue') = Waiting(queue) \ {Note(r)}
  <2>1. \A s \in Pending(queue) : Note(s) = Note(r) => s = r
    BY <1>5 DEF Note
  <2> QED BY <1>4, <2>1 DEF Waiting
<1>9. OrderOf(queue') = {pq \in OrderOf(queue) : pq[1] # r.path /\ pq[2] # r.path}
  <2> DEFINE O == {pq \in OrderOf(queue) : pq[1] # r.path /\ pq[2] # r.path}
  <2>1. PendingPaths(queue') = PendingPaths(queue) \ {r.path}
    BY <1>2, <1>4, <1>5 DEF PendingPaths
  <2>2. O \subseteq PendingPaths(queue') \X PendingPaths(queue')
    BY <2>1 DEF OrderOf
  <2>3. ASSUME NEW a \in PendingPaths(queue'), NEW b \in PendingPaths(queue')
        PROVE  <<a, b>> \in O <=> <<a, b>> \in OrderOf(queue')
    <3>1. a # r.path /\ b # r.path
      BY <2>1
    <3>2. <<a, b>> \in O <=> <<a, b>> \in OrderOf(queue)
      BY <3>1
    <3>3. <<a, b>> \in OrderOf(queue) <=> <<a, b>> \in OrderOf(queue')
      BY <1>4, <3>1, OrderMember
    <3> QED BY <3>2, <3>3
  <2> HIDE DEF O
  <2>4. OrderOf(queue') = O
    BY <2>2, <2>3, OrderIs
  <2> QED BY <2>4 DEF O
<1>10. InWork(held)[w] = None /\ InWork(held') = [InWork(held) EXCEPT ![w] = Note(r)]
  <2>1. e # None /\ Note(e) = Note(r)
    <3>1. e \in Entry
      BY <1>2, BoundAssumption DEF Row, Entry
    <3> QED BY <3>1, NoneAssumption DEF Note
  <2>2. \A v \in Worker : held'[v] = IF v = w THEN e ELSE held[v]
    BY <1>1 DEF IInv, TypeOK
  <2>3. held[w] = None
    BY DEF Dequeue
  <2> HIDE DEF e
  <2> QED BY <2>1, <2>2, <2>3 DEF InWork
<1>11. Note(r) \in Waiting(queue) /\ Note(r).path = r.path
  BY <1>2 DEF Waiting, Note
<1> QED BY <1>7, <1>8, <1>9, <1>10, <1>11, PromisePaths
        DEF Promise!Take, Order, Waiting, InWork

LEMMA RemoveDrops ==
  ASSUME IInv, NEW w \in Worker, Remove(w)
  PROVE  Promise!Drop(w)
<1>1. /\ held[w] # None
      /\ queue' = {r \in queue : r.id # held[w].id}
      /\ held' = [held EXCEPT ![w] = None]
  BY DEF Remove, HasRow, DeleteId
<1>2. \A r \in Pending(queue) : r.id # held[w].id
  BY <1>1 DEF Pending, IInv, HeldConsistent, IdsUnique
<1>3. Pending(queue') = Pending(queue)
  BY <1>1, <1>2 DEF Pending
<1>4. OrderOf(queue') = OrderOf(queue)
  BY <1>3 DEF OrderOf, PendingPaths
<1> QED BY <1>1, <1>3, <1>4, InWorkSettled DEF Promise!Drop, Order, InWork

LEMMA CrashDrops ==
  ASSUME IInv, NEW w \in Worker, Crash(w)
  PROVE  Promise!Drop(w)
BY InWorkSettled DEF Crash, Promise!Drop, Order, InWork

LEMMA ReEnqueueGivesBack ==
  ASSUME IInv, NEW w \in Worker, ReEnqueue(w)
  PROVE  Promise!GiveBack(w)
<1> DEFINE h == HeldRow(w)
           n == [h EXCEPT !.status = "pending", !.position = NextPosition(queue)]
<1>1. /\ held[w] # None
      /\ ~IndexRefuses(queue, h)
      /\ queue' = (queue \ {h}) \cup {n}
      /\ held' = [held EXCEPT ![w] = None]
      /\ NextPosition(queue) <= LastPos
  BY DEF ReEnqueue, HasRow, ToBack
<1>2. /\ h \in queue /\ h \in Row
      /\ h.path = held[w].path /\ h.mtime = held[w].mtime /\ h.status = "processing"
  BY <1>1, HeldRowIsHeld DEF IInv, TypeOK
<1>3. NextPosition(queue) \in 1..LastPos /\ \A r \in queue : r.position < NextPosition(queue)
  BY <1>1, NextPositionIsNew, BoundAssumption DEF IInv, TypeOK
<1> HIDE DEF h
<1>4. /\ n \in Row /\ n.path = h.path /\ n.mtime = h.mtime
      /\ n.position = NextPosition(queue) /\ n.status = "pending"
  BY <1>2, <1>3 DEF Row, Status
<1> HIDE DEF n
<1>5. h.path \notin PendingPaths(queue)
  <2>1. \A s \in Pending(queue) : s.id # h.id
    BY <1>2 DEF Pending, IInv, IdsUnique
  <2> QED BY <1>1, <2>1 DEF IndexRefuses, PendingPaths
<1>6. Pending(queue') = Pending(queue) \cup {n}
  BY <1>1, <1>2, <1>4 DEF Pending
<1>7. Promise!JoinBack(Note(n))
  <2>1. \A r \in Pending(queue) : r.position < n.position
    BY <1>3, <1>4 DEF Pending
  <2> QED BY <1>4, <1>5, <1>6, <2>1, JoinsBack
<1>8. Note(n) = Note(held[w])
  BY <1>2, <1>4 DEF Note
<1>9. /\ InWork(held)[w] = Note(held[w]) /\ InWork(held)[w] # None
      /\ InWork(held') = [InWork(held) EXCEPT ![w] = None]
  BY <1>1, InWorkSettled
<1>10. InWork(held)[w] = Note(n)
  BY <1>8, <1>9
<1> HIDE DEF Note
<1> QED BY <1>7, <1>9, <1>10 DEF Promise!GiveBack, InWork

LEMMA SameTableStutters ==
  ASSUME queue' = queue, held' = held
  PROVE  UNCHANGED Promise!vars
BY DEF Promise!vars, Order, OrderOf, PendingPaths, Pending

(* The table implements FifoWork: it starts empty, and every step is one of *)
(* FifoWork's or leaves its variables alone.                                *)
THEOREM Implements == Spec => KeepsPromise
<1>1. Init => Promise!Init
  BY DEF Init, Promise!Init, Order, OrderOf, PendingPaths, Pending
<1>2. IInv /\ [Next]_vars => [Promise!Next]_(Promise!vars)
  <2> SUFFICES ASSUME IInv, [Next]_vars PROVE [Promise!Next]_(Promise!vars)
    OBVIOUS
  <2>1. ASSUME NEW p \in Path, NEW m \in Mtime, Enqueue(p, m) PROVE Promise!Next
    <3>1. Promise!Submit(p, m) \/ Promise!Update(p, m)
      BY <2>1, InsertSubmits, CoalesceUpdates DEF Enqueue
    <3> QED BY <3>1 DEF Promise!Next
  <2>2. ASSUME NEW w \in Worker, Dequeue(w) PROVE Promise!Next
    BY <2>2, DequeueTakes DEF Promise!Next
  <2>3. ASSUME NEW w \in Worker, Remove(w) \/ Crash(w) PROVE Promise!Next
    BY <2>3, RemoveDrops, CrashDrops DEF Promise!Next
  <2>4. ASSUME NEW w \in Worker, ReEnqueue(w) PROVE Promise!Next
    BY <2>4, ReEnqueueGivesBack DEF Promise!Next
  <2>5. CASE queue' = queue /\ held' = held
    BY <2>5, SameTableStutters
  <2> QED BY <2>1, <2>2, <2>3, <2>4, <2>5 DEF Next, DequeueNil, ReEnqueueFails, vars
<1> QED BY <1>1, <1>2, Inductive, PTL DEF Spec, KeepsPromise, Promise!Spec
=============================================================================
