--------------------------- MODULE FsWatcherProofs ---------------------------
(***************************************************************************)
(* The safety invariants of FsWatcher, for any number of paths, timers and *)
(* callbacks, any delay and any number of saves.                           *)
(***************************************************************************)
EXTENDS FsWatcher, FiniteSetTheorems, SequenceTheorems, TLAPS

WriteOf(p) == [path |-> p, op |-> "write"]

(* The three places where a save of p waits, next to arming. *)
WriteEvents(p) == {i \in DOMAIN events : events[i] = WriteOf(p)}
TimersFor(p) == {t \in Timer : armed[t] # None /\ armed[t].path = p}
ToEnqueue(p) == {s \in Slot : At(s, "enqueue") /\ callbacks[s].path = p}

(* A timer that is in the map is there once, and armed for no other path:   *)
(* a Reset for one path never takes the timer of another.                   *)
TimersOwned ==
  /\ \A p, q \in Path : timers[p] # None /\ timers[p] = timers[q] => p = q
  /\ \A p \in Path : timers[p] # None /\ armed[timers[p]] # None => armed[timers[p]].path = p

(* Debouncing merges work and never splits it: every Enqueue that was made  *)
(* or is still to come of p is accounted for by a save.                     *)
Balanced(p) ==
  /\ IsFiniteSet(WriteEvents(p)) /\ IsFiniteSet(TimersFor(p)) /\ IsFiniteSet(ToEnqueue(p))
  /\ enqueues[p] + Cardinality(WriteEvents(p)) + (IF arming = p THEN 1 ELSE 0)
       + Cardinality(TimersFor(p)) + Cardinality(ToEnqueue(p)) <= saves[p]

AllBalanced == \A p \in Path : Balanced(p)

WatcherInv == TypeOK /\ TimersOwned /\ NoSaveForgotten /\ AllBalanced
-----------------------------------------------------------------------------
Event == [path : Path, op : Op]

LEMMA WriteIsEvent == ASSUME NEW p \in Path PROVE WriteOf(p) \in Event
BY DEF WriteOf, Event, Op

LEMMA CountsAreNatural ==
  ASSUME NEW p, Balanced(p)
  PROVE  /\ Cardinality(WriteEvents(p)) \in Nat
         /\ Cardinality(TimersFor(p)) \in Nat
         /\ Cardinality(ToEnqueue(p)) \in Nat
BY FS_CardinalityType DEF Balanced

LEMMA InitWatcherInv == Init => WatcherInv
<1> SUFFICES ASSUME Init PROVE WatcherInv
  OBVIOUS
<1>1. TypeOK
  BY BoundAssumption, DelayAssumption, EmptySeq DEF Init, TypeOK
<1>2. TimersOwned /\ NoSaveForgotten
  BY BoundAssumption DEF Init, TimersOwned, NoSaveForgotten
<1>3. ASSUME NEW p \in Path PROVE Balanced(p)
  <2>1. WriteEvents(p) = {} /\ TimersFor(p) = {} /\ ToEnqueue(p) = {}
    BY DEF Init, WriteEvents, TimersFor, ToEnqueue, At
  <2>2. arming # p /\ enqueues[p] = 0 /\ saves[p] = 0
    BY NoneAssumption DEF Init
  <2> QED BY <2>1, <2>2, FS_EmptySet DEF Balanced
<1> QED BY <1>1, <1>2, <1>3 DEF WatcherInv, AllBalanced
-----------------------------------------------------------------------------
(***************************************************************************)
(* Events.                                                                 *)
(***************************************************************************)

(* A new event leaves the others where they are. *)
LEMMA AppendedWrites ==
  ASSUME TypeOK, NEW e \in Event, events' = Append(events, e), NEW p \in Path
  PROVE  /\ events' \in Seq(Event)
         /\ WriteEvents(p)' = IF e = WriteOf(p) THEN WriteEvents(p) \cup {Len(events) + 1}
                              ELSE WriteEvents(p)
         /\ Len(events) + 1 \notin WriteEvents(p)
<1>1. events \in Seq(Event) /\ DOMAIN events = 1..Len(events) /\ Len(events) \in Nat
  BY LenProperties DEF TypeOK, Event
<1>2. /\ events' \in Seq(Event)
      /\ DOMAIN events' = 1..(Len(events) + 1)
      /\ \A i \in 1..Len(events) : events'[i] = events[i]
      /\ events'[Len(events) + 1] = e
  BY <1>1, AppendProperties, LenProperties
<1> QED BY <1>1, <1>2 DEF WriteEvents

LEMMA SaveKeeps == ASSUME WatcherInv, NEW s \in Path, Save(s) PROVE WatcherInv'
<1> DEFINE e == WriteOf(s)
<1>0. TypeOK /\ e \in Event /\ events' = Append(events, e)
  BY WriteIsEvent DEF WatcherInv, Save, WriteOf
<1>1. /\ saves[s] \in 0..MaxEvents /\ saves[s] < MaxEvents
      /\ saves' = [saves EXCEPT ![s] = saves[s] + 1]
      /\ UNCHANGED <<noise, arming, timers, armed, callbacks, tried, enqueues>>
  BY <1>0 DEF Save, TypeOK
<1>2. \A p \in Path :
        /\ events' \in Seq(Event)
        /\ WriteEvents(p)' = IF p = s THEN WriteEvents(p) \cup {Len(events) + 1} ELSE WriteEvents(p)
        /\ Len(events) + 1 \notin WriteEvents(p)
  <2>1. \A p \in Path : e = WriteOf(p) <=> p = s
    BY DEF WriteOf
  <2> HIDE DEF e
  <2> QED BY <1>0, <2>1, AppendedWrites
<1> HIDE DEF e
<1>3. TypeOK'
  <2>1. saves[s] + 1 \in 0..MaxEvents
    BY <1>1, BoundAssumption
  <2>2. saves' \in [Path -> 0..MaxEvents]
    BY <1>0, <1>1, <2>1 DEF TypeOK
  <2>3. events' \in Seq(Event)
    BY <1>2
  <2> QED BY <1>0, <1>1, <2>2, <2>3 DEF TypeOK, Event
<1>4. TimersOwned'
  BY <1>1 DEF WatcherInv, TimersOwned
<1>5. ASSUME NEW p \in Path, saves'[p] > tried'[p] PROVE OnItsWay(p)'
  <2>1. CASE p = s
    <3>1. WriteEvents(p)' # {}
      BY <1>2, <2>1
    <3> QED BY <3>1 DEF WriteEvents, OnItsWay, WriteOf
  <2>2. CASE p # s
    <3>1. OnItsWay(p)
      BY <1>1, <1>5, <2>2 DEF WatcherInv, NoSaveForgotten, TypeOK
    <3>2. (\E i \in DOMAIN events : events[i] = WriteOf(p))
            => \E i \in DOMAIN events' : events'[i] = WriteOf(p)
      BY <1>2 DEF WriteEvents
    <3> QED BY <1>1, <3>1, <3>2 DEF OnItsWay, At, WriteOf
  <2> QED BY <2>1, <2>2
<1>6. ASSUME NEW p \in Path PROVE Balanced(p)'
  <2>1. Balanced(p)
    BY DEF WatcherInv, AllBalanced
  <2>2. TimersFor(p)' = TimersFor(p) /\ ToEnqueue(p)' = ToEnqueue(p)
    BY <1>1 DEF TimersFor, ToEnqueue, At
  <2>3. CASE p = s
    <3>1. /\ IsFiniteSet(WriteEvents(p)')
          /\ Cardinality(WriteEvents(p)') = Cardinality(WriteEvents(p)) + 1
      BY <1>2, <2>1, <2>3, FS_AddElement DEF Balanced
    <3>2. saves'[p] = saves[p] + 1
      BY <1>0, <1>1, <2>3 DEF TypeOK
    <3>3. enqueues[p] \in Nat /\ saves[p] \in Nat
      BY <1>0 DEF TypeOK
    <3> QED BY <1>1, <2>1, <2>2, <3>1, <3>2, <3>3, CountsAreNatural DEF Balanced
  <2>4. CASE p # s
    <3>1. saves'[p] = saves[p] /\ WriteEvents(p)' = WriteEvents(p)
      BY <1>0, <1>1, <1>2, <2>4 DEF TypeOK
    <3> QED BY <1>1, <2>1, <2>2, <3>1 DEF Balanced
  <2> QED BY <2>3, <2>4
<1> QED BY <1>3, <1>4, <1>5, <1>6 DEF WatcherInv, NoSaveForgotten, AllBalanced

LEMMA TouchKeeps == ASSUME WatcherInv, NEW s \in Path, Touch(s) PROVE WatcherInv'
<1> DEFINE e == [path |-> s, op |-> "other"]
<1>0. TypeOK /\ e \in Event /\ events' = Append(events, e)
  BY DEF WatcherInv, Touch, Event, Op
<1>1. /\ noise' \in [Path -> 0..1]
      /\ UNCHANGED <<saves, arming, timers, armed, callbacks, tried, enqueues>>
  <2>1. noise[s] \in 0..1 /\ noise[s] < 1 /\ noise' = [noise EXCEPT ![s] = noise[s] + 1]
    BY <1>0 DEF Touch, TypeOK
  <2>2. noise[s] + 1 \in 0..1
    BY <2>1
  <2> QED BY <1>0, <2>1, <2>2 DEF Touch, TypeOK
<1>2. \A p \in Path : events' \in Seq(Event) /\ WriteEvents(p)' = WriteEvents(p)
  <2>1. \A p \in Path : e # WriteOf(p)
    BY DEF WriteOf
  <2> HIDE DEF e
  <2> QED BY <1>0, <2>1, AppendedWrites
<1> HIDE DEF e
<1>3. TypeOK'
  BY <1>0, <1>1, <1>2 DEF TypeOK, Event
<1>4. TimersOwned'
  BY <1>1 DEF WatcherInv, TimersOwned
<1>5. ASSUME NEW p \in Path, saves'[p] > tried'[p] PROVE OnItsWay(p)'
  <2>1. OnItsWay(p)
    BY <1>1, <1>5 DEF WatcherInv, NoSaveForgotten
  <2>2. (\E i \in DOMAIN events : events[i] = WriteOf(p))
          => \E i \in DOMAIN events' : events'[i] = WriteOf(p)
    BY <1>2 DEF WriteEvents
  <2> QED BY <1>1, <2>1, <2>2 DEF OnItsWay, At, WriteOf
<1>6. ASSUME NEW p \in Path PROVE Balanced(p)'
  BY <1>1, <1>2 DEF WatcherInv, AllBalanced, Balanced, TimersFor, ToEnqueue, At
<1> QED BY <1>3, <1>4, <1>5, <1>6 DEF WatcherInv, NoSaveForgotten, AllBalanced

(* Without the first event, the others are one place further on. *)
LEMMA RemainingWrites ==
  ASSUME TypeOK, events # <<>>, events' = Tail(events), NEW p \in Path, Balanced(p)
  PROVE  /\ events' \in Seq(Event) /\ Head(events) \in Event
         /\ \A i \in WriteEvents(p) : i = 1 \/ i - 1 \in WriteEvents(p)'
         /\ 1 \in WriteEvents(p) <=> Head(events) = WriteOf(p)
         /\ IsFiniteSet(WriteEvents(p)')
         /\ Cardinality(WriteEvents(p)') <= Cardinality(WriteEvents(p) \ {1})
<1>1. events \in Seq(Event) /\ DOMAIN events = 1..Len(events) /\ Len(events) \in Nat \ {0}
  BY LenProperties, EmptySeq DEF TypeOK, Event
<1>2. /\ events' \in Seq(Event) /\ Head(events) \in Event
      /\ DOMAIN events' = 1..(Len(events) - 1)
      /\ \A i \in 1..(Len(events) - 1) : events'[i] = events[i + 1]
  BY <1>1, HeadTailProperties, LenProperties
<1>3. Head(events) = events[1]
  BY <1>1
<1>4. \A i \in WriteEvents(p) : i = 1 \/ i - 1 \in WriteEvents(p)'
  BY <1>1, <1>2 DEF WriteEvents
<1>5. 1 \in WriteEvents(p) <=> Head(events) = WriteOf(p)
  BY <1>1, <1>3 DEF WriteEvents
<1> DEFINE f == [i \in WriteEvents(p)' |-> i + 1]
<1>6. f \in Injection(WriteEvents(p)', WriteEvents(p) \ {1})
  <2>1. \A i \in WriteEvents(p)' : i \in Nat \ {0} /\ i + 1 \in WriteEvents(p) \ {1}
    BY <1>1, <1>2 DEF WriteEvents
  <2> QED BY <2>1 DEF Injection, IsInjective
<1>7. IsFiniteSet(WriteEvents(p) \ {1})
  BY FS_RemoveElement DEF Balanced
<1>8. IsFiniteSet(WriteEvents(p)') /\ Cardinality(WriteEvents(p)') <= Cardinality(WriteEvents(p) \ {1})
  <2> HIDE DEF f
  <2> QED BY <1>6, <1>7, FS_Injection
<1> QED BY <1>2, <1>4, <1>5, <1>8

LEMMA ReceiveKeeps == ASSUME WatcherInv, Receive PROVE WatcherInv'
<1> DEFINE e == Head(events)
<1>0. TypeOK /\ events # <<>> /\ events' = Tail(events)
  BY DEF WatcherInv, Receive
<1>1. /\ arming = None /\ arming' = IF e.op = "write" THEN e.path ELSE None
      /\ UNCHANGED <<saves, noise, timers, armed, callbacks, tried, enqueues>>
  BY DEF Receive, Relevant
<1>2. ASSUME NEW p \in Path
      PROVE  /\ events' \in Seq(Event) /\ e \in Event
             /\ \A i \in WriteEvents(p) : i = 1 \/ i - 1 \in WriteEvents(p)'
             /\ 1 \in WriteEvents(p) <=> e = WriteOf(p)
             /\ IsFiniteSet(WriteEvents(p)')
             /\ Cardinality(WriteEvents(p)') <= Cardinality(WriteEvents(p) \ {1})
  BY <1>0, RemainingWrites DEF WatcherInv, AllBalanced
<1> HIDE DEF e
<1>3. events' \in Seq(Event) /\ e \in Event
  <2>1. CASE Path = {}
    BY <1>0, <2>1, HeadTailProperties DEF TypeOK, Event, e
  <2>2. CASE Path # {}
    BY <1>2, <2>2
  <2> QED BY <2>1, <2>2
<1>4. \A p \in Path : arming' = p <=> e = WriteOf(p)
  BY <1>1, <1>3, NoneAssumption DEF Event, WriteOf
<1>5. TypeOK'
  BY <1>0, <1>1, <1>3 DEF TypeOK, Event
<1>6. TimersOwned'
  BY <1>1 DEF WatcherInv, TimersOwned
<1>7. ASSUME NEW p \in Path, saves'[p] > tried'[p] PROVE OnItsWay(p)'
  <2>1. OnItsWay(p)
    BY <1>1, <1>7 DEF WatcherInv, NoSaveForgotten
  <2>2. ASSUME NEW i \in DOMAIN events, events[i] = WriteOf(p)
        PROVE  arming' = p \/ \E j \in DOMAIN events' : events'[j] = WriteOf(p)
    <3>1. i \in WriteEvents(p)
      BY <2>2 DEF WriteEvents
    <3>2. arming' = p \/ i - 1 \in WriteEvents(p)'
      BY <1>2, <1>4, <3>1
    <3> QED BY <3>2 DEF WriteEvents
  <2>3. arming # p
    BY <1>1, NoneAssumption
  <2> QED BY <1>1, <2>1, <2>2, <2>3 DEF OnItsWay, At, WriteOf
<1>8. ASSUME NEW p \in Path PROVE Balanced(p)'
  <2>1. Balanced(p) /\ arming # p
    BY <1>1, NoneAssumption DEF WatcherInv, AllBalanced
  <2>2. TimersFor(p)' = TimersFor(p) /\ ToEnqueue(p)' = ToEnqueue(p)
    BY <1>1 DEF TimersFor, ToEnqueue, At
  <2>3. Cardinality(WriteEvents(p) \ {1})
          = IF arming' = p THEN Cardinality(WriteEvents(p)) - 1 ELSE Cardinality(WriteEvents(p))
    BY <1>2, <1>4, <2>1, FS_RemoveElement DEF Balanced
  <2>4. IsFiniteSet(WriteEvents(p)') /\ Cardinality(WriteEvents(p)') \in Nat
    BY <1>2, FS_CardinalityType
  <2>5. enqueues[p] \in Nat /\ saves[p] \in Nat
    BY <1>0 DEF TypeOK
  <2>6. Cardinality(WriteEvents(p)') <= Cardinality(WriteEvents(p) \ {1})
    BY <1>2
  <2> QED BY <1>1, <2>1, <2>2, <2>3, <2>4, <2>5, <2>6, CountsAreNatural DEF Balanced
<1> QED BY <1>5, <1>6, <1>7, <1>8 DEF WatcherInv, NoSaveForgotten, AllBalanced
-----------------------------------------------------------------------------
(***************************************************************************)
(* Timers and callbacks.                                                   *)
(***************************************************************************)

(* What is the same for every action after Receive. *)
LEMMA EventsStay ==
  ASSUME events' = events, NEW p PROVE WriteEvents(p)' = WriteEvents(p)
BY DEF WriteEvents

(* The timer of a path is its own or a free one; the others lose nothing.   *)
LEMMA ArmKeeps == ASSUME WatcherInv, Arm PROVE WatcherInv'
<1> DEFINE a == arming
<1>0. TypeOK /\ a \in Path
  BY DEF WatcherInv, TypeOK, Arm
<1>1. PICK t \in Timer :
        /\ IF timers[a] # None THEN t = timers[a] ELSE Free(t)
        /\ timers' = [timers EXCEPT ![a] = t]
        /\ armed' = [armed EXCEPT ![t] = Countdown(a)]
  BY DEF Arm, SetTimer
<1>2. /\ arming' = None
      /\ UNCHANGED <<saves, noise, events, callbacks, tried, enqueues>>
  BY DEF Arm
<1>3. /\ Countdown(a) \in [path : Path, left : 0..Delay]
      /\ Countdown(a) # None /\ Countdown(a).path = a
  <2>1. Countdown(a) \in [path : Path, left : 0..Delay] /\ Countdown(a).path = a
    BY <1>0, DelayAssumption DEF Countdown
  <2> HIDE DEF a
  <2> QED BY <2>1, NoneAssumption
<1>4. armed[t] = None \/ armed[t].path = a
  BY <1>0, <1>1 DEF WatcherInv, TimersOwned, Free
<1>5. t # None /\ a # None
  BY <1>0, NoneAssumption
<1>6. /\ \A x \in Timer : armed'[x] = IF x = t THEN Countdown(a) ELSE armed[x]
      /\ \A p \in Path : timers'[p] = IF p = a THEN t ELSE timers[p]
  BY <1>0, <1>1 DEF TypeOK
<1>7. \A p \in Path : p # a => timers[p] # t
  BY <1>0, <1>1, <1>5 DEF WatcherInv, TimersOwned, Free
<1> HIDE DEF a
<1>8. TypeOK'
  BY <1>0, <1>1, <1>2, <1>3, DelayAssumption DEF TypeOK
<1>9. TimersOwned'
  <2>1. ASSUME NEW p \in Path, NEW q \in Path, timers'[p] # None, timers'[p] = timers'[q]
        PROVE  p = q
    BY <1>6, <1>7, <2>1 DEF WatcherInv, TimersOwned
  <2>2. ASSUME NEW p \in Path, timers'[p] # None, armed'[timers'[p]] # None
        PROVE  armed'[timers'[p]].path = p
    <3>1. CASE p = a
      BY <1>3, <1>6, <3>1
    <3>2. CASE p # a
      <4>1. timers'[p] = timers[p] /\ timers[p] \in Timer /\ timers[p] # t
        BY <1>0, <1>6, <1>7, <2>2, <3>2 DEF TypeOK
      <4> QED BY <1>6, <2>2, <4>1 DEF WatcherInv, TimersOwned
    <3> QED BY <3>1, <3>2
  <2> QED BY <2>1, <2>2 DEF TimersOwned
<1>10. ASSUME NEW p \in Path, saves'[p] > tried'[p] PROVE OnItsWay(p)'
  <2>1. OnItsWay(p)
    BY <1>2, <1>10 DEF WatcherInv, NoSaveForgotten
  <2>2. ASSUME p = a \/ \E x \in Timer : armed[x] # None /\ armed[x].path = p
        PROVE  \E x \in Timer : armed'[x] # None /\ armed'[x].path = p
    BY <1>3, <1>4, <1>6, <2>2
  <2> QED BY <1>2, <2>1, <2>2 DEF OnItsWay, At, a
<1>11. ASSUME NEW p \in Path PROVE Balanced(p)'
  <2>1. Balanced(p)
    BY DEF WatcherInv, AllBalanced
  <2>2. WriteEvents(p)' = WriteEvents(p) /\ ToEnqueue(p)' = ToEnqueue(p)
    BY <1>2, EventsStay DEF ToEnqueue, At
  <2>3. enqueues[p] \in Nat /\ saves[p] \in Nat /\ arming' # p
    BY <1>0, <1>2, NoneAssumption DEF TypeOK
  <2>4. CASE p = a
    <3>1. TimersFor(p)' = TimersFor(p) \cup {t}
      BY <1>3, <1>6, <2>4 DEF TimersFor
    <3>2. /\ IsFiniteSet(TimersFor(p)') /\ Cardinality(TimersFor(p)') \in Nat
          /\ Cardinality(TimersFor(p)') <= Cardinality(TimersFor(p)) + 1
      <4>1. IsFiniteSet(TimersFor(p)) /\ Cardinality(TimersFor(p)) \in Nat
        BY <2>1, CountsAreNatural DEF Balanced
      <4>2. /\ IsFiniteSet(TimersFor(p) \cup {t})
            /\ Cardinality(TimersFor(p) \cup {t})
                 = IF t \in TimersFor(p) THEN Cardinality(TimersFor(p))
                   ELSE Cardinality(TimersFor(p)) + 1
        BY <4>1, FS_AddElement
      <4> QED BY <3>1, <4>1, <4>2
    <3> QED BY <1>2, <2>1, <2>2, <2>3, <2>4, <3>2, CountsAreNatural DEF Balanced, a
  <2>5. CASE p # a
    <3>1. TimersFor(p)' = TimersFor(p)
      BY <1>3, <1>4, <1>6, <2>5 DEF TimersFor
    <3> QED BY <1>2, <2>1, <2>2, <2>3, <2>5, <3>1 DEF Balanced, a
  <2> QED BY <2>4, <2>5
<1> QED BY <1>8, <1>9, <1>10, <1>11 DEF WatcherInv, NoSaveForgotten, AllBalanced

LEMMA FireKeeps == ASSUME WatcherInv, NEW t \in Timer, Fire(t) PROVE WatcherInv'
<1> DEFINE f == armed[t].path
           c == [path |-> f, stage |-> "enqueue"]
<1>0. TypeOK /\ armed[t] # None /\ armed[t].left = 0 /\ f \in Path
  BY DEF WatcherInv, TypeOK, Fire
<1>1. PICK s \in Slot : callbacks[s] = None /\ callbacks' = [callbacks EXCEPT ![s] = c]
  BY DEF Fire
<1>2. /\ armed' = [armed EXCEPT ![t] = None]
      /\ UNCHANGED <<saves, noise, events, arming, timers, tried, enqueues>>
  BY DEF Fire
<1>3. /\ c \in [path : Path, stage : Stage] /\ c # None
      /\ c.path = f /\ c.stage = "enqueue"
  <2>1. c \in [path : Path, stage : Stage] /\ c.path = f /\ c.stage = "enqueue"
    BY <1>0 DEF Stage
  <2> HIDE DEF c
  <2> QED BY <2>1, NoneAssumption
<1> HIDE DEF c, f
<1>4. /\ \A x \in Timer : armed'[x] = IF x = t THEN None ELSE armed[x]
      /\ \A x \in Slot : callbacks'[x] = IF x = s THEN c ELSE callbacks[x]
  BY <1>0, <1>1, <1>2 DEF TypeOK
<1>5. TypeOK'
  BY <1>0, <1>1, <1>2, <1>3 DEF TypeOK
<1>6. TimersOwned'
  <2>1. \A p \in Path : timers[p] # None => timers[p] \in Timer
    BY <1>0 DEF TypeOK
  <2> QED BY <1>2, <1>4, <2>1 DEF WatcherInv, TimersOwned
<1>7. ASSUME NEW p \in Path, saves'[p] > tried'[p] PROVE OnItsWay(p)'
  <2>1. OnItsWay(p)
    BY <1>2, <1>7 DEF WatcherInv, NoSaveForgotten
  <2>2. ASSUME NEW x \in Timer, armed[x] # None, armed[x].path = p
        PROVE  \/ \E y \in Timer : armed'[y] # None /\ armed'[y].path = p
               \/ \E y \in Slot : At(y, "enqueue")' /\ callbacks'[y].path = p
    <3>1. CASE x = t
      BY <1>1, <1>3, <1>4, <2>2, <3>1 DEF At, f
    <3>2. CASE x # t
      BY <1>4, <2>2, <3>2
    <3> QED BY <3>1, <3>2
  <2>3. ASSUME NEW x \in Slot, At(x, "enqueue"), callbacks[x].path = p
        PROVE  At(x, "enqueue")' /\ callbacks'[x].path = p
    BY <1>1, <1>4, <2>3 DEF At
  <2> QED BY <1>2, <2>1, <2>2, <2>3 DEF OnItsWay
<1>8. ASSUME NEW p \in Path PROVE Balanced(p)'
  <2>1. Balanced(p)
    BY DEF WatcherInv, AllBalanced
  <2>2. WriteEvents(p)' = WriteEvents(p)
    BY <1>2, EventsStay
  <2>3. enqueues[p] \in Nat /\ saves[p] \in Nat
    BY <1>0 DEF TypeOK
  <2>4. CASE p = f
    <3>1. TimersFor(p)' = TimersFor(p) \ {t} /\ t \in TimersFor(p)
      BY <1>0, <1>4, <2>4 DEF TimersFor, f
    <3>2. ToEnqueue(p)' = ToEnqueue(p) \cup {s} /\ s \notin ToEnqueue(p)
      BY <1>1, <1>3, <1>4, <2>4 DEF ToEnqueue, At
    <3>3. /\ IsFiniteSet(TimersFor(p)')
          /\ Cardinality(TimersFor(p)') = Cardinality(TimersFor(p)) - 1
      BY <2>1, <3>1, FS_RemoveElement DEF Balanced
    <3>4. /\ IsFiniteSet(ToEnqueue(p)')
          /\ Cardinality(ToEnqueue(p)') = Cardinality(ToEnqueue(p)) + 1
      BY <2>1, <3>2, FS_AddElement DEF Balanced
    <3> QED BY <1>2, <2>1, <2>2, <2>3, <3>3, <3>4, CountsAreNatural DEF Balanced
  <2>5. CASE p # f
    <3>1. TimersFor(p)' = TimersFor(p)
      BY <1>4, <2>5 DEF TimersFor, f
    <3>2. ToEnqueue(p)' = ToEnqueue(p)
      BY <1>1, <1>3, <1>4, <2>5 DEF ToEnqueue, At
    <3> QED BY <1>2, <2>1, <2>2, <3>1, <3>2 DEF Balanced
  <2> QED BY <2>4, <2>5
<1> QED BY <1>5, <1>6, <1>7, <1>8 DEF WatcherInv, NoSaveForgotten, AllBalanced

(* A callback that has called Enqueue, whatever came of it, answers for all *)
(* the saves of its path there were, and for one of its Enqueues to come.   *)
LEMMA EnqueueEnds ==
  ASSUME WatcherInv, NEW s \in Slot, At(s, "enqueue"), Try(s),
         ~At(s, "enqueue")', \A x \in Slot : x # s => callbacks'[x] = callbacks[x],
         UNCHANGED <<saves, noise, events, arming, timers, armed>>,
         enqueues' \in [Path -> Nat],
         \A p \in Path : enqueues'[p] <= IF p = callbacks[s].path THEN enqueues[p] + 1
                                         ELSE enqueues[p]
  PROVE  /\ tried' \in [Path -> 0..MaxEvents] /\ TimersOwned'
         /\ NoSaveForgotten' /\ AllBalanced'
<1> DEFINE f == callbacks[s].path
<1>1. TypeOK /\ f \in Path
  BY DEF WatcherInv, TypeOK, At
<1>2. tried' = [tried EXCEPT ![f] = saves[f]]
  BY DEF Try
<1> HIDE DEF f
<1>3. \A p \in Path : tried'[p] = IF p = f THEN saves[p] ELSE tried[p]
  BY <1>1, <1>2 DEF TypeOK
<1>4. tried' \in [Path -> 0..MaxEvents]
  BY <1>1, <1>2 DEF TypeOK
<1>5. TimersOwned'
  BY DEF WatcherInv, TimersOwned
<1>6. ASSUME NEW p \in Path, saves'[p] > tried'[p] PROVE OnItsWay(p)'
  <2>1. p # f /\ saves[p] > tried[p]
    BY <1>1, <1>3, <1>6 DEF TypeOK
  <2>2. OnItsWay(p)
    BY <2>1 DEF WatcherInv, NoSaveForgotten
  <2>3. ASSUME NEW x \in Slot, At(x, "enqueue"), callbacks[x].path = p
        PROVE  At(x, "enqueue")' /\ callbacks'[x].path = p
    BY <2>1, <2>3 DEF At, f
  <2> QED BY <2>2, <2>3 DEF OnItsWay
<1>7. ASSUME NEW p \in Path PROVE Balanced(p)'
  <2>1. Balanced(p) /\ WriteEvents(p)' = WriteEvents(p) /\ TimersFor(p)' = TimersFor(p)
    BY EventsStay DEF WatcherInv, AllBalanced, TimersFor
  <2>2. enqueues[p] \in Nat /\ enqueues'[p] \in Nat /\ saves[p] \in Nat
    BY <1>1 DEF TypeOK
  <2>3. CASE p = f
    <3>1. ToEnqueue(p)' = ToEnqueue(p) \ {s} /\ s \in ToEnqueue(p)
      BY <2>3 DEF ToEnqueue, At, f
    <3>2. /\ IsFiniteSet(ToEnqueue(p)')
          /\ Cardinality(ToEnqueue(p)') = Cardinality(ToEnqueue(p)) - 1
      BY <2>1, <3>1, FS_RemoveElement DEF Balanced
    <3>3. enqueues'[p] <= enqueues[p] + 1
      BY <2>3 DEF f
    <3> QED BY <2>1, <2>2, <3>2, <3>3, CountsAreNatural DEF Balanced
  <2>4. CASE p # f
    <3>1. ToEnqueue(p)' = ToEnqueue(p)
      BY <2>4 DEF ToEnqueue, At, f
    <3>2. enqueues'[p] <= enqueues[p]
      BY <2>4 DEF f
    <3> QED BY <2>1, <2>2, <3>1, <3>2, CountsAreNatural DEF Balanced
  <2> QED BY <2>3, <2>4
<1> QED BY <1>4, <1>5, <1>6, <1>7 DEF NoSaveForgotten, AllBalanced

LEMMA CallbackEnqueueKeeps ==
  ASSUME WatcherInv, NEW s \in Slot, CallbackEnqueue(s) PROVE WatcherInv'
<1> DEFINE f == callbacks[s].path
           c == [callbacks[s] EXCEPT !.stage = "log"]
<1>0. TypeOK /\ f \in Path /\ callbacks[s] \in [path : Path, stage : Stage]
  BY DEF WatcherInv, TypeOK, CallbackEnqueue, At
<1>1. c \in [path : Path, stage : Stage] /\ c.stage = "log"
  BY <1>0 DEF Stage
<1>2. /\ At(s, "enqueue") /\ Try(s)
      /\ callbacks' = [callbacks EXCEPT ![s] = c]
      /\ enqueues' = [enqueues EXCEPT ![f] = enqueues[f] + 1]
      /\ UNCHANGED <<saves, noise, events, arming, timers, armed>>
  BY <1>0 DEF CallbackEnqueue, GoTo, TypeOK
<1>3. \A p \in Path : enqueues'[p] = IF p = f THEN enqueues[p] + 1 ELSE enqueues[p]
  BY <1>0, <1>2 DEF TypeOK
<1>4. enqueues' \in [Path -> Nat]
  BY <1>0, <1>2 DEF TypeOK
<1>5. ~At(s, "enqueue")' /\ \A x \in Slot : x # s => callbacks'[x] = callbacks[x]
  <2> HIDE DEF c
  <2> QED BY <1>0, <1>1, <1>2 DEF At, TypeOK
<1>6. /\ tried' \in [Path -> 0..MaxEvents] /\ TimersOwned'
      /\ NoSaveForgotten' /\ AllBalanced'
  <2>1. \A p \in Path : enqueues'[p] <= IF p = callbacks[s].path THEN enqueues[p] + 1
                                         ELSE enqueues[p]
    BY <1>0, <1>3, <1>4 DEF TypeOK
  <2> HIDE DEF f, c
  <2> QED BY <1>2, <1>4, <1>5, <2>1, EnqueueEnds
(* That it stays within its bound is the balance itself. *)
<1>7. enqueues' \in [Path -> 0..MaxEvents]
  <2>1. ASSUME NEW p \in Path PROVE enqueues'[p] \in 0..MaxEvents
    <3>1. Balanced(p)' /\ saves[p] \in 0..MaxEvents /\ saves' = saves /\ enqueues'[p] \in Nat
      BY <1>0, <1>2, <1>4, <1>6 DEF AllBalanced, TypeOK
    <3>2. /\ Cardinality(WriteEvents(p)') \in Nat
          /\ Cardinality(TimersFor(p)') \in Nat
          /\ Cardinality(ToEnqueue(p)') \in Nat
      BY <3>1, FS_CardinalityType DEF Balanced
    <3> QED BY <3>1, <3>2, BoundAssumption DEF Balanced
  <2> QED BY <1>4, <2>1
<1>8. callbacks' \in [Slot -> [path : Path, stage : Stage] \cup {None}]
  <2> HIDE DEF c
  <2> QED BY <1>0, <1>1, <1>2 DEF TypeOK
<1> QED BY <1>0, <1>2, <1>6, <1>7, <1>8 DEF WatcherInv, TypeOK

LEMMA CallbackFailsKeeps ==
  ASSUME WatcherInv, NEW s \in Slot, CallbackFails(s) PROVE WatcherInv'
<1>0. TypeOK
  BY DEF WatcherInv
<1>1. /\ At(s, "enqueue") /\ Try(s)
      /\ callbacks' = [callbacks EXCEPT ![s] = None]
      /\ UNCHANGED <<saves, noise, events, arming, timers, armed, enqueues>>
  BY DEF CallbackFails
<1>2. ~At(s, "enqueue")' /\ \A x \in Slot : x # s => callbacks'[x] = callbacks[x]
  BY <1>0, <1>1 DEF At, TypeOK
<1>3. enqueues' \in [Path -> Nat] /\ \A p \in Path : enqueues'[p] = enqueues[p]
  BY <1>0, <1>1 DEF TypeOK
<1>4. \A p \in Path : enqueues'[p] <= IF p = callbacks[s].path THEN enqueues[p] + 1
                                       ELSE enqueues[p]
  BY <1>0, <1>3 DEF TypeOK
<1>5. /\ tried' \in [Path -> 0..MaxEvents] /\ TimersOwned'
      /\ NoSaveForgotten' /\ AllBalanced'
  BY <1>1, <1>2, <1>3, <1>4, EnqueueEnds
<1> QED BY <1>0, <1>1, <1>5 DEF WatcherInv, TypeOK

(* The last two steps of a callback touch no save. *)
LEMMA CallbackEndKeeps ==
  ASSUME WatcherInv, NEW s \in Slot, CallbackLog(s) \/ CallbackDelete(s) PROVE WatcherInv'
<1>0. TypeOK
  BY DEF WatcherInv
<1>1. /\ UNCHANGED <<saves, noise, events, arming, armed, tried, enqueues>>
      /\ ~At(s, "enqueue")
  BY DEF CallbackLog, CallbackDelete, At
<1>2. /\ callbacks' \in [Slot -> [path : Path, stage : Stage] \cup {None}]
      /\ timers' \in [Path -> Timer \cup {None}]
      /\ \A p \in Path : timers'[p] \in {timers[p], None}
      /\ \A x \in Slot : x # s => callbacks'[x] = callbacks[x]
      /\ ~At(s, "enqueue")'
  <2>1. CASE CallbackLog(s)
    <3> DEFINE c == [callbacks[s] EXCEPT !.stage = "delete"]
    <3>1. c \in [path : Path, stage : Stage] /\ c.stage = "delete"
      BY <1>0, <2>1 DEF CallbackLog, At, TypeOK, Stage
    <3>2. callbacks' = [callbacks EXCEPT ![s] = c] /\ timers' = timers
      BY <1>0, <2>1 DEF CallbackLog, GoTo, TypeOK
    <3> HIDE DEF c
    <3> QED BY <1>0, <3>1, <3>2 DEF At, TypeOK
  <2>2. CASE CallbackDelete(s)
    <3>1. callbacks' = [callbacks EXCEPT ![s] = None]
      BY <2>2 DEF CallbackDelete
    <3>2. timers' = [timers EXCEPT ![callbacks[s].path] = None]
      BY <2>2 DEF CallbackDelete
    <3> QED BY <1>0, <3>1, <3>2 DEF At, TypeOK
  <2> QED BY <2>1, <2>2
<1>3. TypeOK'
  BY <1>0, <1>1, <1>2 DEF TypeOK
<1>4. TimersOwned'
  BY <1>1, <1>2 DEF WatcherInv, TimersOwned
<1>5. ASSUME NEW x \in Slot
      PROVE  IF x = s THEN ~At(x, "enqueue") /\ ~At(x, "enqueue")'
             ELSE callbacks'[x] = callbacks[x]
  BY <1>1, <1>2
<1>6. ASSUME NEW p \in Path, saves'[p] > tried'[p] PROVE OnItsWay(p)'
  <2>1. OnItsWay(p)
    BY <1>1, <1>6 DEF WatcherInv, NoSaveForgotten
  <2>2. ASSUME NEW x \in Slot, At(x, "enqueue"), callbacks[x].path = p
        PROVE  At(x, "enqueue")' /\ callbacks'[x].path = p
    BY <1>5, <2>2 DEF At
  <2> QED BY <1>1, <2>1, <2>2 DEF OnItsWay
<1>7. ASSUME NEW p \in Path PROVE Balanced(p)'
  <2>1. Balanced(p) /\ WriteEvents(p)' = WriteEvents(p)
    BY <1>1, EventsStay DEF WatcherInv, AllBalanced
  <2>2. TimersFor(p)' = TimersFor(p)
    BY <1>1 DEF TimersFor
  <2>3. \A x \in Slot : At(x, "enqueue")' /\ callbacks'[x].path = p
                       <=> At(x, "enqueue") /\ callbacks[x].path = p
    BY <1>5 DEF At
  <2>4. ToEnqueue(p)' = ToEnqueue(p)
    BY <2>3 DEF ToEnqueue
  <2> QED BY <1>1, <2>1, <2>2, <2>4 DEF Balanced
<1> QED BY <1>3, <1>4, <1>6, <1>7 DEF WatcherInv, NoSaveForgotten, AllBalanced

(* Time sets no timer and stops none. *)
LEMMA TickKeeps == ASSUME WatcherInv, Tick PROVE WatcherInv'
<1>0. TypeOK
  BY DEF WatcherInv
<1>1. /\ armed' = [t \in Timer |->
                     IF armed[t] # None /\ armed[t].left > 0
                     THEN [armed[t] EXCEPT !.left = @ - 1] ELSE armed[t]]
      /\ UNCHANGED <<saves, noise, events, arming, timers, callbacks, tried, enqueues>>
  BY DEF Tick
<1>2. ASSUME NEW t \in Timer
      PROVE  /\ armed'[t] \in [path : Path, left : 0..Delay] \cup {None}
             /\ armed'[t] = None <=> armed[t] = None
             /\ armed[t] # None => armed'[t].path = armed[t].path
  <2>1. CASE armed[t] # None /\ armed[t].left > 0
    <3> DEFINE c == [armed[t] EXCEPT !.left = @ - 1]
    <3>1. armed[t] \in [path : Path, left : 0..Delay]
      BY <1>0, <2>1 DEF TypeOK
    <3>2. c \in [path : Path, left : 0..Delay] /\ c.path = armed[t].path
      BY <2>1, <3>1, DelayAssumption
    <3>3. armed'[t] = c
      BY <1>1, <2>1
    <3> HIDE DEF c
    <3> QED BY <2>1, <3>2, <3>3, NoneAssumption
  <2>2. CASE ~(armed[t] # None /\ armed[t].left > 0)
    BY <1>0, <1>1, <2>2 DEF TypeOK
  <2> QED BY <2>1, <2>2
<1>3. TypeOK'
  <2>1. armed' \in [Timer -> [path : Path, left : 0..Delay] \cup {None}]
    BY <1>1, <1>2
  <2> QED BY <1>0, <1>1, <2>1 DEF TypeOK
<1>4. TimersOwned'
  <2>1. \A p \in Path : timers[p] # None => timers[p] \in Timer
    BY <1>0 DEF TypeOK
  <2> QED BY <1>1, <1>2, <2>1 DEF WatcherInv, TimersOwned
<1>5. ASSUME NEW p \in Path, saves'[p] > tried'[p] PROVE OnItsWay(p)'
  <2>1. OnItsWay(p)
    BY <1>1, <1>5 DEF WatcherInv, NoSaveForgotten
  <2> QED BY <1>1, <1>2, <2>1 DEF OnItsWay, At
<1>6. ASSUME NEW p \in Path PROVE Balanced(p)'
  <2>1. Balanced(p) /\ WriteEvents(p)' = WriteEvents(p)
    BY <1>1, EventsStay DEF WatcherInv, AllBalanced
  <2>2. TimersFor(p)' = TimersFor(p)
    BY <1>2 DEF TimersFor
  <2>3. ToEnqueue(p)' = ToEnqueue(p)
    BY <1>1 DEF ToEnqueue, At
  <2> QED BY <1>1, <2>1, <2>2, <2>3 DEF Balanced
<1> QED BY <1>3, <1>4, <1>5, <1>6 DEF WatcherInv, NoSaveForgotten, AllBalanced
-----------------------------------------------------------------------------
LEMMA WatcherInvStep == WatcherInv /\ [Next]_vars => WatcherInv'
<1> SUFFICES ASSUME WatcherInv, [Next]_vars PROVE WatcherInv'
  OBVIOUS
<1>1. ASSUME NEW p \in Path, Save(p) PROVE WatcherInv'
  BY <1>1, SaveKeeps
<1>2. ASSUME NEW p \in Path, Touch(p) PROVE WatcherInv'
  BY <1>2, TouchKeeps
<1>3. CASE Receive
  BY <1>3, ReceiveKeeps
<1>4. CASE Arm
  BY <1>4, ArmKeeps
<1>5. CASE Tick
  BY <1>5, TickKeeps
<1>6. ASSUME NEW t \in Timer, Fire(t) PROVE WatcherInv'
  BY <1>6, FireKeeps
<1>7. ASSUME NEW s \in Slot, Callback(s) PROVE WatcherInv'
  BY <1>7, CallbackEnqueueKeeps, CallbackFailsKeeps, CallbackEndKeeps DEF Callback
<1>8. CASE UNCHANGED vars
  BY <1>8 DEF vars, WatcherInv, TypeOK, TimersOwned, NoSaveForgotten, OnItsWay, At,
              AllBalanced, Balanced, WriteEvents, TimersFor, ToEnqueue
<1> QED BY <1>1, <1>2, <1>3, <1>4, <1>5, <1>6, <1>7, <1>8 DEF Next

LEMMA WatcherInvHolds == Spec => []WatcherInv
<1>1. Init => WatcherInv
  BY InitWatcherInv
<1>2. WatcherInv /\ [Next]_vars => WatcherInv'
  BY WatcherInvStep
<1> QED BY <1>1, <1>2, PTL DEF Spec

(* Every variable keeps its type, whatever the number of paths, timers and  *)
(* callbacks; the bound of enqueues is debounce's, no guard's.              *)
THEOREM WatcherTypesHold == Spec => []TypeOK
<1>1. WatcherInv => TypeOK
  BY DEF WatcherInv
<1> QED BY <1>1, WatcherInvHolds, PTL

(* No save is forgotten between the loop, the timers and their callbacks:   *)
(* debounce may Reset a timer that is firing, and a callback may delete the *)
(* map entry of a younger timer, but a save that Enqueue was not called     *)
(* for is always on its way there.                                          *)
THEOREM NoSaveIsForgotten == Spec => []NoSaveForgotten
<1>1. WatcherInv => NoSaveForgotten
  BY DEF WatcherInv
<1> QED BY <1>1, WatcherInvHolds, PTL

(* debounce enqueues a path at most once per write of it. *)
THEOREM DebounceAddsNoWork == Spec => []AtMostOncePerSave
<1>1. WatcherInv => AtMostOncePerSave
  <2> SUFFICES ASSUME WatcherInv, NEW p \in Path PROVE enqueues[p] <= saves[p]
    BY DEF AtMostOncePerSave
  <2>1. Balanced(p) /\ enqueues[p] \in Nat /\ saves[p] \in Nat
    BY DEF WatcherInv, AllBalanced, TypeOK
  <2> QED BY <2>1, CountsAreNatural DEF Balanced
<1> QED BY <1>1, WatcherInvHolds, PTL
=============================================================================
