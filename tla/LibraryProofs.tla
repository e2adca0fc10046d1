---------------------------- MODULE LibraryProofs ----------------------------
(***************************************************************************)
(* Theorems about the components that share no state with the others: Policy,*)
(* for every set of globs, whatever they match, and every order in which the*)
(* map of overrides is walked; EventLog, for any callers, any retention and*)
(* any length of a day, however long calls take; Notes, for any document, any*)
(* writers and any keys they set; and Backlinks, for any vault and any walk*)
(* of its maps.                                                            *)
(***************************************************************************)
EXTENDS Notes, Policy, Backlinks, EventLog, FiniteSetTheorems, SequenceTheorems, TLAPS

Table == INSTANCE QueueTableProofs

Override == [links : Nat, tags : Nat, excluded : BOOLEAN]
OverrideMaps == UNION {[globs -> Override] : globs \in SUBSET Glob}

PolicySpec == PolicyInit(SUBSET Glob, OverrideMaps) /\ [][PolicyNext]_policyVars
-----------------------------------------------------------------------------
(***************************************************************************)
(* The inductive invariant: at any moment of the walk, what the properties *)
(* say of all overrides is true of those that were visited.                *)
(***************************************************************************)
Visited == DOMAIN overrides \ todo

PolicyTypes ==
  /\ excluded \subseteq Glob
  /\ DOMAIN overrides \subseteq Glob
  /\ \A g \in DOMAIN overrides : overrides[g] \in Override
  /\ asked \in Namespace \cup {NoNamespace}
  /\ todo \subseteq DOMAIN overrides
  /\ policy \in Override

Excluded(globs, ns) ==
  \/ Matching(excluded, ns) # {}
  \/ \E g \in Matching(globs, ns) : overrides[g].excluded

ExclusionSoFar == asked # NoNamespace => (policy.excluded <=> Excluded(Visited, asked))

LinksOf(globs, ns) == {overrides[g].links : g \in Matching(globs, ns)}
TagsOf(globs, ns) == {overrides[g].tags : g \in Matching(globs, ns)}

CapsSoFar ==
  asked # NoNamespace =>
    /\ policy.links \in Justified(LinksOf(Visited, asked), DefaultLinks(asked))
    /\ policy.tags \in Justified(TagsOf(Visited, asked), 10)

PolicyInv == PolicyTypes /\ ExclusionSoFar /\ CapsSoFar

LEMMA DefaultIsNatural == ASSUME NEW ns PROVE DefaultLinks(ns) \in Nat
BY DEF DefaultLinks

(* A cap that was justified stays so when one more override that matches is *)
(* merged: a zero adds nothing, anything else is taken.                     *)
LEMMA MergingJustifies ==
  ASSUME NEW V, NEW d \in Nat, NEW cap \in Nat, NEW v \in Nat, cap \in Justified(V, d)
  PROVE  OrElse(v, cap) \in Justified(V \cup {v}, d)
<1>1. CASE v = 0
  BY <1>1 DEF Justified, OrElse
<1>2. CASE v # 0
  BY <1>2 DEF Justified, OrElse
<1> QED BY <1>1, <1>2
-----------------------------------------------------------------------------
LEMMA StartsJustified == PolicyInit(SUBSET Glob, OverrideMaps) => PolicyInv
<1> SUFFICES ASSUME PolicyInit(SUBSET Glob, OverrideMaps) PROVE PolicyInv
  OBVIOUS
<1>1. PICK globs \in SUBSET Glob : overrides \in [globs -> Override]
  BY DEF PolicyInit, OverrideMaps
<1>2. PolicyTypes
  BY <1>1 DEF PolicyInit, PolicyTypes, NoPolicy, Override
<1>3. asked = NoNamespace
  BY DEF PolicyInit
<1> QED BY <1>2, <1>3 DEF PolicyInv, ExclusionSoFar, CapsSoFar

LEMMA AskKeeps ==
  ASSUME PolicyInv, NEW ns \in Namespace, Ask(ns)
  PROVE  PolicyInv'
<1> USE DEF PolicyInv
<1>1. /\ asked' = ns /\ todo' = DOMAIN overrides
      /\ excluded' = excluded /\ overrides' = overrides
  BY DEF Ask
<1>2. policy' = [links |-> DefaultLinks(ns), tags |-> 10, excluded |-> Matching(excluded, ns) # {}]
  BY DEF Ask, Default
<1>3. PolicyTypes'
  BY <1>1, <1>2, DefaultIsNatural DEF PolicyTypes, Override
<1>4. Visited' = {}
  BY <1>1 DEF Visited
<1>5. ExclusionSoFar'
  BY <1>1, <1>2, <1>4 DEF ExclusionSoFar, Excluded, Matching
<1>6. CapsSoFar'
  BY <1>1, <1>2, <1>4 DEF CapsSoFar, LinksOf, TagsOf, Justified, Matching
<1> QED BY <1>3, <1>5, <1>6

LEMMA VisitKeeps ==
  ASSUME PolicyInv, NEW g \in Glob, Visit(g)
  PROVE  PolicyInv'
<1> USE DEF PolicyInv
<1>1. /\ g \in todo /\ todo' = todo \ {g}
      /\ excluded' = excluded /\ overrides' = overrides /\ asked' = asked
  BY DEF Visit
<1>2. g \in DOMAIN overrides /\ overrides[g] \in Override /\ policy \in Override
  BY <1>1 DEF PolicyTypes
<1>3. Visited' = Visited \cup {g}
  BY <1>1, <1>2 DEF Visited
<1>4. CASE <<g, asked>> \notin Matches
  <2>1. policy' = policy
    BY <1>4 DEF Visit
  <2>2. Matching(Visited', asked) = Matching(Visited, asked)
    BY <1>3, <1>4 DEF Matching
  <2>3. PolicyTypes'
    BY <1>1, <2>1 DEF PolicyTypes
  <2>4. ExclusionSoFar'
    BY <1>1, <2>1, <2>2 DEF ExclusionSoFar, Excluded
  <2>5. CapsSoFar'
    BY <1>1, <2>1, <2>2 DEF CapsSoFar, LinksOf, TagsOf
  <2> QED BY <2>3, <2>4, <2>5
<1>5. CASE <<g, asked>> \in Matches
  <2> DEFINE o == overrides[g]
  <2>1. policy' = [links |-> OrElse(o.links, policy.links), tags |-> OrElse(o.tags, policy.tags),
                   excluded |-> policy.excluded \/ o.excluded]
    BY <1>5 DEF Visit, Merged
  <2>2. /\ o.links \in Nat /\ policy.links \in Nat
        /\ o.tags \in Nat /\ policy.tags \in Nat
    BY <1>2 DEF Override
  <2>3. PolicyTypes'
    BY <1>1, <2>1, <2>2 DEF PolicyTypes, Override, OrElse
  <2>4. Matching(Visited', asked) = Matching(Visited, asked) \cup {g}
    BY <1>3, <1>5 DEF Matching
  <2>5. ExclusionSoFar'
    <3>1. policy'.excluded <=> policy.excluded \/ o.excluded
      BY <2>1
    <3>2. Excluded(Visited, asked)' <=> Excluded(Visited, asked) \/ o.excluded
      BY <1>1, <2>4 DEF Excluded
    <3> QED BY <1>1, <3>1, <3>2 DEF ExclusionSoFar
  <2>6. ASSUME asked # NoNamespace
        PROVE  policy'.links \in Justified(LinksOf(Visited, asked)', DefaultLinks(asked))
    <3>1. LinksOf(Visited, asked)' = LinksOf(Visited, asked) \cup {o.links}
      BY <1>1, <2>4 DEF LinksOf
    <3>2. policy.links \in Justified(LinksOf(Visited, asked), DefaultLinks(asked))
      BY <2>6 DEF CapsSoFar
    <3>3. policy'.links = OrElse(o.links, policy.links)
      BY <2>1
    <3>4. DefaultLinks(asked) \in Nat
      BY DefaultIsNatural
    <3>5. OrElse(o.links, policy.links) \in Justified(LinksOf(Visited, asked) \cup {o.links}, DefaultLinks(asked))
      BY <2>2, <3>2, <3>4, MergingJustifies
    <3> QED BY <3>1, <3>3, <3>5
  <2>7. ASSUME asked # NoNamespace
        PROVE  policy'.tags \in Justified(TagsOf(Visited, asked)', 10)
    <3>1. TagsOf(Visited, asked)' = TagsOf(Visited, asked) \cup {o.tags}
      BY <1>1, <2>4 DEF TagsOf
    <3>2. policy.tags \in Justified(TagsOf(Visited, asked), 10)
      BY <2>7 DEF CapsSoFar
    <3>3. policy'.tags = OrElse(o.tags, policy.tags)
      BY <2>1
    <3>4. OrElse(o.tags, policy.tags) \in Justified(TagsOf(Visited, asked) \cup {o.tags}, 10)
      BY <2>2, <3>2, MergingJustifies
    <3> QED BY <3>1, <3>3, <3>4
  <2>8. CapsSoFar'
    BY <1>1, <2>6, <2>7 DEF CapsSoFar
  <2> QED BY <2>3, <2>5, <2>8
<1> QED BY <1>4, <1>5

LEMMA ReturnKeeps ==
  ASSUME PolicyInv, Return
  PROVE  PolicyInv'
BY DEF PolicyInv, Return, PolicyTypes, ExclusionSoFar, CapsSoFar, NoPolicy, Override

(* The walk keeps what it has established of the overrides it visited.      *)
THEOREM WalkInvariant == PolicySpec => []PolicyInv
<1>1. PolicyInit(SUBSET Glob, OverrideMaps) => PolicyInv
  BY StartsJustified
<1>2. PolicyInv /\ [PolicyNext]_policyVars => PolicyInv'
  <2> SUFFICES ASSUME PolicyInv, [PolicyNext]_policyVars PROVE PolicyInv'
    OBVIOUS
  <2>1. CASE UNCHANGED policyVars
    BY <2>1 DEF policyVars, PolicyInv, PolicyTypes, ExclusionSoFar, CapsSoFar, Visited, Excluded,
                LinksOf, TagsOf
  <2>2. ASSUME NEW ns \in Namespace, Ask(ns) PROVE PolicyInv'
    BY <2>2, AskKeeps
  <2>3. ASSUME NEW g \in Glob, Visit(g) PROVE PolicyInv'
    BY <2>3, VisitKeeps
  <2>4. CASE Return
    BY <2>4, ReturnKeeps
  <2> QED BY <2>1, <2>2, <2>3, <2>4 DEF PolicyNext
<1> QED BY <1>1, <1>2, PTL DEF PolicySpec

(* Whatever order the map is walked in, a namespace is excluded exactly     *)
(* when a glob that matches it says so.                                     *)
THEOREM ExclusionHolds == PolicySpec => []ExclusionIsFinal
<1>1. PolicyInv => ExclusionIsFinal
  BY DEF PolicyInv, PolicyTypes, ExclusionSoFar, ExclusionIsFinal, Answered, Visited, Excluded
<1> QED BY <1>1, WalkInvariant, PTL

(* Whatever order the map is walked in, the caps are those of an override   *)
(* that matches and sets them, or the default.                              *)
THEOREM CapsHold == PolicySpec => []CapsAreJustified
<1>1. PolicyInv => CapsAreJustified
  BY DEF PolicyInv, PolicyTypes, CapsSoFar, CapsAreJustified, Answered, Visited, LinksOf, TagsOf
<1> QED BY <1>1, WalkInvariant, PTL
-----------------------------------------------------------------------------
EventLogSpec == EventLogInit(Caller, Nat) /\ [][EventLogNext]_eventVars

Window == retention * Day

AllAreKept == \A e \in appended : clock - e.at <= Window => e \in log

(* A cutoff that was read is never ahead of the one of the present.         *)
EventInv ==
  /\ retention \in Nat /\ clock \in Nat
  /\ \A e \in appended : e.at \in Int
  /\ \A c \in DOMAIN calls :
       calls[c] # NoCall =>
         /\ calls[c].at \in Int
         /\ calls[c].op = "prune" => calls[c].at <= clock - Window
  /\ AllAreKept

LEMMA WindowIsNatural == ASSUME retention \in Nat PROVE Window \in Nat
BY EventBounds DEF Window

LEMMA TickKeeps == ASSUME EventInv, Tick PROVE EventInv'
<1>1. /\ clock' = clock + 1
      /\ retention' = retention /\ log' = log /\ calls' = calls /\ appended' = appended
  BY DEF Tick
<1>2. Window \in Nat /\ Window' = Window
  BY <1>1, WindowIsNatural DEF EventInv, Window
<1>3. AllAreKept'
  <2> SUFFICES ASSUME NEW e \in appended, clock + 1 - e.at <= Window PROVE e \in log
    BY <1>1, <1>2 DEF EventInv, AllAreKept, Window
  <2>1. clock - e.at <= Window
    BY <1>2 DEF EventInv
  <2> QED BY <2>1 DEF EventInv, AllAreKept, Window
<1>4. ASSUME NEW c \in DOMAIN calls, calls[c] # NoCall, calls[c].op = "prune"
      PROVE  calls[c].at <= clock + 1 - Window
  BY <1>2, <1>4 DEF EventInv
<1> QED BY <1>1, <1>2, <1>3, <1>4 DEF EventInv

LEMMA BeginKeeps ==
  ASSUME EventInv, NEW c \in DOMAIN calls, NEW call, Begin(c, call),
         call.at \in Int, call.op = "prune" => call.at <= clock - Window
  PROVE  EventInv'
<1>1. /\ calls' = [calls EXCEPT ![c] = call]
      /\ retention' = retention /\ clock' = clock /\ log' = log /\ appended' = appended
  BY DEF Begin
<1>2. Window' = Window
  BY <1>1 DEF Window
<1> QED BY <1>1, <1>2 DEF EventInv, AllAreKept, Window

LEMMA InsertEventKeeps ==
  ASSUME EventInv, NEW c \in DOMAIN calls, InsertEvent(c)
  PROVE  EventInv'
<1> DEFINE event == [id |-> NextEventId, at |-> calls[c].at]
<1>1. /\ calls[c] # NoCall
      /\ log' = log \cup {event} /\ appended' = appended \cup {event}
      /\ calls' = [calls EXCEPT ![c] = NoCall]
      /\ retention' = retention /\ clock' = clock
  BY DEF InsertEvent, Returned
<1>2. event.at \in Int
  BY <1>1 DEF EventInv
<1>3. Window' = Window
  BY <1>1 DEF Window
<1> HIDE DEF event
<1>4. AllAreKept'
  BY <1>1, <1>3 DEF EventInv, AllAreKept, Window
<1> QED BY <1>1, <1>2, <1>3, <1>4 DEF EventInv

(* What a DELETE removes is older than its cutoff, which is no later than   *)
(* the present one.                                                         *)
LEMMA DeleteExpiredKeeps ==
  ASSUME EventInv, NEW c \in DOMAIN calls, DeleteExpired(c)
  PROVE  EventInv'
<1>1. /\ calls[c] # NoCall /\ calls[c].op = "prune"
      /\ log' = log \ Expired(calls[c].at)
      /\ calls' = [calls EXCEPT ![c] = NoCall]
      /\ retention' = retention /\ clock' = clock /\ appended' = appended
  BY DEF DeleteExpired, Returned
<1>2. Window \in Nat /\ Window' = Window
  BY <1>1, WindowIsNatural DEF EventInv, Window
<1>3. AllAreKept'
  <2> SUFFICES ASSUME NEW e \in appended, clock - e.at <= Window
               PROVE  e \in log /\ ~(e.at < calls[c].at)
    BY <1>1, <1>2 DEF AllAreKept, Window, Expired
  <2>1. e \in log
    BY DEF EventInv, AllAreKept, Window
  <2>2. /\ clock \in Nat /\ e.at \in Int /\ calls[c].at \in Int
        /\ calls[c].at <= clock - Window
    BY <1>1 DEF EventInv
  <2> QED BY <1>2, <2>1, <2>2
<1> QED BY <1>1, <1>2, <1>3 DEF EventInv

LEMMA StatementFailsKeeps ==
  ASSUME EventInv, NEW c \in DOMAIN calls, StatementFails(c)
  PROVE  EventInv'
<1>1. /\ calls' = [calls EXCEPT ![c] = NoCall]
      /\ retention' = retention /\ clock' = clock /\ log' = log /\ appended' = appended
  BY DEF StatementFails, Returned
<1>2. Window' = Window
  BY <1>1 DEF Window
<1> QED BY <1>1, <1>2 DEF EventInv, AllAreKept, Window

(* An event is in the log for the whole of its retention: Prune deletes     *)
(* nothing younger, however long it or an Append takes from the clock to    *)
(* its statement.                                                           *)
THEOREM RetentionHolds == EventLogSpec => []RetentionIsKept
<1>1. EventLogInit(Caller, Nat) => EventInv
  BY DEF EventLogInit, EventInv, AllAreKept
<1>2. EventInv /\ [EventLogNext]_eventVars => EventInv'
  <2> SUFFICES ASSUME EventInv, [EventLogNext]_eventVars PROVE EventInv'
    OBVIOUS
  <2>1. CASE UNCHANGED eventVars
    BY <2>1 DEF eventVars, EventInv, AllAreKept, Window
  <2>2. CASE Tick
    BY <2>2, TickKeeps
  <2>3. ASSUME NEW c \in DOMAIN calls, AppendEvent(c) PROVE EventInv'
    <3>1. clock \in Int
      BY DEF EventInv
    <3> QED BY <2>3, <3>1, BeginKeeps DEF AppendEvent
  <2>4. ASSUME NEW c \in DOMAIN calls, Prune(c) PROVE EventInv'
    <3>1. Cutoff \in Int /\ Cutoff <= clock - Window
      BY WindowIsNatural DEF EventInv, Cutoff, Window
    <3> QED BY <2>4, <3>1, BeginKeeps DEF Prune
  <2>5. ASSUME NEW c \in DOMAIN calls, InsertEvent(c) PROVE EventInv'
    BY <2>5, InsertEventKeeps
  <2>6. ASSUME NEW c \in DOMAIN calls, DeleteExpired(c) PROVE EventInv'
    BY <2>6, DeleteExpiredKeeps
  <2>7. ASSUME NEW c \in DOMAIN calls, StatementFails(c) PROVE EventInv'
    BY <2>7, StatementFailsKeeps
  <2> QED BY <2>1, <2>2, <2>3, <2>4, <2>5, <2>6, <2>7 DEF EventLogNext
<1>3. EventInv => RetentionIsKept
  BY DEF EventInv, AllAreKept, RetentionIsKept, Window
<1> QED BY <1>1, <1>2, <1>3, PTL DEF EventLogSpec
-----------------------------------------------------------------------------
(***************************************************************************)
(* Notes.  First the lemmas about sequences, lines and fences; then what Parse*)
(* finds and what marshal writes, line by line; then the inductive invariant.*)
(***************************************************************************)
(* Induction, in a form that needs no operator as a parameter: a set that   *)
(* has no least element is empty.                                           *)
LEMMA Induction ==
  ASSUME NEW n \in Nat, NEW W \in SUBSET (0..n), 0 \notin W,
         \A k \in 1..n : k \in W => k - 1 \in W
  PROVE  W = {}
<1> SUFFICES ASSUME W # {} PROVE FALSE
  OBVIOUS
<1>1. PICK m \in W : \A k \in W : m <= k
  BY Table!LeastNatural
<1>2. m \in 1..n
  BY <1>1
<1>3. m - 1 \in W
  BY <1>1, <1>2
<1> QED BY <1>1, <1>2, <1>3

LEMMA OnlyIsThere ==
  ASSUME NEW s, Len(s) \in Nat, NEW S
  PROVE  \E f : /\ Only(s, S) = f[Len(s)]
                /\ f[0] = <<>>
                /\ \A i \in 1..Len(s) : f[i] = IF s[i] \in S THEN Append(f[i - 1], s[i]) ELSE f[i - 1]
<1> DEFINE Step(g, i) == IF i = 0 THEN <<>>
                         ELSE IF s[i] \in S THEN Append(g[i - 1], s[i]) ELSE g[i - 1]
           IsOnly(g, n) == g = [i \in 0..n |-> Step(g, i)]
           Undefined == {n \in 0..Len(s) : \A g : ~IsOnly(g, n)}
<1>1. 0 \notin Undefined
  <2>1. IsOnly([i \in 0..0 |-> <<>>], 0)
    OBVIOUS
  <2> QED BY <2>1
<1>2. ASSUME NEW m \in 1..Len(s), m - 1 \notin Undefined PROVE m \notin Undefined
  <2>0. m - 1 \in 0..Len(s)
    OBVIOUS
  <2>1. PICK g : IsOnly(g, m - 1)
    BY <1>2, <2>0
  <2> DEFINE h == [i \in 0..m |-> Step(g, i)]
  <2>2. \A i \in 0..(m - 1) : h[i] = g[i]
    <3>1. \A i \in 0..(m - 1) : g[i] = Step(g, i)
      BY <2>1
    <3> HIDE DEF Step, IsOnly
    <3> QED BY <3>1
  <2>3. \A i \in 0..m : Step(g, i) = Step(h, i)
    <3> SUFFICES ASSUME NEW i \in 0..m, i # 0 PROVE Step(g, i) = Step(h, i)
      OBVIOUS
    <3>1. i - 1 \in 0..(m - 1)
      OBVIOUS
    <3>2. h[i - 1] = g[i - 1]
      BY <2>2, <3>1
    <3> HIDE DEF h
    <3> QED BY <3>2
  <2>4. IsOnly(h, m)
    BY <2>3
  <2> QED BY <2>4
<1>3. Undefined = {}
  <2>1. Undefined \in SUBSET (0..Len(s))
    OBVIOUS
  <2> HIDE DEF Undefined
  <2> QED BY <1>1, <1>2, <2>1, Induction
<1>4. PICK g : IsOnly(g, Len(s))
  BY <1>3
<1> DEFINE f == CHOOSE h : IsOnly(h, Len(s))
<1>5. Only(s, S) = f[Len(s)]
  BY DEF Only
<1>6. IsOnly(f, Len(s))
  BY <1>4
<1>7. /\ f[0] = <<>>
      /\ \A i \in 1..Len(s) : f[i] = IF s[i] \in S THEN Append(f[i - 1], s[i]) ELSE f[i - 1]
  <2> HIDE DEF f
  <2>1. \A i \in 0..Len(s) : f[i] = Step(f, i)
    BY <1>6
  <2> QED BY <2>1
<1> QED BY <1>5, <1>7

LEMMA AppendedElems ==
  ASSUME NEW A, NEW s \in Seq(A), NEW x \in A
  PROVE  Append(s, x) \in Seq(A) /\ Elems(Append(s, x)) = Elems(s) \cup {x}
<1>1. /\ Append(s, x) \in Seq(A) /\ Len(Append(s, x)) = Len(s) + 1
      /\ \A i \in 1..Len(s) : Append(s, x)[i] = s[i]
      /\ Append(s, x)[Len(s) + 1] = x
  BY AppendProperties
<1>2. Len(s) \in Nat /\ DOMAIN s = 1..Len(s) /\ DOMAIN Append(s, x) = 1..(Len(s) + 1)
  BY <1>1, LenProperties
<1>3. Elems(Append(s, x)) \subseteq Elems(s) \cup {x}
  BY <1>1, <1>2 DEF Elems
<1>4. \A i \in DOMAIN s : i \in 1..(Len(s) + 1) /\ Append(s, x)[i] = s[i]
  BY <1>1, <1>2
<1>5. Len(s) + 1 \in 1..(Len(s) + 1)
  BY <1>2
<1>6. Elems(s) \cup {x} \subseteq Elems(Append(s, x))
  BY <1>1, <1>2, <1>4, <1>5 DEF Elems
<1> QED BY <1>1, <1>3, <1>6

LEMMA OnlyKeeps ==
  ASSUME NEW A, NEW s \in Seq(A), NEW S
  PROVE  Only(s, S) \in Seq(A) /\ Elems(Only(s, S)) = Elems(s) \cap S
<1>1. Len(s) \in Nat /\ DOMAIN s = 1..Len(s) /\ \A i \in 1..Len(s) : s[i] \in A
  BY LenProperties
<1>2. PICK f : /\ Only(s, S) = f[Len(s)]
               /\ f[0] = <<>>
               /\ \A i \in 1..Len(s) : f[i] = IF s[i] \in S THEN Append(f[i - 1], s[i]) ELSE f[i - 1]
  BY <1>1, OnlyIsThere
<1> DEFINE Right(n) == f[n] \in Seq(A) /\ Elems(f[n]) = {s[i] : i \in 1..n} \cap S
           Wrong == {n \in 0..Len(s) : ~Right(n)}
<1>3. Right(0)
  <2>1. Elems(<<>>) = {} /\ <<>> \in Seq(A)
    BY EmptySeq DEF Elems
  <2>2. {s[i] : i \in 1..0} = {}
    OBVIOUS
  <2> QED BY <1>2, <2>1, <2>2
<1>4. ASSUME NEW n \in 1..Len(s), Right(n - 1) PROVE Right(n)
  <2>1. {s[i] : i \in 1..n} = {s[i] : i \in 1..(n - 1)} \cup {s[n]}
    BY <1>1
  <2>2. CASE s[n] \in S
    <3>1. f[n] = Append(f[n - 1], s[n])
      BY <1>2, <2>2
    <3> QED BY <1>1, <1>4, <2>1, <2>2, <3>1, AppendedElems
  <2>3. CASE s[n] \notin S
    <3>1. f[n] = f[n - 1]
      BY <1>2, <2>3
    <3> QED BY <1>4, <2>1, <2>3, <3>1
  <2> QED BY <2>2, <2>3
<1>5. Wrong = {}
  <2> HIDE DEF Right
  <2>1. 0 \notin Wrong /\ \A k \in 1..Len(s) : k \in Wrong => k - 1 \in Wrong
    BY <1>1, <1>3, <1>4
  <2>2. Wrong \in SUBSET (0..Len(s))
    OBVIOUS
  <2> HIDE DEF Wrong
  <2> QED BY <1>1, <2>1, <2>2, Induction
<1>6. Right(Len(s))
  <2> HIDE DEF Right
  <2> QED BY <1>1, <1>5
<1>7. Elems(s) = {s[i] : i \in 1..Len(s)}
  BY <1>1 DEF Elems
<1> HIDE DEF Wrong
<1> QED BY <1>2, <1>6, <1>7

(* All of a prefix and nothing after it. *)
LEMMA OnlyPrefix ==
  ASSUME NEW A, NEW s \in Seq(A), NEW S, NEW n \in 0..Len(s),
         \A i \in 1..n : s[i] \in S, \A i \in (n + 1)..Len(s) : s[i] \notin S
  PROVE  Only(s, S) = SubSeq(s, 1, n)
<1>1. Len(s) \in Nat /\ DOMAIN s = 1..Len(s) /\ \A i \in 1..Len(s) : s[i] \in A
  BY LenProperties
<1>2. PICK f : /\ Only(s, S) = f[Len(s)]
               /\ f[0] = <<>>
               /\ \A i \in 1..Len(s) : f[i] = IF s[i] \in S THEN Append(f[i - 1], s[i]) ELSE f[i - 1]
  BY <1>1, OnlyIsThere
<1> DEFINE Right(k) == /\ k <= n => f[k] = SubSeq(s, 1, k)
                       /\ k >= n => f[k] = SubSeq(s, 1, n)
           Wrong == {k \in 0..Len(s) : ~Right(k)}
<1>3. Right(0)
  BY <1>1, <1>2, SubSeqEmpty
<1>4. ASSUME NEW k \in 1..Len(s), Right(k - 1) PROVE Right(k)
  <2>1. CASE k <= n
    <3>1. f[k - 1] = SubSeq(s, 1, k - 1) /\ f[k] = Append(f[k - 1], s[k])
      <4>1. k - 1 <= n
        BY <1>1, <2>1
      <4>2. f[k - 1] = SubSeq(s, 1, k - 1)
        BY <1>4, <4>1
      <4>3. s[k] \in S
        BY <1>1, <2>1
      <4> HIDE DEF Wrong, Right
      <4> QED BY <1>2, <4>2, <4>3
    <3>2. SubSeq(s, 1, k) = SubSeq(s, 1, k - 1) \o <<s[k]>>
      BY <1>1, SubSeqRecursiveSecond
    <3>3. SubSeq(s, 1, k - 1) \in Seq(A) /\ s[k] \in A
      BY <1>1, SubSeqProperties
    <3>4. Append(SubSeq(s, 1, k - 1), s[k]) = SubSeq(s, 1, k - 1) \o <<s[k]>>
      BY <3>3, AppendIsConcat
    <3> QED BY <2>1, <3>1, <3>2, <3>4
  <2>2. CASE ~(k <= n)
    <3>1. f[k] = f[k - 1] /\ k - 1 >= n
      BY <1>2, <2>2
    <3> QED BY <1>4, <2>2, <3>1
  <2> QED BY <2>1, <2>2
<1>5. Wrong = {}
  <2> HIDE DEF Right
  <2>1. 0 \notin Wrong /\ \A k \in 1..Len(s) : k \in Wrong => k - 1 \in Wrong
    BY <1>1, <1>3, <1>4
  <2>2. Wrong \in SUBSET (0..Len(s))
    OBVIOUS
  <2> HIDE DEF Wrong
  <2> QED BY <1>1, <2>1, <2>2, Induction
<1>6. Right(Len(s))
  <2> HIDE DEF Right
  <2> QED BY <1>1, <1>5
<1>7. f[Len(s)] = SubSeq(s, 1, n)
  <2>1. Len(s) >= n
    BY <1>1
  <2> QED BY <1>6, <2>1
<1> QED BY <1>2, <1>7

LEMMA LowestIs ==
  ASSUME NEW T \in SUBSET Nat, T # {}
  PROVE  Lowest(T) \in T /\ \A n \in T : Lowest(T) <= n
<1>1. \E m \in T : \A n \in T : m <= n
  BY Table!LeastNatural
<1> QED BY <1>1 DEF Lowest

LEMMA LowestAt ==
  ASSUME NEW T \in SUBSET Nat, NEW m \in T, \A n \in T : m <= n
  PROVE  Lowest(T) = m
<1>1. Lowest(T) \in T /\ \A n \in T : Lowest(T) <= n
  BY LowestIs
<1>2. Lowest(T) \in Nat /\ Lowest(T) <= m /\ m <= Lowest(T)
  BY <1>1
<1> QED BY <1>2

Plain(l) == l.cr = FALSE /\ l.tok # "long"

(* The scanner's lines: those before the first long one, without carriage   *)
(* returns.                                                                 *)
LEMMA ScannedIs ==
  ASSUME NEW ls \in Seq(Line)
  PROVE  /\ Scanned(ls) \in Seq(Line)
         /\ Len(Scanned(ls)) <= Len(ls)
         /\ \A i \in 1..Len(Scanned(ls)) : Scanned(ls)[i].tok = ls[i].tok /\ Plain(Scanned(ls)[i])
         /\ (\A i \in 1..Len(ls) : ls[i].tok # "long") => Len(Scanned(ls)) = Len(ls)
<1> DEFINE tooLong == {i \in DOMAIN ls : ls[i].tok = "long"}
           n == IF tooLong = {} THEN Len(ls) ELSE Lowest(tooLong) - 1
<1>1. Len(ls) \in Nat /\ DOMAIN ls = 1..Len(ls) /\ \A i \in 1..Len(ls) : ls[i] \in Line
  BY LenProperties
<1>2. n \in 0..Len(ls) /\ \A i \in 1..n : ls[i].tok # "long"
  <2>1. CASE tooLong = {}
    BY <1>1, <2>1
  <2>2. CASE tooLong # {}
    <3>1. tooLong \in SUBSET Nat
      BY <1>1
    <3>2. Lowest(tooLong) \in tooLong /\ \A i \in tooLong : Lowest(tooLong) <= i
      <4> HIDE DEF tooLong
      <4> QED BY <2>2, <3>1, LowestIs
    <3>3. Lowest(tooLong) \in 1..Len(ls) /\ n = Lowest(tooLong) - 1
      BY <1>1, <2>2, <3>2
    <3>4. \A i \in 1..Len(ls) : i < Lowest(tooLong) => i \notin tooLong
      <4> HIDE DEF tooLong
      <4> QED BY <3>2, <3>3
    <3>5. \A i \in 1..n : i \in 1..Len(ls) /\ i < Lowest(tooLong)
      <4> HIDE DEF tooLong
      <4> QED BY <1>1, <3>3
    <3> QED BY <1>1, <3>3, <3>4, <3>5
  <2> QED BY <2>1, <2>2
<1>3. Scanned(ls) = [i \in 1..n |-> [ls[i] EXCEPT !.cr = FALSE]]
  BY DEF Scanned
<1>4. (\A i \in 1..Len(ls) : ls[i].tok # "long") => n = Len(ls)
  BY <1>1
<1> HIDE DEF n
<1>5. \A i \in 1..n : /\ [ls[i] EXCEPT !.cr = FALSE] \in Line
                      /\ [ls[i] EXCEPT !.cr = FALSE].tok = ls[i].tok
                      /\ [ls[i] EXCEPT !.cr = FALSE].cr = FALSE
  <2> SUFFICES ASSUME NEW l \in Line
               PROVE  /\ [l EXCEPT !.cr = FALSE] \in Line
                      /\ [l EXCEPT !.cr = FALSE].tok = l.tok
                      /\ [l EXCEPT !.cr = FALSE].cr = FALSE
    BY <1>1, <1>2
  <2> QED BY DEF Line
<1>6. Scanned(ls) \in Seq(Line) /\ Len(Scanned(ls)) = n
  BY <1>2, <1>3, <1>5
<1>7. \A i \in 1..n : Scanned(ls)[i].tok = ls[i].tok /\ Plain(Scanned(ls)[i])
  BY <1>2, <1>3, <1>5 DEF Plain
<1> QED BY <1>2, <1>4, <1>6, <1>7
-----------------------------------------------------------------------------
LEMMA FencesAreThere ==
  ASSUME NEW ls \in Seq(Line)
  PROVE  /\ Fences(ls) \in SUBSET Nat /\ Fences(ls) \in SUBSET (1..Len(ls))
         /\ IsFiniteSet(Fences(ls)) /\ Cardinality(Fences(ls)) \in Nat
<1>1. Len(ls) \in Nat /\ DOMAIN ls = 1..Len(ls)
  BY LenProperties
<1>2. Fences(ls) \in SUBSET (1..Len(ls)) /\ Fences(ls) \in SUBSET Nat
  BY <1>1 DEF Fences
<1>3. IsFiniteSet(1..Len(ls))
  BY <1>1, FS_Interval
<1>4. IsFiniteSet(Fences(ls))
  BY <1>2, <1>3, FS_Subset
<1> QED BY <1>2, <1>4, FS_CardinalityType

LEMMA TwoElements ==
  ASSUME NEW T, IsFiniteSet(T)
  PROVE  Cardinality(T) >= 2 <=> \E x, y \in T : x # y
<1>1. ASSUME NEW x \in T, NEW y \in T, x # y PROVE Cardinality(T) >= 2
  <2>1. IsFiniteSet(T \ {x}) /\ Cardinality(T \ {x}) = Cardinality(T) - 1
    BY FS_RemoveElement
  <2>2. IsFiniteSet((T \ {x}) \ {y}) /\ Cardinality((T \ {x}) \ {y}) = Cardinality(T) - 2
    <3>1. y \in T \ {x}
      BY <1>1
    <3>2. Cardinality((T \ {x}) \ {y}) = Cardinality(T \ {x}) - 1 /\ IsFiniteSet((T \ {x}) \ {y})
      BY <2>1, <3>1, FS_RemoveElement
    <3>3. Cardinality(T) \in Nat
      BY FS_CardinalityType
    <3> QED BY <2>1, <3>2, <3>3
  <2>3. Cardinality((T \ {x}) \ {y}) \in Nat /\ Cardinality(T) \in Nat
    BY <2>2, FS_CardinalityType
  <2> QED BY <2>2, <2>3
<1>2. ASSUME Cardinality(T) >= 2 PROVE \E x, y \in T : x # y
  <2>1. Cardinality(T) \in Nat
    BY FS_CardinalityType
  <2>2. T # {}
    BY <1>2, FS_EmptySet
  <2>3. PICK x \in T : TRUE
    BY <2>2
  <2>4. Cardinality(T \ {x}) = Cardinality(T) - 1
    BY FS_RemoveElement
  <2>5. T \ {x} # {}
    BY <1>2, <2>1, <2>4, FS_EmptySet
  <2> QED BY <2>5
<1> QED BY <1>1, <1>2

LEMMA FencesAre ==
  ASSUME NEW ls \in Seq(Line), Cardinality(Fences(ls)) >= 2
  PROVE  /\ Opening(ls) \in 1..Len(ls) /\ Closing(ls) \in 1..Len(ls)
         /\ Opening(ls) < Closing(ls) /\ {Opening(ls), Closing(ls)} \subseteq Fences(ls)
         /\ \A i \in Fences(ls) : i = Opening(ls) \/ i >= Closing(ls)
<1>1. /\ Fences(ls) \in SUBSET Nat /\ Fences(ls) \in SUBSET (1..Len(ls))
      /\ IsFiniteSet(Fences(ls))
  BY FencesAreThere
<1>2. PICK x \in Fences(ls), y \in Fences(ls) : x # y
  BY <1>1, TwoElements
<1>3. Opening(ls) \in Fences(ls) /\ \A i \in Fences(ls) : Opening(ls) <= i
  BY <1>1, <1>2, LowestIs DEF Opening
<1> DEFINE rest == Fences(ls) \ {Opening(ls)}
<1>4. rest \in SUBSET Nat /\ rest # {}
  BY <1>1, <1>2
<1>5. Closing(ls) \in rest /\ \A i \in rest : Closing(ls) <= i
  <2>1. Closing(ls) = Lowest(rest)
    BY DEF Closing
  <2> HIDE DEF rest
  <2> QED BY <1>4, <2>1, LowestIs
<1>6. Opening(ls) \in Nat /\ Closing(ls) \in Nat
  BY <1>1, <1>3, <1>5
<1> QED BY <1>1, <1>3, <1>5, <1>6

LEMMA FencesAt ==
  ASSUME NEW ls \in Seq(Line), NEW a \in Fences(ls), NEW b \in Fences(ls), a < b,
         \A i \in Fences(ls) : i = a \/ i >= b
  PROVE  /\ Cardinality(Fences(ls)) >= 2
         /\ Opening(ls) = a /\ Closing(ls) = b
<1>1. /\ Fences(ls) \in SUBSET Nat /\ IsFiniteSet(Fences(ls))
  BY FencesAreThere
<1>2. Cardinality(Fences(ls)) >= 2
  BY <1>1, TwoElements
<1>3. Opening(ls) = a
  <2>1. \A i \in Fences(ls) : a <= i
    BY <1>1
  <2> QED BY <1>1, <2>1, LowestAt DEF Opening
<1>4. Closing(ls) = b
  <2> DEFINE rest == Fences(ls) \ {a}
  <2>1. rest \in SUBSET Nat /\ b \in rest /\ \A i \in rest : b <= i
    BY <1>1
  <2>2. Closing(ls) = Lowest(rest)
    BY <1>3 DEF Closing
  <2> HIDE DEF rest
  <2> QED BY <2>1, <2>2, LowestAt
<1> QED BY <1>2, <1>3, <1>4

LEMMA JoinedElems ==
  ASSUME NEW A, NEW s \in Seq(A), NEW t \in Seq(A)
  PROVE  s \o t \in Seq(A) /\ Elems(s \o t) = Elems(s) \cup Elems(t)
<1>1. /\ s \o t \in Seq(A) /\ Len(s \o t) = Len(s) + Len(t)
      /\ \A i \in 1..(Len(s) + Len(t)) : (s \o t)[i] = IF i <= Len(s) THEN s[i] ELSE t[i - Len(s)]
  BY ConcatProperties
<1>2. /\ Len(s) \in Nat /\ Len(t) \in Nat /\ DOMAIN s = 1..Len(s) /\ DOMAIN t = 1..Len(t)
      /\ DOMAIN (s \o t) = 1..(Len(s) + Len(t))
  BY <1>1, LenProperties
<1>3. \A i \in 1..Len(s) : i \in 1..(Len(s) + Len(t)) /\ (s \o t)[i] = s[i]
  BY <1>1, <1>2
<1>4. \A i \in 1..Len(t) : Len(s) + i \in 1..(Len(s) + Len(t)) /\ (s \o t)[Len(s) + i] = t[i]
  BY <1>1, <1>2
<1>5. ASSUME NEW i \in 1..(Len(s) + Len(t)) PROVE (s \o t)[i] \in Elems(s) \cup Elems(t)
  <2>1. CASE i <= Len(s)
    <3>1. i \in 1..Len(s)
      BY <1>2, <2>1
    <3> QED BY <1>2, <1>3, <3>1 DEF Elems
  <2>2. CASE ~(i <= Len(s))
    <3>1. i - Len(s) \in 1..Len(t) /\ (s \o t)[i] = t[i - Len(s)]
      BY <1>1, <1>2, <2>2
    <3> QED BY <1>2, <3>1 DEF Elems
  <2> QED BY <2>1, <2>2
<1>6. Elems(s \o t) \subseteq Elems(s) \cup Elems(t)
  BY <1>2, <1>5 DEF Elems
<1>7. Elems(s) \cup Elems(t) \subseteq Elems(s \o t)
  BY <1>2, <1>3, <1>4 DEF Elems
<1> QED BY <1>1, <1>6, <1>7

LEMMA KeysAreFinite == IsFiniteSet(Key)
<1>1. Alphabet \in Seq(Key) /\ \A k \in Key : \E i \in DOMAIN Alphabet : Alphabet[i] = k
  BY AlphabetAssumption
<1>2. Len(Alphabet) \in Nat /\ DOMAIN Alphabet = 1..Len(Alphabet) /\ Alphabet \in [1..Len(Alphabet) -> Key]
  BY <1>1, LenProperties
<1>3. Alphabet \in Surjection(1..Len(Alphabet), Key)
  BY <1>1, <1>2 DEF Surjection
<1>4. IsFiniteSet(1..Len(Alphabet))
  BY <1>2, FS_Interval
<1> QED BY <1>3, <1>4, FS_Surjection

(* The line of the key's last occurrence. *)
LEMMA DecodedIs ==
  ASSUME NEW ls \in Seq(Line), \A i \in 1..Len(ls) : ls[i].tok \in KeyLine
  PROVE  /\ DOMAIN Decoded(ls) = {KeyOf[ls[i].tok] : i \in 1..Len(ls)}
         /\ \A k \in DOMAIN Decoded(ls) :
              \E i \in 1..Len(ls) : KeyOf[ls[i].tok] = k /\ Decoded(ls)[k] = ls[i].tok
<1>1. Len(ls) \in Nat /\ DOMAIN ls = 1..Len(ls)
  BY LenProperties
<1>2. DOMAIN Decoded(ls) = {KeyOf[ls[i].tok] : i \in 1..Len(ls)}
  BY <1>1 DEF Decoded
<1>3. ASSUME NEW k \in DOMAIN Decoded(ls)
      PROVE  \E i \in 1..Len(ls) : KeyOf[ls[i].tok] = k /\ Decoded(ls)[k] = ls[i].tok
  <2> DEFINE Last(i) == KeyOf[ls[i].tok] = k /\ \A j \in (i + 1)..Len(ls) : KeyOf[ls[j].tok] # k
             places == {i \in 1..Len(ls) : KeyOf[ls[i].tok] = k}
  <2>1. places \in SUBSET Nat /\ places # {} /\ \A i \in places : i <= Len(ls)
    BY <1>1, <1>2, <1>3
  <2>2. PICK m \in places : \A i \in places : i <= m
    <3> HIDE DEF places
    <3> QED BY <1>1, <2>1, Table!GreatestNatural
  <2>3. m \in DOMAIN ls /\ Last(m)
    <3>1. m \in 1..Len(ls) /\ KeyOf[ls[m].tok] = k
      OBVIOUS
    <3>2. \A j \in (m + 1)..Len(ls) : j \in 1..Len(ls) /\ ~(j <= m)
      BY <1>1, <3>1
    <3> QED BY <1>1, <2>2, <3>1, <3>2
  <2>4. Decoded(ls)[k] = ls[CHOOSE i \in DOMAIN ls : Last(i)].tok
    BY <1>2, <1>3, <1>1 DEF Decoded
  <2> DEFINE c == CHOOSE i \in DOMAIN ls : Last(i)
  <2>5. c \in DOMAIN ls /\ Last(c)
    <3> HIDE DEF Last
    <3> QED BY <2>3
  <2> QED BY <1>1, <2>4, <2>5
<1> QED BY <1>2, <1>3

Fields == UNION {[keys -> KeyLine] : keys \in SUBSET Key}
NoteRecord == [pre : Seq(Line), fm : Fields, order : Seq(Key), body : Document]

IsNote(n) ==
  /\ n \in NoteRecord
  /\ \A i \in 1..Len(n.pre) : Plain(n.pre[i]) /\ n.pre[i].tok # "fence"
  /\ Elems(n.order) \subseteq DOMAIN n.fm
  /\ \A k \in DOMAIN n.fm : KeyOf[n.fm[k]] = k

(* A note, part by part. *)
LEMMA NoteIs ==
  ASSUME NEW n, IsNote(n)
  PROVE  /\ n.pre \in Seq(Line) /\ n.order \in Seq(Key) /\ n.body \in Document
         /\ n.body.lines \in Seq(Line) /\ n.body.ended \in BOOLEAN
         /\ \A i \in 1..Len(n.pre) : Plain(n.pre[i]) /\ n.pre[i].tok # "fence"
         /\ DOMAIN n.fm \subseteq Key /\ Elems(n.order) \subseteq DOMAIN n.fm
         /\ \A k \in DOMAIN n.fm : n.fm[k] \in KeyLine /\ KeyOf[n.fm[k]] = k
<1>1. n \in NoteRecord
  BY DEF IsNote
<1>2. n.pre \in Seq(Line) /\ n.order \in Seq(Key) /\ n.body \in Document /\ n.fm \in Fields
  BY <1>1 DEF NoteRecord
<1>3. n.body.lines \in Seq(Line) /\ n.body.ended \in BOOLEAN
  BY <1>2 DEF Document
<1>4. DOMAIN n.fm \subseteq Key /\ \A k \in DOMAIN n.fm : n.fm[k] \in KeyLine
  BY <1>2 DEF Fields
<1> QED BY <1>2, <1>3, <1>4 DEF IsNote

KeyLines(ts) == [i \in DOMAIN ts |-> [tok |-> ts[i], cr |-> FALSE]]

LEMMA SlicesAreTyped ==
  ASSUME NEW A, NEW s \in Seq(A), NEW m \in Nat \ {0}, NEW n \in 0..Len(s)
  PROVE  /\ SubSeq(s, m, n) \in Seq(A)
         /\ Len(SubSeq(s, m, n)) = IF m <= n THEN n - m + 1 ELSE 0
         /\ \A i \in 1..(n - m + 1) : SubSeq(s, m, n)[i] = s[m + i - 1]
<1>1. Len(s) \in Nat /\ \A i \in 1..Len(s) : s[i] \in A
  BY LenProperties
<1>2. \A i \in m..n : s[i] \in A
  BY <1>1
<1> QED BY <1>1, <1>2, SubSeqProperties

(* What lies around the fences is free of fences before the first one.      *)
LEMMA ParsedIsNote ==
  ASSUME NEW doc \in Document
  PROVE  IsNote(Parsed(doc))
<1> DEFINE ls == Scanned(doc.lines)
<1>1. doc.lines \in Seq(Line) /\ doc.ended \in BOOLEAN
  BY DEF Document
<1>2. /\ ls \in Seq(Line) /\ Len(ls) \in Nat
      /\ \A i \in 1..Len(ls) : Plain(ls[i])
  BY <1>1, ScannedIs, LenProperties
<1>3. CASE ~HasFrontmatter(doc)
  <2>1. Parsed(doc) = [pre |-> Empty, fm |-> Empty, order |-> Empty, body |-> doc]
    BY <1>3 DEF Parsed
  <2>2. Empty = <<>> /\ Len(<<>>) = 0 /\ DOMAIN <<>> = {} /\ \A A : <<>> \in Seq(A)
    BY EmptySeq DEF Empty
  <2>3. Elems(Empty) = {} /\ 1..Len(Empty) = {}
    BY <2>2 DEF Elems
  <2>4. Empty \in Fields
    <3>1. [k \in {} |-> 0] \in [{} -> KeyLine] /\ Empty = [k \in {} |-> 0]
      BY DEF Empty
    <3> QED BY <3>1 DEF Fields
  <2>5. Parsed(doc) \in NoteRecord
    BY <2>1, <2>2, <2>4 DEF NoteRecord
  <2> QED BY <2>1, <2>2, <2>3, <2>5 DEF IsNote
<1>4. CASE HasFrontmatter(doc)
  <2> DEFINE a == Opening(ls)
             b == Closing(ls)
             block == SubSeq(ls, a + 1, b - 1)
             keys == IF Elems(Tokens(block)) \subseteq KeyLine THEN block ELSE Empty
             order == [i \in DOMAIN keys |-> KeyOf[keys[i].tok]]
  <2>1. Parsed(doc) = [pre   |-> SubSeq(ls, 1, a - 1), fm |-> Decoded(keys), order |-> order,
                       body  |-> [lines |-> SubSeq(ls, b + 1, Len(ls)), ended |-> TRUE]]
    BY <1>4 DEF Parsed
  <2>2. /\ a \in 1..Len(ls) /\ b \in 1..Len(ls) /\ a < b
        /\ \A i \in Fences(ls) : i = a \/ i >= b
    BY <1>2, <1>4, FencesAre DEF HasFrontmatter
  <2> HIDE DEF a, b
  <2>3. /\ block \in Seq(Line)
        /\ SubSeq(ls, 1, a - 1) \in Seq(Line) /\ Len(SubSeq(ls, 1, a - 1)) = a - 1
        /\ \A i \in 1..(a - 1) : SubSeq(ls, 1, a - 1)[i] = ls[i]
        /\ SubSeq(ls, b + 1, Len(ls)) \in Seq(Line)
        /\ Len(SubSeq(ls, b + 1, Len(ls))) = Len(ls) - b
        /\ \A i \in 1..(Len(ls) - b) : SubSeq(ls, b + 1, Len(ls))[i] = ls[b + i]
    <3> HIDE DEF ls
    <3>1. /\ SubSeq(ls, 1, a - 1) \in Seq(Line) /\ Len(SubSeq(ls, 1, a - 1)) = a - 1
          /\ \A i \in 1..(a - 1) : SubSeq(ls, 1, a - 1)[i] = ls[i]
      BY <1>2, <2>2, SlicesAreTyped
    <3>2. /\ SubSeq(ls, b + 1, Len(ls)) \in Seq(Line)
          /\ Len(SubSeq(ls, b + 1, Len(ls))) = Len(ls) - b
          /\ \A i \in 1..(Len(ls) - b) : SubSeq(ls, b + 1, Len(ls))[i] = ls[b + i]
      BY <1>2, <2>2, SlicesAreTyped
    <3>3. block \in Seq(Line)
      BY <1>2, <2>2, SlicesAreTyped
    <3> QED BY <3>1, <3>2, <3>3
  <2>4. keys \in Seq(Line) /\ \A i \in 1..Len(keys) : keys[i].tok \in KeyLine
    <3> HIDE DEF block
    <3>1. CASE Elems(Tokens(block)) \subseteq KeyLine
      <4>1. \A i \in DOMAIN block : block[i].tok \in KeyLine
        BY <3>1 DEF Elems, Tokens
      <4> QED BY <2>3, <3>1, <4>1, LenProperties
    <3>2. CASE ~(Elems(Tokens(block)) \subseteq KeyLine)
      BY <3>2, EmptySeq DEF Empty
    <3> QED BY <3>1, <3>2
  <2> HIDE DEF keys
  <2>5. Len(keys) \in Nat /\ DOMAIN keys = 1..Len(keys)
    BY <2>4, LenProperties
  <2>6. order \in Seq(Key) /\ Elems(order) = {KeyOf[keys[i].tok] : i \in 1..Len(keys)}
    <3>1. \A i \in 1..Len(keys) : KeyOf[keys[i].tok] \in Key
      BY <2>4 DEF Key
    <3> QED BY <2>5, <3>1 DEF Elems
  <2>7. /\ DOMAIN Decoded(keys) = Elems(order) /\ Elems(order) \subseteq Key
        /\ \A k \in DOMAIN Decoded(keys) : Decoded(keys)[k] \in KeyLine /\ KeyOf[Decoded(keys)[k]] = k
    BY <2>4, <2>6, DecodedIs DEF Key
  <2>8. \A i \in 1..(a - 1) : Plain(ls[i]) /\ ls[i].tok # "fence"
    <3>1. \A i \in 1..(a - 1) : i \in 1..Len(ls) /\ i # a /\ ~(i >= b)
      BY <1>2, <2>2
    <3>2. DOMAIN ls = 1..Len(ls)
      BY <1>2, LenProperties
    <3> HIDE DEF ls
    <3> QED BY <1>2, <2>2, <3>1, <3>2 DEF Fences
  <2>9. /\ Parsed(doc).body \in Document
        /\ Decoded(keys) \in Fields
    <3>1. Decoded(keys) = [k \in DOMAIN Decoded(keys) |-> Decoded(keys)[k]]
      BY DEF Decoded
    <3>2. Decoded(keys) \in [DOMAIN Decoded(keys) -> KeyLine] /\ DOMAIN Decoded(keys) \in SUBSET Key
      BY <2>7, <3>1
    <3>3. Parsed(doc).body \in Document
      BY <2>1, <2>3 DEF Document
    <3> QED BY <3>2, <3>3 DEF Fields
  <2> HIDE DEF order, ls, block
  <2> DEFINE n == Parsed(doc)
  <2>10. /\ n.pre \in Seq(Line) /\ n.order \in Seq(Key)
         /\ \A i \in 1..Len(n.pre) : Plain(n.pre[i]) /\ n.pre[i].tok # "fence"
    BY <2>1, <2>3, <2>6, <2>8
  <2>11. /\ DOMAIN n.fm \subseteq Key /\ Elems(n.order) \subseteq DOMAIN n.fm
         /\ \A k \in DOMAIN n.fm : n.fm[k] \in KeyLine /\ KeyOf[n.fm[k]] = k
    BY <2>1, <2>7
  <2>12. n \in NoteRecord
    BY <2>1, <2>3, <2>6, <2>9 DEF NoteRecord
  <2> HIDE DEF n
  <2>13. IsNote(n)
    BY <2>10, <2>11, <2>12 DEF IsNote
  <2> QED BY <2>13 DEF n
<1> QED BY <1>3, <1>4

LEMMA AnyOrderIs ==
  ASSUME NEW S \in SUBSET Key, NEW s \in AnyOrder(S)
  PROVE  s \in Seq(Key) /\ Elems(s) = S
<1>1. IsFiniteSet(S)
  BY KeysAreFinite, FS_Subset
<1>2. Cardinality(S) \in Nat
  BY <1>1, FS_CardinalityType
<1>3. s \in [1..Cardinality(S) -> S] /\ Elems(s) = S
  BY DEF AnyOrder
<1>4. s \in Seq(S)
  BY <1>2, <1>3
<1> QED BY <1>3, <1>4, SeqMonotonic

(* The keys that are written are those the note has. *)
LEMMA OrderIs ==
  ASSUME NEW n, IsNote(n), NEW order \in KeyOrders(n)
  PROVE  order \in Seq(Key) /\ Elems(order) = DOMAIN n.fm
<1> DEFINE rest == DOMAIN n.fm \ (Elems(n.order) \cup {AIKey})
           last == IF AIKey \in DOMAIN n.fm THEN <<AIKey>> ELSE <<>>
<1>1. PICK s \in AnyOrder(rest) : order = (Leading(n) \o s) \o last
  BY DEF KeyOrders
<1>2. n.order \in Seq(Key) /\ Elems(n.order) \subseteq DOMAIN n.fm /\ DOMAIN n.fm \subseteq Key
  BY NoteIs
<1>3. Leading(n) \in Seq(Key) /\ Elems(Leading(n)) = Elems(n.order) \cap (Key \ {AIKey})
  BY <1>2, OnlyKeeps DEF Leading
<1>4. s \in Seq(Key) /\ Elems(s) = rest
  <2>1. rest \in SUBSET Key
    BY <1>2
  <2> HIDE DEF rest
  <2> QED BY <2>1, AnyOrderIs
<1>5. last \in Seq(Key) /\ Elems(last) = DOMAIN n.fm \cap {AIKey}
  <2>1. CASE AIKey \in DOMAIN n.fm
    <3>1. <<AIKey>> \in Seq(Key) /\ DOMAIN <<AIKey>> = {1} /\ <<AIKey>>[1] = AIKey
      BY <1>2, <2>1
    <3> QED BY <2>1, <3>1 DEF Elems
  <2>2. CASE AIKey \notin DOMAIN n.fm
    <3>1. <<>> \in Seq(Key) /\ DOMAIN <<>> = {}
      BY EmptySeq
    <3> QED BY <2>2, <3>1 DEF Elems
  <2> QED BY <2>1, <2>2
<1> HIDE DEF last, rest
<1>6. Leading(n) \o s \in Seq(Key) /\ Elems(Leading(n) \o s) = Elems(Leading(n)) \cup Elems(s)
  <2>1. Leading(n) \in Seq(Key) /\ s \in Seq(Key)
    BY <1>3, <1>4
  <2> QED BY <2>1, JoinedElems
<1>7. /\ (Leading(n) \o s) \o last \in Seq(Key)
      /\ Elems((Leading(n) \o s) \o last) = Elems(Leading(n) \o s) \cup Elems(last)
  <2> DEFINE front == Leading(n) \o s
  <2>1. front \in Seq(Key) /\ last \in Seq(Key)
    BY <1>5, <1>6
  <2> HIDE DEF front
  <2>2. front \o last \in Seq(Key) /\ Elems(front \o last) = Elems(front) \cup Elems(last)
    BY <2>1, JoinedElems
  <2> QED BY <2>2 DEF front
<1>8. Elems(order) = (Elems(n.order) \cap (Key \ {AIKey})) \cup rest \cup (DOMAIN n.fm \cap {AIKey})
  BY <1>1, <1>3, <1>4, <1>5, <1>6, <1>7
<1> QED BY <1>1, <1>2, <1>7, <1>8 DEF rest

(* A concatenation, place by place. *)
LEMMA JoinedPlaces ==
  ASSUME NEW A, NEW s \in Seq(A), NEW t \in Seq(A)
  PROVE  /\ s \o t \in Seq(A) /\ Len(s \o t) = Len(s) + Len(t)
         /\ Len(s) \in Nat /\ Len(t) \in Nat
         /\ \A i \in 1..Len(s) : (s \o t)[i] = s[i]
         /\ \A i \in 1..Len(t) : (s \o t)[Len(s) + i] = t[i]
<1>1. /\ s \o t \in Seq(A) /\ Len(s \o t) = Len(s) + Len(t)
      /\ \A i \in 1..(Len(s) + Len(t)) : (s \o t)[i] = IF i <= Len(s) THEN s[i] ELSE t[i - Len(s)]
  BY ConcatProperties
<1>2. Len(s) \in Nat /\ Len(t) \in Nat
  BY LenProperties
<1>3. \A i \in 1..Len(s) : (s \o t)[i] = s[i]
  BY <1>1, <1>2
<1>4. \A i \in 1..Len(t) : (s \o t)[Len(s) + i] = t[i]
  BY <1>1, <1>2
<1> QED BY <1>1, <1>2, <1>3, <1>4

LEMMA FenceIsALine == AFence \in Seq(Line) /\ Len(AFence) = 1 /\ AFence[1] = [tok |-> "fence", cr |-> FALSE]
<1> DEFINE l == [tok |-> "fence", cr |-> FALSE]
<1>1. l \in Line /\ AFence = <<l>>
  BY DEF AFence, Line, Token
<1> HIDE DEF l
<1>2. <<l>> \in Seq(Line) /\ Len(<<l>>) = 1 /\ <<l>>[1] = l
  BY <1>1
<1> QED BY <1>1, <1>2 DEF l

(* Line by line, what marshal writes of a note with its keys in some order. *)
LEMMA FramedIs ==
  ASSUME NEW n, n.pre \in Seq(Line), n.body.lines \in Seq(Line), NEW keys \in Seq(Line)
  PROVE  LET a == Len(n.pre)
             b == a + Len(keys) + 2
         IN  /\ Framed(n, keys) \in Seq(Line)
             /\ Len(Framed(n, keys)) = b + Len(n.body.lines)
             /\ \A i \in 1..a : Framed(n, keys)[i] = n.pre[i]
             /\ Framed(n, keys)[a + 1] = AFence[1] /\ Framed(n, keys)[b] = AFence[1]
             /\ \A i \in 1..Len(keys) : Framed(n, keys)[a + 1 + i] = keys[i]
             /\ \A i \in 1..Len(n.body.lines) : Framed(n, keys)[b + i] = n.body.lines[i]
<1> DEFINE pre == n.pre
           body == n.body.lines
           s1 == pre \o AFence
           s2 == s1 \o keys
           s3 == s2 \o AFence
           s4 == s3 \o body
<1>1. Framed(n, keys) = s4
  BY DEF Framed
<1>2. pre \in Seq(Line) /\ body \in Seq(Line) /\ AFence \in Seq(Line) /\ Len(AFence) = 1
  BY FenceIsALine
<1> HIDE DEF pre, body
<1>3. s1 \in Seq(Line)
  BY <1>2, JoinedPlaces
<1>20. pre \in Seq(Line) /\ body \in Seq(Line) /\ AFence \in Seq(Line)
  BY <1>2
<1>4. /\ Len(s1) = Len(pre) + Len(AFence) /\ Len(pre) \in Nat
      /\ \A i \in 1..Len(pre) : s1[i] = pre[i]
      /\ \A i \in 1..Len(AFence) : s1[Len(pre) + i] = AFence[i]
  BY <1>20, JoinedPlaces
<1> HIDE DEF s1
<1>5. s2 \in Seq(Line)
  BY <1>3, JoinedPlaces
<1>6. /\ Len(s2) = Len(s1) + Len(keys) /\ Len(keys) \in Nat
      /\ \A i \in 1..Len(s1) : s2[i] = s1[i]
      /\ \A i \in 1..Len(keys) : s2[Len(s1) + i] = keys[i]
  BY <1>3, JoinedPlaces
<1> HIDE DEF s2
<1>7. s3 \in Seq(Line)
  BY <1>2, <1>5, JoinedPlaces
<1>8. /\ Len(s3) = Len(s2) + Len(AFence)
      /\ \A i \in 1..Len(s2) : s3[i] = s2[i]
      /\ \A i \in 1..Len(AFence) : s3[Len(s2) + i] = AFence[i]
  BY <1>20, <1>5, JoinedPlaces
<1> HIDE DEF s3
<1>9. s4 \in Seq(Line)
  BY <1>2, <1>7, JoinedPlaces
<1>10. /\ Len(s4) = Len(s3) + Len(body)
       /\ \A i \in 1..Len(s3) : s4[i] = s3[i]
       /\ \A i \in 1..Len(body) : s4[Len(s3) + i] = body[i]
  BY <1>2, <1>7, JoinedPlaces
<1> HIDE DEF s4
<1> DEFINE a == Len(pre)
           b == a + Len(keys) + 2
<1>11. /\ a \in Nat /\ Len(keys) \in Nat /\ Len(s1) = a + 1
       /\ Len(s2) = a + 1 + Len(keys) /\ Len(s3) = b
  BY <1>2, <1>4, <1>6, <1>8
<1>12. \A i \in 1..(a + 1) : s4[i] = s1[i]
  <2> SUFFICES ASSUME NEW i \in 1..(a + 1) PROVE s4[i] = s1[i]
    OBVIOUS
  <2>1. i \in 1..Len(s1) /\ i \in 1..Len(s2) /\ i \in 1..Len(s3)
    BY <1>11
  <2> QED BY <1>6, <1>8, <1>10, <2>1
<1>13. \A i \in 1..Len(keys) : s4[a + 1 + i] = keys[i]
  <2> SUFFICES ASSUME NEW i \in 1..Len(keys) PROVE s4[a + 1 + i] = keys[i]
    OBVIOUS
  <2>1. a + 1 + i \in 1..Len(s2) /\ a + 1 + i \in 1..Len(s3) /\ a + 1 + i = Len(s1) + i
    BY <1>11
  <2> QED BY <1>6, <1>8, <1>10, <2>1
<1>14. s4[a + 1] = AFence[1]
  <2>1. a + 1 \in 1..(a + 1) /\ 1 \in 1..Len(AFence)
    BY <1>2, <1>11
  <2> QED BY <1>4, <1>12, <2>1
<1>15. s4[b] = AFence[1]
  <2>1. b \in 1..Len(s3) /\ 1 \in 1..Len(AFence) /\ b = Len(s2) + 1
    BY <1>2, <1>11
  <2> QED BY <1>8, <1>10, <2>1
<1>16. \A i \in 1..a : s4[i] = pre[i]
  <2>1. \A i \in 1..a : i \in 1..(a + 1)
    BY <1>11
  <2> QED BY <1>4, <1>12, <2>1
<1> HIDE DEF a
<1>17. /\ Len(s4) = b + Len(body)
       /\ \A i \in 1..Len(body) : s4[b + i] = body[i]
  BY <1>10, <1>11
<1> QED BY <1>1, <1>9, <1>13, <1>14, <1>15, <1>16, <1>17 DEF pre, body, a

FmLines(n, order) == [i \in DOMAIN order |-> [tok |-> n.fm[order[i]], cr |-> FALSE]]

(* The front matter lines that are written are lines with the note's keys.  *)
LEMMA FmLinesAre ==
  ASSUME NEW n, IsNote(n), NEW order \in Seq(Key), Elems(order) \subseteq DOMAIN n.fm
  PROVE  /\ FmLines(n, order) \in Seq(Line) /\ Len(FmLines(n, order)) = Len(order)
         /\ \A i \in 1..Len(order) :
              /\ FmLines(n, order)[i].tok = n.fm[order[i]] /\ FmLines(n, order)[i].cr = FALSE
              /\ order[i] \in DOMAIN n.fm /\ n.fm[order[i]] \in KeyLine /\ KeyOf[n.fm[order[i]]] = order[i]
<1>1. Len(order) \in Nat /\ DOMAIN order = 1..Len(order)
  BY LenProperties
<1>2. \A i \in 1..Len(order) : order[i] \in DOMAIN n.fm
  BY <1>1 DEF Elems
<1>3. \A i \in 1..Len(order) : n.fm[order[i]] \in KeyLine /\ KeyOf[n.fm[order[i]]] = order[i]
  BY <1>2, NoteIs
<1>4. \A i \in 1..Len(order) : [tok |-> n.fm[order[i]], cr |-> FALSE] \in Line
  BY <1>3 DEF Line, Token
<1>5. FmLines(n, order) = [i \in 1..Len(order) |-> [tok |-> n.fm[order[i]], cr |-> FALSE]]
  BY <1>1 DEF FmLines
<1>6. FmLines(n, order) \in Seq(Line) /\ Len(FmLines(n, order)) = Len(order)
  BY <1>1, <1>4, <1>5
<1> QED BY <1>2, <1>3, <1>5, <1>6

LEMMA MarshalledIs ==
  ASSUME NEW n, IsNote(n), NEW buf \in Marshalled(n)
  PROVE  /\ buf \in Document /\ buf # Blank
         /\ \E order \in KeyOrders(n) :
              /\ order \in Seq(Key) /\ Elems(order) = DOMAIN n.fm
              /\ buf = [lines |-> Framed(n, FmLines(n, order)),
                        ended |-> n.body.lines = <<>> \/ n.body.ended]
<1>1. PICK order \in KeyOrders(n) :
        buf = [lines |-> Framed(n, FmLines(n, order)), ended |-> n.body.lines = <<>> \/ n.body.ended]
  BY DEF Marshalled, FmLines
<1>2. order \in Seq(Key) /\ Elems(order) = DOMAIN n.fm
  BY OrderIs
<1>3. FmLines(n, order) \in Seq(Line)
  BY <1>2, FmLinesAre
<1>4. /\ Framed(n, FmLines(n, order)) \in Seq(Line)
      /\ Len(Framed(n, FmLines(n, order))) = Len(n.pre) + Len(FmLines(n, order)) + 2 + Len(n.body.lines)
  BY <1>3, NoteIs, FramedIs
<1>5. Len(n.pre) \in Nat /\ Len(FmLines(n, order)) \in Nat /\ Len(n.body.lines) \in Nat
  BY <1>3, NoteIs, LenProperties
<1>6. buf.lines # <<>>
  <2>1. buf.lines = Framed(n, FmLines(n, order))
    BY <1>1
  <2>2. Len(Framed(n, FmLines(n, order))) # 0
    <3> DEFINE all == Len(Framed(n, FmLines(n, order)))
               a == Len(n.pre)
               b == Len(FmLines(n, order))
               c == Len(n.body.lines)
    <3>1. all = a + b + 2 + c
      BY <1>4
    <3>2. a \in Nat /\ b \in Nat /\ c \in Nat
      BY <1>5
    <3> HIDE DEF all, a, b, c
    <3>3. all # 0
      BY <3>1, <3>2
    <3> QED BY <3>3 DEF all
  <2> QED BY <2>1, <2>2, EmptySeq
<1>7. buf \in Document
  <2>1. (n.body.lines = <<>> \/ n.body.ended) \in BOOLEAN
    BY NoteIs
  <2> QED BY <1>1, <1>4, <2>1 DEF Document
<1> QED BY <1>1, <1>2, <1>6, <1>7 DEF Blank, Empty
-----------------------------------------------------------------------------
(***************************************************************************)
(* Any note but an empty file, and any writers.                            *)
(***************************************************************************)
NotesSpec ==
  (\E writers \in SUBSET Writer : NotesInit(Document \ {Blank}, writers)) /\ [][NotesNext]_noteVars

WorkStage == {"parsed", "changed", "opened", "filled", "cleanup"}
Working(w) == writer[w].stage \in WorkStage

FileTypes ==
  /\ file \in Inode /\ tmp \in Inode \cup {None} /\ tmp # file
  /\ content \in [Inode -> Document \cup {None}]
  /\ content[file] # None
  /\ tmp # None => content[tmp] # None
  /\ shared \in BOOLEAN

WriterRecord ==
  [stage : WorkStage \cup {"start", "done"}, from : Document \cup {None},
   note : NoteRecord \cup {None}, buf : Document \cup {None}, fd : Inode \cup {None}]

(* What a writer has at hand is the note it read, with keys set.            *)
NoteIsRead(w) ==
  LET was == Parsed(writer[w].from)
      note == writer[w].note
  IN  /\ writer[w].from \in Document /\ Parses(writer[w].from)
      /\ IsNote(note)
      /\ note.pre = was.pre /\ note.order = was.order /\ note.body = was.body
      /\ DOMAIN was.fm \subseteq DOMAIN note.fm

WriterInv(w) ==
  /\ writer[w] \in WriterRecord
  /\ Working(w) => NoteIsRead(w)
  /\ ~Working(w) => writer[w].note = None
  /\ Writing(w) => writer[w].fd \in Inode /\ writer[w].buf \in Marshalled(writer[w].note)

(* Without an overlap, path.tmp is the file of the only writer there is,    *)
(* and it is complete once it is filled.                                    *)
OneWrite ==
  ~shared =>
    /\ content[file] # Blank
    /\ \A v, w \in Writer : Writing(v) /\ Writing(w) => v = w
    /\ \A w \in Writer : Writing(w) =>
         tmp = writer[w].fd /\ (At(w, "filled") => content[tmp] = writer[w].buf)

NotesInv ==
  /\ FileTypes /\ OneWrite
  /\ writer \in [Writer -> WriterRecord]
  /\ \A w \in Writer : WriterInv(w)

LEMMA NotesStart ==
  ASSUME NEW writers \in SUBSET Writer, NotesInit(Document \ {Blank}, writers) PROVE NotesInv
<1>1. file \in Inode
  <2>1. (CHOOSE i \in Inode : TRUE) \in Inode
    BY InodeAssumption
  <2> QED BY <2>1 DEF NotesInit
<1>2. PICK d \in Document \ {Blank} : content = [i \in Inode |-> IF i = file THEN d ELSE None]
  BY DEF NotesInit
<1>3. None \notin Inode /\ None \notin Document
  BY NoneAssumption
<1>4. FileTypes
  BY <1>1, <1>2, <1>3 DEF NotesInit, FileTypes
<1>5. \A w \in Writer :
        writer[w] = [stage |-> IF w \in writers THEN "start" ELSE "done",
                     from |-> None, note |-> None, buf |-> None, fd |-> None]
  BY DEF NotesInit, Absent
<1>6. \A w \in Writer : ~Working(w) /\ ~Writing(w) /\ writer[w].note = None /\ writer[w] \in WriterRecord
  <2> SUFFICES ASSUME NEW w \in Writer
               PROVE  ~Working(w) /\ ~Writing(w) /\ writer[w].note = None /\ writer[w] \in WriterRecord
    OBVIOUS
  <2> DEFINE stage == IF w \in writers THEN "start" ELSE "done"
  <2>0. writer[w] = [stage |-> stage, from |-> None, note |-> None, buf |-> None, fd |-> None]
    BY <1>5
  <2>3. stage \in {"start", "done"}
    OBVIOUS
  <2> HIDE DEF stage
  <2>1. writer[w].stage \in {"start", "done"} /\ writer[w].note = None
    BY <2>0, <2>3
  <2>2. writer[w] \in WriterRecord
    BY <2>0, <2>3 DEF WriterRecord
  <2> QED BY <2>1, <2>2 DEF Working, WorkStage, Writing
<1>7. OneWrite
  BY <1>1, <1>2, <1>6 DEF OneWrite
<1>8. writer \in [Writer -> WriterRecord]
  <2>1. writer = [w \in Writer |-> writer[w]]
    BY DEF NotesInit
  <2> QED BY <1>6, <2>1
<1> QED BY <1>4, <1>6, <1>7, <1>8 DEF NotesInv, WriterInv

(* A step of a writer leaves the others' records alone. *)
LEMMA OthersKeep ==
  ASSUME NotesInv, NEW w \in Writer, NEW r \in WriterRecord, writer' = [writer EXCEPT ![w] = r],
         WriterInv(w)'
  PROVE  writer' \in [Writer -> WriterRecord] /\ \A v \in Writer : WriterInv(v)'
<1>1. writer' \in [Writer -> WriterRecord]
  BY DEF NotesInv
<1>2. ASSUME NEW v \in Writer, v # w PROVE WriterInv(v)'
  <2>1. writer'[v] = writer[v] /\ WriterInv(v)
    BY <1>2 DEF NotesInv
  <2> QED BY <2>1 DEF WriterInv, Working, Writing, NoteIsRead
<1> QED BY <1>1, <1>2

LEMMA ReadKeeps == ASSUME NotesInv, NEW w \in Writer, Read(w) PROVE NotesInv'
<1> DEFINE doc == content[file]
           r == IF Parses(doc) THEN [writer[w] EXCEPT !.stage = "parsed", !.from = doc, !.note = Parsed(doc)]
                ELSE Absent
<1>1. /\ writer' = [writer EXCEPT ![w] = r]
      /\ UNCHANGED <<file, tmp, content, shared>>
      /\ writer[w] \in WriterRecord /\ writer \in [Writer -> WriterRecord] /\ At(w, "start")
  BY DEF Read, NotesInv, WriterInv
<1>2. doc \in Document
  BY DEF NotesInv, FileTypes
<1>3. IsNote(Parsed(doc)) /\ Parsed(doc) \in NoteRecord
  BY <1>2, ParsedIsNote DEF IsNote
<1>4. /\ r \in WriterRecord /\ r.stage \in {"parsed", "done"}
      /\ r.stage = "parsed" => Parses(doc) /\ r.from = doc /\ r.note = Parsed(doc)
      /\ r.stage = "done" => r.note = None
  BY <1>1, <1>2, <1>3 DEF WriterRecord, Absent, WorkStage
<1> HIDE DEF r
<1>5. writer'[w] = r
  BY <1>1
<1>6. WriterInv(w)'
  BY <1>2, <1>3, <1>4, <1>5 DEF WriterInv, Working, WorkStage, Writing, NoteIsRead
<1>7. \A v \in Writer : Writing(v)' => Writing(v) /\ writer'[v] = writer[v]
  BY <1>1, <1>4, <1>5 DEF Writing
<1>8. OneWrite'
  BY <1>1, <1>7 DEF NotesInv, OneWrite, At
<1>9. FileTypes'
  BY <1>1 DEF NotesInv, FileTypes
<1> QED BY <1>1, <1>4, <1>6, <1>8, <1>9, OthersKeep DEF NotesInv

LEMMA SetKeysKeeps == ASSUME NotesInv, NEW w \in Writer, NEW ts \in Change, SetKeys(w, ts) PROVE NotesInv'
<1> DEFINE n == writer[w].note
           Set(k) == \E t \in ts : KeyOf[t] = k
           fm == [k \in DOMAIN n.fm \cup {KeyOf[t] : t \in ts} |->
                    IF Set(k) THEN CHOOSE t \in ts : KeyOf[t] = k ELSE n.fm[k]]
           m == [n EXCEPT !.fm = fm]
           r == [writer[w] EXCEPT !.stage = "changed", !.note = m]
<1>1. writer[w] \in WriterRecord /\ writer \in [Writer -> WriterRecord] /\ At(w, "parsed")
  BY DEF SetKeys, NotesInv, WriterInv
<1>2. Working(w) /\ NoteIsRead(w) /\ IsNote(n)
  BY <1>1 DEF At, Working, WorkStage, NotesInv, WriterInv, NoteIsRead
<1>3. n \in NoteRecord
  BY <1>2 DEF IsNote
<1>4. ts \subseteq KeyLine
  BY ChangeAssumption
<1>5. /\ DOMAIN fm = DOMAIN n.fm \cup {KeyOf[t] : t \in ts}
      /\ DOMAIN fm \in SUBSET Key
      /\ \A k \in DOMAIN fm : fm[k] \in KeyLine /\ KeyOf[fm[k]] = k
  <2>1. {KeyOf[t] : t \in ts} \subseteq Key
    BY <1>4 DEF Key
  <2>2. ASSUME NEW k \in DOMAIN fm PROVE fm[k] \in KeyLine /\ KeyOf[fm[k]] = k
    <3>1. CASE Set(k)
      <4>1. fm[k] = CHOOSE t \in ts : KeyOf[t] = k
        BY <2>2, <3>1
      <4>2. fm[k] \in ts /\ KeyOf[fm[k]] = k
        BY <3>1, <4>1
      <4> QED BY <1>4, <4>2
    <3>2. CASE ~Set(k)
      <4>1. k \in DOMAIN n.fm /\ fm[k] = n.fm[k]
        BY <2>2, <3>2
      <4> HIDE DEF n, fm
      <4> QED BY <1>2, <4>1, NoteIs
    <3> QED BY <3>1, <3>2
  <2>3. DOMAIN n.fm \subseteq Key
    BY <1>2, NoteIs
  <2> QED BY <2>1, <2>2, <2>3
<1>6. fm \in Fields
  <2>1. fm = [k \in DOMAIN fm |-> fm[k]]
    OBVIOUS
  <2> HIDE DEF fm
  <2>2. fm \in [DOMAIN fm -> KeyLine]
    BY <1>5, <2>1
  <2> QED BY <1>5, <2>2 DEF Fields
<1> HIDE DEF fm
<1>7. /\ m \in NoteRecord /\ m.fm = fm
      /\ m.pre = n.pre /\ m.order = n.order /\ m.body = n.body
  BY <1>3, <1>6 DEF NoteRecord
<1>8. writer' = [writer EXCEPT ![w] = r] /\ UNCHANGED <<file, tmp, content, shared>>
  BY <1>1 DEF SetKeys, fm
<1>9. /\ r \in WriterRecord /\ r.stage = "changed"
      /\ r.from = writer[w].from /\ r.note = m
  BY <1>1, <1>7 DEF WriterRecord, WorkStage
<1> HIDE DEF r, m
<1>10. IsNote(m)
  BY <1>2, <1>5, <1>7 DEF IsNote
<1>11. writer'[w] = r
  BY <1>1, <1>8
<1>12. WriterInv(w)'
  <2>1. NoteIsRead(w)'
    BY <1>2, <1>5, <1>7, <1>9, <1>10, <1>11 DEF NoteIsRead
  <2> QED BY <1>9, <1>11, <2>1 DEF WriterInv, Working, WorkStage, Writing
<1>13. \A v \in Writer : Writing(v)' => Writing(v) /\ writer'[v] = writer[v]
  BY <1>1, <1>8, <1>9, <1>11 DEF Writing
<1>14. OneWrite'
  BY <1>8, <1>13 DEF NotesInv, OneWrite, At
<1>15. FileTypes'
  BY <1>8 DEF NotesInv, FileTypes
<1> QED BY <1>8, <1>9, <1>12, <1>14, <1>15, OthersKeep DEF NotesInv

(* A writer that is done has nothing at hand. *)
LEMMA AbsentIs == Absent \in WriterRecord /\ Absent.stage = "done" /\ Absent.note = None
BY DEF Absent, WriterRecord

(* A step that ends the work of w, and changes nothing a writer relies on.  *)
LEMMA DoneKeeps ==
  ASSUME NotesInv, NEW w \in Writer, writer' = [writer EXCEPT ![w] = Absent], FileTypes', UNCHANGED shared,
         ~shared => /\ content'[file'] # Blank
                    /\ \A v \in Writer \ {w} : ~Writing(v) \/ (tmp' = tmp /\ content' = content)
  PROVE  NotesInv'
<1>1. writer'[w] = Absent /\ \A v \in Writer \ {w} : writer'[v] = writer[v]
  BY DEF NotesInv
<1>2. WriterInv(w)' /\ ~Writing(w)'
  BY <1>1, AbsentIs DEF WriterInv, Working, WorkStage, Writing
<1>3. \A v \in Writer : Writing(v)' => v # w /\ Writing(v) /\ writer'[v] = writer[v]
  BY <1>1, <1>2 DEF Writing
<1>4. OneWrite'
  BY <1>3 DEF NotesInv, OneWrite, At
<1> QED BY <1>2, <1>4, AbsentIs, OthersKeep DEF NotesInv

LEMMA OpenTmpKeeps == ASSUME NotesInv, NEW w \in Writer, OpenTmp(w) PROVE NotesInv'
<1> DEFINE n == writer[w].note
<1>1. PICK i \in Inode, buf \in Marshalled(n) :
        /\ Target(i)
        /\ tmp' = i
        /\ content' = [content EXCEPT ![i] = Blank]
        /\ writer' = [writer EXCEPT ![w].stage = "opened", ![w].fd = i, ![w].buf = buf]
  BY DEF OpenTmp
<1>2. /\ writer[w] \in WriterRecord /\ writer \in [Writer -> WriterRecord] /\ WriterInv(w)
      /\ writer[w].stage \in {"parsed", "changed"} /\ UNCHANGED file
      /\ shared' = (shared \/ \E v \in Writer \ {w} : Writing(v))
  BY DEF OpenTmp, At, NotesInv, WriterInv
<1>3. NoteIsRead(w) /\ IsNote(n)
  BY <1>2 DEF WriterInv, Working, WorkStage, NoteIsRead
<1>4. buf \in Document
  BY <1>3, MarshalledIs
<1> DEFINE r == [writer[w] EXCEPT !.stage = "opened", !.fd = i, !.buf = buf]
<1>5. writer' = [writer EXCEPT ![w] = r]
  BY <1>1, <1>2
<1>6. /\ r \in WriterRecord /\ r.stage = "opened" /\ r.fd = i /\ r.buf = buf
      /\ r.note = n /\ r.from = writer[w].from
  BY <1>2, <1>4 DEF WriterRecord, WorkStage
<1> HIDE DEF r
<1>7. writer'[w] = r
  BY <1>2, <1>5
<1>8. WriterInv(w)'
  <2>1. NoteIsRead(w)'
    BY <1>3, <1>6, <1>7 DEF NoteIsRead
  <2> QED BY <1>6, <1>7, <2>1 DEF WriterInv, Working, WorkStage, Writing
<1>9. i # file /\ i # None
  <2>1. i # None
    BY NoneAssumption
  <2>2. i = tmp \/ content[i] = None
    BY <1>1 DEF Target
  <2> QED BY <2>1, <2>2 DEF NotesInv, FileTypes
<1>10. Blank \in Document /\ Blank # None
  <2>1. Blank \in Document
    BY EmptySeq DEF Blank, Document, Empty
  <2> QED BY <2>1, NoneAssumption
<1>11. FileTypes'
  <2>1. /\ file \in Inode /\ content \in [Inode -> Document \cup {None}] /\ content[file] # None
        /\ shared \in BOOLEAN
    BY DEF NotesInv, FileTypes
  <2>2. /\ content' \in [Inode -> Document \cup {None}]
        /\ content'[file'] = content[file] /\ content'[tmp'] = Blank
    BY <1>1, <1>2, <1>9, <1>10, <2>1
  <2>3. tmp' \in Inode \cup {None} /\ tmp' # file' /\ file' \in Inode /\ shared' \in BOOLEAN
    BY <1>1, <1>2, <1>9, <2>1
  <2> QED BY <1>10, <2>1, <2>2, <2>3, <1>2 DEF FileTypes
<1>12. OneWrite'
  <2> SUFFICES ASSUME ~shared' PROVE OneWrite'
    BY DEF OneWrite
  <2>1. ~shared /\ \A v \in Writer \ {w} : ~Writing(v)
    BY <1>2
  <2>2. \A v \in Writer \ {w} : ~Writing(v)'
    BY <2>1, <1>5, <1>2 DEF Writing
  <2>3. content'[file'] # Blank
    BY <2>1, <1>1, <1>2, <1>9 DEF NotesInv, OneWrite, FileTypes
  <2>4. tmp' = writer'[w].fd /\ ~At(w, "filled")'
    BY <1>1, <1>6, <1>7 DEF At
  <2> QED BY <2>2, <2>3, <2>4 DEF OneWrite
<1> QED BY <1>5, <1>6, <1>8, <1>11, <1>12, OthersKeep DEF NotesInv

LEMMA FillKeeps == ASSUME NotesInv, NEW w \in Writer, Fill(w) PROVE NotesInv'
<1> DEFINE r == [writer[w] EXCEPT !.stage = "filled"]
           fd == writer[w].fd
           buf == writer[w].buf
<1>1. /\ writer[w] \in WriterRecord /\ writer \in [Writer -> WriterRecord] /\ WriterInv(w)
      /\ writer[w].stage = "opened" /\ UNCHANGED <<file, tmp, shared>>
      /\ content' = [content EXCEPT ![fd] = buf]
      /\ writer' = [writer EXCEPT ![w] = r]
  BY DEF Fill, At, NotesInv, WriterInv
<1>2. Writing(w) /\ Working(w)
  BY <1>1 DEF Writing, Working, WorkStage
<1>3. fd \in Inode /\ buf \in Marshalled(writer[w].note) /\ IsNote(writer[w].note) /\ NoteIsRead(w)
  BY <1>1, <1>2 DEF WriterInv, NoteIsRead
<1>4. buf \in Document /\ buf # Blank /\ buf # None
  BY <1>3, MarshalledIs, NoneAssumption
<1>5. /\ r \in WriterRecord /\ r.stage = "filled" /\ r.fd = fd /\ r.buf = buf
      /\ r.note = writer[w].note /\ r.from = writer[w].from
  BY <1>1 DEF WriterRecord, WorkStage
<1> HIDE DEF r, fd, buf
<1>6. writer'[w] = r
  BY <1>1
<1>7. WriterInv(w)'
  <2>1. NoteIsRead(w)'
    BY <1>3, <1>5, <1>6 DEF NoteIsRead
  <2> QED BY <1>3, <1>5, <1>6, <2>1 DEF WriterInv, Working, WorkStage, Writing
<1>8. FileTypes'
  BY <1>1, <1>3, <1>4 DEF NotesInv, FileTypes
<1>9. OneWrite'
  <2> SUFFICES ASSUME ~shared PROVE OneWrite'
    BY <1>1 DEF OneWrite
  <2>1. content[file] # Blank /\ tmp = fd /\ \A v \in Writer : Writing(v) => v = w
    BY <1>2 DEF NotesInv, OneWrite, fd
  <2>2. \A v \in Writer : Writing(v)' => v = w
    BY <1>1, <2>1 DEF Writing
  <2>3. content'[file'] # Blank /\ tmp' = writer'[w].fd /\ content'[tmp'] = writer'[w].buf
    BY <1>1, <1>3, <1>4, <1>5, <1>6, <2>1 DEF NotesInv, FileTypes
  <2> QED BY <2>2, <2>3 DEF OneWrite
<1> QED BY <1>1, <1>5, <1>7, <1>8, <1>9, OthersKeep DEF NotesInv

LEMMA RenameKeeps == ASSUME NotesInv, NEW w \in Writer, Rename(w) PROVE NotesInv'
<1>1. /\ writer[w].stage = "filled" /\ tmp # None /\ file' = tmp /\ tmp' = None
      /\ writer' = [writer EXCEPT ![w] = Absent] /\ UNCHANGED <<content, shared>> /\ WriterInv(w)
  BY DEF Rename, At, NotesInv
<1>2. Writing(w) /\ Working(w)
  BY <1>1 DEF Writing, Working, WorkStage
<1>3. FileTypes'
  BY <1>1, NoneAssumption DEF NotesInv, FileTypes
<1>4. ASSUME ~shared PROVE content'[file'] # Blank /\ \A v \in Writer \ {w} : ~Writing(v)
  <2>1. content[tmp] = writer[w].buf /\ \A v \in Writer \ {w} : ~Writing(v)
    BY <1>1, <1>2, <1>4 DEF NotesInv, OneWrite, At
  <2>2. writer[w].buf # Blank
    BY <1>1, <1>2, MarshalledIs DEF WriterInv, NoteIsRead
  <2> QED BY <1>1, <2>1, <2>2
<1> QED BY <1>1, <1>3, <1>4, DoneKeeps

LEMMA CleanupKeeps == ASSUME NotesInv, NEW w \in Writer, Cleanup(w) PROVE NotesInv'
<1>1. /\ writer[w].stage = "cleanup" /\ tmp' = None
      /\ writer' = [writer EXCEPT ![w] = Absent] /\ UNCHANGED <<file, content, shared>>
  BY DEF Cleanup, At
<1>2. Writing(w)
  BY <1>1 DEF Writing
<1>3. FileTypes'
  BY <1>1, NoneAssumption DEF NotesInv, FileTypes
<1>4. ASSUME ~shared PROVE content'[file'] # Blank /\ \A v \in Writer \ {w} : ~Writing(v)
  BY <1>1, <1>2, <1>4 DEF NotesInv, OneWrite
<1> QED BY <1>1, <1>3, <1>4, DoneKeeps

LEMMA RenameFailsKeeps == ASSUME NotesInv, NEW w \in Writer, RenameFails(w) PROVE NotesInv'
<1> DEFINE r == [writer[w] EXCEPT !.stage = "cleanup"]
<1>1. /\ writer[w] \in WriterRecord /\ writer \in [Writer -> WriterRecord] /\ WriterInv(w)
      /\ writer[w].stage = "filled" /\ UNCHANGED <<file, tmp, content, shared>>
      /\ writer' = [writer EXCEPT ![w] = r]
  BY DEF RenameFails, At, NotesInv, WriterInv
<1>2. Writing(w) /\ Working(w)
  BY <1>1 DEF Writing, Working, WorkStage
<1>3. /\ r \in WriterRecord /\ r.stage = "cleanup" /\ r.fd = writer[w].fd /\ r.buf = writer[w].buf
      /\ r.note = writer[w].note /\ r.from = writer[w].from
  BY <1>1 DEF WriterRecord, WorkStage
<1> HIDE DEF r
<1>4. writer'[w] = r
  BY <1>1
<1>5. WriterInv(w)'
  <2>1. NoteIsRead(w)'
    BY <1>1, <1>2, <1>3, <1>4 DEF NoteIsRead, WriterInv
  <2> QED BY <1>1, <1>2, <1>3, <1>4, <2>1 DEF WriterInv, Working, WorkStage, Writing
<1>6. FileTypes'
  BY <1>1 DEF NotesInv, FileTypes
<1>7. \A v \in Writer : Writing(v)' => Writing(v)
  BY <1>1, <1>2 DEF Writing
<1>8. \A v \in Writer : /\ writer'[v].fd = writer[v].fd /\ writer'[v].buf = writer[v].buf
                        /\ At(v, "filled")' => At(v, "filled")
  BY <1>1, <1>3, <1>4 DEF At
<1>9. OneWrite'
  BY <1>1, <1>7, <1>8 DEF NotesInv, OneWrite
<1> QED BY <1>1, <1>3, <1>5, <1>6, <1>9, OthersKeep DEF NotesInv

LEMMA GiveUpKeeps == ASSUME NotesInv, NEW w \in Writer, GiveUp(w) PROVE NotesInv'
<1>1. writer' = [writer EXCEPT ![w] = Absent] /\ UNCHANGED <<file, tmp, content, shared>>
  BY DEF GiveUp
<1>2. FileTypes'
  BY <1>1 DEF NotesInv, FileTypes
<1>3. ~shared => content'[file'] # Blank
  BY <1>1 DEF NotesInv, OneWrite
<1> QED BY <1>1, <1>2, <1>3, DoneKeeps

LEMMA NotesStutter == ASSUME NotesInv, UNCHANGED noteVars PROVE NotesInv'
BY DEF NotesInv, FileTypes, OneWrite, WriterInv, Working, Writing, NoteIsRead, At, noteVars

(* The inductive invariant of Read, the setting of keys and the steps of    *)
(* Write: whatever writers overlap, fail or die, each one holds the note    *)
(* that it read, and without an overlap path.tmp belongs to the only Write. *)
THEOREM NotesInvariant == NotesSpec => []NotesInv
<1>1. (\E writers \in SUBSET Writer : NotesInit(Document \ {Blank}, writers)) => NotesInv
  BY NotesStart
<1>2. NotesInv /\ [NotesNext]_noteVars => NotesInv'
  <2> SUFFICES ASSUME NotesInv, [NotesNext]_noteVars PROVE NotesInv'
    OBVIOUS
  <2>1. CASE UNCHANGED noteVars
    BY <2>1, NotesStutter
  <2>2. CASE NotesNext
    <3>1. PICK w \in Writer : WriterStep(w)
      BY <2>2 DEF NotesNext
    <3> QED BY <3>1, ReadKeeps, SetKeysKeeps, OpenTmpKeeps, FillKeeps, RenameKeeps, RenameFailsKeeps,
               CleanupKeeps, GiveUpKeeps DEF WriterStep
  <2> QED BY <2>1, <2>2
<1> QED BY <1>1, <1>2, PTL DEF NotesSpec

(* Files, notes and buffers are what ParseFile and Write take them for, for *)
(* any document, any keys that are set and any writers.                     *)
THEOREM NoteTypesHold == NotesSpec => []NotesTypeOK
<1>1. NotesInv => NotesTypeOK
  <2> SUFFICES ASSUME NotesInv PROVE NotesTypeOK
    OBVIOUS
  <2>1. file \in Inode /\ tmp \in Inode \cup {None} /\ shared \in BOOLEAN
    BY DEF NotesInv, FileTypes
  <2>2. \A i \in Inode : content[i] # None => content[i] \in Document
    BY DEF NotesInv, FileTypes
  <2>3. ASSUME NEW w \in Writer
        PROVE  /\ Writing(w) => writer[w].fd \in Inode /\ writer[w].buf \in Document
               /\ writer[w].note # None =>
                    Elems(writer[w].note.order) \subseteq DOMAIN writer[w].note.fm
    <3>1. WriterInv(w)
      BY DEF NotesInv
    <3>2. CASE Working(w)
      <4>1. IsNote(writer[w].note)
        BY <3>1, <3>2 DEF WriterInv, NoteIsRead
      <4>2. Writing(w) => writer[w].buf \in Document /\ writer[w].fd \in Inode
        BY <3>1, <4>1, MarshalledIs DEF WriterInv
      <4> QED BY <4>1, <4>2, NoteIs
    <3>3. CASE ~Working(w)
      BY <3>1, <3>3 DEF WriterInv, Working, WorkStage, Writing
    <3> QED BY <3>2, <3>3
  <2> QED BY <2>1, <2>2, <2>3 DEF NotesTypeOK
<1> QED BY <1>1, NotesInvariant, PTL

(* Write leaves a complete note at the path whatever step of it fails or is *)
(* the last one of the process, and whatever an earlier Write left in       *)
(* path.tmp, as long as no two Writes of the note overlap.                  *)
THEOREM NotesAreWhole == NotesSpec => []NoteIsWhole
<1>1. NotesInv => NoteIsWhole
  BY DEF NotesInv, FileTypes, OneWrite, NoteIsWhole
<1> QED BY <1>1, NotesInvariant, PTL
-----------------------------------------------------------------------------
(* The lines as the scanner leaves them when none is too long.              *)
Unreturned(ls) == [i \in DOMAIN ls |-> [ls[i] EXCEPT !.cr = FALSE]]

LEMMA UnreturnedIs ==
  ASSUME NEW ls \in Seq(Line)
  PROVE  /\ Unreturned(ls) \in Seq(Line) /\ Len(Unreturned(ls)) = Len(ls)
         /\ \A i \in 1..Len(ls) : /\ Unreturned(ls)[i] \in Line /\ ls[i] \in Line
                                  /\ Unreturned(ls)[i].tok = ls[i].tok /\ Unreturned(ls)[i].cr = FALSE
<1>1. Len(ls) \in Nat /\ DOMAIN ls = 1..Len(ls) /\ \A i \in 1..Len(ls) : ls[i] \in Line
  BY LenProperties
<1>2. \A i \in 1..Len(ls) : /\ [ls[i] EXCEPT !.cr = FALSE] \in Line
                            /\ [ls[i] EXCEPT !.cr = FALSE].tok = ls[i].tok
                            /\ [ls[i] EXCEPT !.cr = FALSE].cr = FALSE
  <2> SUFFICES ASSUME NEW l \in Line
               PROVE  /\ [l EXCEPT !.cr = FALSE] \in Line
                      /\ [l EXCEPT !.cr = FALSE].tok = l.tok
                      /\ [l EXCEPT !.cr = FALSE].cr = FALSE
    BY <1>1
  <2> QED BY DEF Line
<1>3. Unreturned(ls) = [i \in 1..Len(ls) |-> [ls[i] EXCEPT !.cr = FALSE]]
  BY <1>1 DEF Unreturned
<1>4. Unreturned(ls) \in Seq(Line) /\ Len(Unreturned(ls)) = Len(ls)
  BY <1>1, <1>2, <1>3
<1> QED BY <1>1, <1>2, <1>3, <1>4

(* Lines are the same when their tokens and their ends are. *)
LEMMA SameLines ==
  ASSUME NEW s \in Seq(Line), NEW t \in Seq(Line), Len(s) = Len(t),
         \A i \in 1..Len(s) : s[i].tok = t[i].tok /\ s[i].cr = t[i].cr
  PROVE  s = t
<1>1. Len(s) \in Nat /\ \A i \in 1..Len(s) : s[i] \in Line /\ t[i] \in Line
  BY LenProperties
<1>2. \A i \in 1..Len(s) : s[i] = t[i]
  <2> SUFFICES ASSUME NEW l \in Line, NEW m \in Line, l.tok = m.tok, l.cr = m.cr PROVE l = m
    BY <1>1
  <2> QED BY DEF Line
<1> QED BY <1>1, <1>2, SeqEqual

LEMMA ScannedWhole ==
  ASSUME NEW ls \in Seq(Line), \A i \in 1..Len(ls) : ls[i].tok # "long"
  PROVE  Scanned(ls) = Unreturned(ls)
<1>1. /\ Scanned(ls) \in Seq(Line) /\ Len(Scanned(ls)) = Len(ls)
      /\ \A i \in 1..Len(ls) : Scanned(ls)[i].tok = ls[i].tok /\ Scanned(ls)[i].cr = FALSE
  BY ScannedIs DEF Plain
<1>2. /\ Unreturned(ls) \in Seq(Line) /\ Len(Unreturned(ls)) = Len(ls)
      /\ \A i \in 1..Len(ls) : Unreturned(ls)[i].tok = ls[i].tok /\ Unreturned(ls)[i].cr = FALSE
  BY UnreturnedIs
<1>3. \A i \in 1..Len(ls) : /\ Scanned(ls)[i].tok = Unreturned(ls)[i].tok
                            /\ Scanned(ls)[i].cr = Unreturned(ls)[i].cr
  BY <1>1, <1>2
<1> QED BY <1>1, <1>2, <1>3, SameLines

(* What Parse reads back of what Write writes of a note with its keys in    *)
(* some order: the note, the keys in that order, and plain line ends.       *)
LEMMA ReadBack ==
  ASSUME NEW n, IsNote(n), \A i \in 1..Len(n.body.lines) : n.body.lines[i].tok # "long",
         NEW order \in Seq(Key), Elems(order) = DOMAIN n.fm,
         NEW buf, buf.lines = Framed(n, FmLines(n, order))
  PROVE  /\ Parses(buf)
         /\ Parsed(buf) = [pre |-> n.pre, fm |-> n.fm, order |-> order,
                           body |-> [lines |-> Unreturned(n.body.lines), ended |-> TRUE]]
         /\ buf.lines \in Seq(Line) /\ \A i \in 1..Len(buf.lines) : buf.lines[i].tok # "long"
<1> DEFINE pre == n.pre
           body == n.body.lines
           keys == FmLines(n, order)
           lines == Framed(n, keys)
           a == Len(pre)
           b == a + Len(keys) + 2
           ls == Scanned(lines)
<1>1. /\ pre \in Seq(Line) /\ body \in Seq(Line)
      /\ \A i \in 1..Len(pre) : Plain(pre[i]) /\ pre[i].tok # "fence"
      /\ Len(pre) \in Nat /\ Len(body) \in Nat
  BY NoteIs, LenProperties
<1>2. /\ keys \in Seq(Line) /\ Len(keys) = Len(order) /\ Len(order) \in Nat /\ DOMAIN order = 1..Len(order)
      /\ \A i \in 1..Len(order) : /\ keys[i].tok = n.fm[order[i]] /\ keys[i].cr = FALSE
                                  /\ keys[i].tok \in KeyLine /\ KeyOf[keys[i].tok] = order[i]
  <2>1. Len(order) \in Nat /\ DOMAIN order = 1..Len(order)
    BY LenProperties
  <2>2. Elems(order) \subseteq DOMAIN n.fm
    OBVIOUS
  <2>3. /\ keys \in Seq(Line) /\ Len(keys) = Len(order)
        /\ \A i \in 1..Len(order) :
             /\ keys[i].tok = n.fm[order[i]] /\ keys[i].cr = FALSE
             /\ order[i] \in DOMAIN n.fm /\ n.fm[order[i]] \in KeyLine /\ KeyOf[n.fm[order[i]]] = order[i]
    BY <2>2, FmLinesAre
  <2> HIDE DEF keys
  <2> QED BY <2>1, <2>3
<1>3. \A i \in 1..Len(keys) : keys[i].tok # "fence" /\ keys[i].tok # "long"
  BY <1>2, TokenAssumption
<1>4. /\ lines \in Seq(Line)
      /\ Len(lines) = b + Len(body)
      /\ \A i \in 1..a : lines[i] = pre[i]
      /\ lines[a + 1] = AFence[1] /\ lines[b] = AFence[1]
      /\ \A i \in 1..Len(keys) : lines[a + 1 + i] = keys[i]
      /\ \A i \in 1..Len(body) : lines[b + i] = body[i]
  BY <1>1, <1>2, FramedIs
<1>5. AFence[1].tok = "fence" /\ AFence[1].cr = FALSE
  BY FenceIsALine
<1> HIDE DEF pre, body, keys, lines
<1>6. /\ a \in Nat /\ b \in Nat /\ b = a + Len(keys) + 2 /\ Len(keys) \in Nat
  BY <1>1, <1>2
<1> HIDE DEF a, b
<1>7. \A i \in 1..Len(lines) :
        \/ i \in 1..a
        \/ i = a + 1 \/ i = b
        \/ i - (a + 1) \in 1..Len(keys)
        \/ i - b \in 1..Len(body)
  BY <1>1, <1>4, <1>6
<1>8. \A i \in 1..Len(lines) : lines[i].tok # "long" /\ (lines[i].tok = "fence" => i = a + 1 \/ i >= b)
  <2> SUFFICES ASSUME NEW i \in 1..Len(lines)
               PROVE  lines[i].tok # "long" /\ (lines[i].tok = "fence" => i = a + 1 \/ i >= b)
    OBVIOUS
  <2>1. CASE i \in 1..a
    <3>1. i \in 1..Len(pre)
      BY <2>1 DEF a
    <3> QED BY <1>1, <1>4, <2>1, <3>1 DEF Plain
  <2>2. CASE i = a + 1 \/ i = b
    <3>1. lines[i] = AFence[1]
      BY <1>4, <2>2
    <3>2. i = a + 1 \/ i >= b
      BY <1>6, <2>2
    <3> QED BY <1>5, <3>1, <3>2
  <2>3. CASE i - (a + 1) \in 1..Len(keys)
    <3> DEFINE j == i - (a + 1)
    <3>1. lines[a + 1 + j] = keys[j]
      BY <1>4, <2>3
    <3>2. i = a + 1 + j
      BY <1>6
    <3> QED BY <1>3, <2>3, <3>1, <3>2
  <2>4. CASE i - b \in 1..Len(body)
    <3> DEFINE j == i - b
    <3>1. lines[b + j] = body[j]
      BY <1>4, <2>4
    <3>2. i = b + j /\ i >= b
      BY <1>6, <2>4, <1>1
    <3>3. body[j].tok # "long"
      BY <2>4 DEF body
    <3> QED BY <3>1, <3>2, <3>3
  <2> QED BY <1>7, <2>1, <2>2, <2>3, <2>4
<1>9. ls = Unreturned(lines)
  BY <1>4, <1>8, ScannedWhole
<1> HIDE DEF ls
<1>10. /\ ls \in Seq(Line) /\ Len(ls) = b + Len(body) /\ DOMAIN ls = 1..Len(ls)
       /\ \A i \in 1..Len(ls) : ls[i].tok = lines[i].tok /\ ls[i].cr = FALSE
  BY <1>4, <1>9, UnreturnedIs, LenProperties
<1>11. /\ a + 1 \in 1..Len(ls) /\ b \in 1..Len(ls) /\ a + 1 < b
       /\ a + 1 \in Fences(ls) /\ b \in Fences(ls)
       /\ \A i \in Fences(ls) : i = a + 1 \/ i >= b
  <2>1. a + 1 \in 1..Len(ls) /\ b \in 1..Len(ls) /\ a + 1 < b
    BY <1>1, <1>6, <1>10
  <2> QED BY <1>4, <1>5, <1>8, <1>10, <2>1 DEF Fences
<1>12. Cardinality(Fences(ls)) >= 2 /\ Opening(ls) = a + 1 /\ Closing(ls) = b
  BY <1>10, <1>11, FencesAt
<1> DEFINE block == SubSeq(ls, a + 2, b - 1)
<1>13. block = keys
  <2>1. a + 2 \in Nat \ {0} /\ b - 1 \in 0..Len(ls) /\ (b - 1) - (a + 2) + 1 = Len(keys)
    BY <1>1, <1>6, <1>10
  <2>2. block \in Seq(Line) /\ Len(block) = Len(keys) /\ \A i \in 1..Len(keys) : block[i] = ls[(a + 2) + i - 1]
    <3>1. /\ block \in Seq(Line)
          /\ Len(block) = IF a + 2 <= b - 1 THEN (b - 1) - (a + 2) + 1 ELSE 0
          /\ \A i \in 1..((b - 1) - (a + 2) + 1) : block[i] = ls[(a + 2) + i - 1]
      BY <1>10, <2>1, SlicesAreTyped
    <3> QED BY <1>6, <2>1, <3>1
  <2>3. ASSUME NEW i \in 1..Len(keys) PROVE block[i].tok = keys[i].tok /\ block[i].cr = keys[i].cr
    <3>1. (a + 2) + i - 1 = a + 1 + i /\ a + 1 + i \in 1..Len(ls)
      BY <1>1, <1>6, <1>10
    <3>2. block[i] = ls[a + 1 + i]
      BY <2>2, <3>1
    <3>3. ls[a + 1 + i].tok = keys[i].tok /\ ls[a + 1 + i].cr = FALSE
      BY <1>4, <1>10, <3>1
    <3>4. keys[i].cr = FALSE
      BY <1>2
    <3> QED BY <3>2, <3>3, <3>4
  <2> QED BY <1>2, <2>2, <2>3, SameLines
<1>14. SubSeq(ls, 1, a) = pre
  <2>1. /\ SubSeq(ls, 1, a) \in Seq(Line) /\ Len(SubSeq(ls, 1, a)) = a
        /\ \A i \in 1..a : SubSeq(ls, 1, a)[i] = ls[i]
    <3>1. a \in 0..Len(ls)
      BY <1>1, <1>6, <1>10
    <3> QED BY <1>6, <1>10, <3>1, SlicesAreTyped
  <2>2. ASSUME NEW i \in 1..a PROVE SubSeq(ls, 1, a)[i].tok = pre[i].tok /\ SubSeq(ls, 1, a)[i].cr = pre[i].cr
    <3>1. i \in 1..Len(ls) /\ i \in 1..Len(pre)
      BY <1>1, <1>6, <1>10 DEF a
    <3> QED BY <1>1, <1>4, <1>10, <2>1, <3>1 DEF Plain
  <2>3. Len(pre) = a
    BY DEF a
  <2> QED BY <1>1, <2>1, <2>2, <2>3, SameLines
<1>15. SubSeq(ls, b + 1, Len(ls)) = Unreturned(body)
  <2> DEFINE rest == SubSeq(ls, b + 1, Len(ls))
  <2>1. rest \in Seq(Line) /\ Len(rest) = Len(body) /\ \A i \in 1..Len(body) : rest[i] = ls[b + i]
    <3>1. b + 1 \in Nat \ {0} /\ Len(ls) \in 0..Len(ls) /\ Len(ls) - (b + 1) + 1 = Len(body)
      BY <1>1, <1>6, <1>10
    <3>2. /\ rest \in Seq(Line)
          /\ Len(rest) = IF b + 1 <= Len(ls) THEN Len(ls) - (b + 1) + 1 ELSE 0
          /\ \A i \in 1..(Len(ls) - (b + 1) + 1) : rest[i] = ls[(b + 1) + i - 1]
      BY <1>10, <3>1, SlicesAreTyped
    <3>3. \A i \in 1..Len(body) : (b + 1) + i - 1 = b + i
      BY <1>1, <1>6
    <3> QED BY <1>1, <1>6, <1>10, <3>1, <3>2, <3>3
  <2>2. ASSUME NEW i \in 1..Len(body) PROVE rest[i].tok = body[i].tok /\ rest[i].cr = FALSE
    <3>1. b + i \in 1..Len(ls)
      BY <1>1, <1>6, <1>10
    <3> QED BY <1>4, <1>10, <2>1, <3>1
  <2>3. /\ Unreturned(body) \in Seq(Line) /\ Len(Unreturned(body)) = Len(body)
        /\ \A i \in 1..Len(body) : Unreturned(body)[i].tok = body[i].tok /\ Unreturned(body)[i].cr = FALSE
    BY <1>1, UnreturnedIs
  <2> HIDE DEF rest
  <2>4. rest = Unreturned(body)
    <3>1. rest \in Seq(Line) /\ Len(rest) = Len(Unreturned(body))
      BY <2>1, <2>3
    <3>2. \A i \in 1..Len(rest) : rest[i].tok = Unreturned(body)[i].tok /\ rest[i].cr = Unreturned(body)[i].cr
      BY <2>1, <2>2, <2>3
    <3> QED BY <2>3, <3>1, <3>2, SameLines
  <2> QED BY <2>4 DEF rest
<1>16. Decoded(keys) = n.fm
  <2>1. /\ DOMAIN Decoded(keys) = {KeyOf[keys[i].tok] : i \in 1..Len(keys)}
        /\ \A k \in DOMAIN Decoded(keys) :
             \E i \in 1..Len(keys) : KeyOf[keys[i].tok] = k /\ Decoded(keys)[k] = keys[i].tok
    BY <1>2, DecodedIs
  <2>2. DOMAIN Decoded(keys) = DOMAIN n.fm
    BY <1>2, <2>1 DEF Elems
  <2>3. \A k \in DOMAIN n.fm : Decoded(keys)[k] = n.fm[k]
    <3> SUFFICES ASSUME NEW k \in DOMAIN n.fm PROVE Decoded(keys)[k] = n.fm[k]
      OBVIOUS
    <3>1. PICK i \in 1..Len(keys) : KeyOf[keys[i].tok] = k /\ Decoded(keys)[k] = keys[i].tok
      BY <2>1, <2>2
    <3>2. keys[i].tok = n.fm[order[i]] /\ KeyOf[keys[i].tok] = order[i]
      BY <1>2
    <3> QED BY <3>1, <3>2
  <2>4. n.fm = [k \in DOMAIN n.fm |-> n.fm[k]]
    BY DEF IsNote, NoteRecord, Fields
  <2>5. Decoded(keys) = [k \in DOMAIN Decoded(keys) |-> Decoded(keys)[k]]
    BY DEF Decoded
  <2> QED BY <2>2, <2>3, <2>4, <2>5
<1>17. [i \in DOMAIN keys |-> KeyOf[keys[i].tok]] = order
  <2>1. DOMAIN keys = 1..Len(order) /\ order = [i \in 1..Len(order) |-> order[i]]
    BY <1>2, LenProperties
  <2> QED BY <1>2, <2>1
<1>18. Elems(Tokens(block)) \subseteq KeyLine
  <2>1. DOMAIN keys = 1..Len(order)
    BY <1>2, LenProperties
  <2> QED BY <1>2, <1>13, <2>1 DEF Elems, Tokens
<1>19. buf.lines = lines /\ ls = Scanned(buf.lines)
  BY DEF ls, lines, keys
<1>20. HasFrontmatter(buf)
  BY <1>12, <1>19 DEF HasFrontmatter
<1>21. Parses(buf)
  <2>1. \A i \in (a + 2)..(b - 1) : ls[i].tok \in KeyLine
    <3> SUFFICES ASSUME NEW i \in (a + 2)..(b - 1) PROVE ls[i].tok \in KeyLine
      OBVIOUS
    <3> DEFINE j == i - (a + 1)
    <3>1. j \in 1..Len(keys) /\ i = a + 1 + j /\ i \in 1..Len(ls)
      BY <1>1, <1>6, <1>10
    <3>2. ls[i].tok = keys[j].tok
      BY <1>4, <1>10, <3>1
    <3> HIDE DEF j
    <3> QED BY <1>2, <3>1, <3>2
  <2>2. {ls[i].tok : i \in (Opening(ls) + 1)..(Closing(ls) - 1)} \subseteq KeyLine
    <3>1. Opening(ls) + 1 = a + 2
      BY <1>6, <1>12
    <3> QED BY <1>12, <2>1, <3>1
  <2> QED BY <1>19, <2>2 DEF Parses
<1>22. Parsed(buf) = [pre |-> pre, fm |-> n.fm, order |-> order,
                      body |-> [lines |-> Unreturned(body), ended |-> TRUE]]
  <2>1. Opening(ls) + 1 = a + 2 /\ Opening(ls) - 1 = a
    BY <1>6, <1>12
  <2>2. SubSeq(ls, Opening(ls) + 1, Closing(ls) - 1) = block
    BY <1>12, <2>1
  <2>3. (IF Elems(Tokens(block)) \subseteq KeyLine THEN block ELSE Empty) = keys
    BY <1>13, <1>18
  <2> HIDE DEF block
  <2>4. Parsed(buf) = [pre |-> SubSeq(ls, 1, a), fm |-> Decoded(keys),
                       order |-> [i \in DOMAIN keys |-> KeyOf[keys[i].tok]],
                       body |-> [lines |-> SubSeq(ls, b + 1, Len(ls)), ended |-> TRUE]]
    BY <1>12, <1>19, <1>20, <2>1, <2>2, <2>3 DEF Parsed
  <2> QED BY <1>14, <1>15, <1>16, <1>17, <2>4
<1> QED BY <1>4, <1>8, <1>19, <1>21, <1>22 DEF pre, body

(* Around reads off the tokens what Parse finds around the fences.          *)
LEMMA AroundIs ==
  ASSUME NEW ls \in Seq(Line)
  PROVE  Around(Tokens(ls)) =
           IF Cardinality(Fences(ls)) >= 2
           THEN <<Tokens(SubSeq(ls, 1, Opening(ls) - 1)), Tokens(SubSeq(ls, Closing(ls) + 1, Len(ls)))>>
           ELSE <<Empty, Tokens(ls)>>
<1> DEFINE ts == Tokens(ls)
<1>1. Len(ls) \in Nat /\ DOMAIN ls = 1..Len(ls)
  BY LenProperties
<1>2. ts = [i \in 1..Len(ls) |-> ls[i].tok]
  BY <1>1 DEF Tokens
<1>3. DOMAIN ts = 1..Len(ls) /\ \A i \in 1..Len(ls) : ts[i] = ls[i].tok
  BY <1>2
<1>4. Len(ts) = Len(ls) /\ ts \in Seq({ls[i].tok : i \in 1..Len(ls)})
  BY <1>1, <1>2
<1> HIDE DEF ts
<1>5. {i \in DOMAIN ts : ts[i] = "fence"} = Fences(ls)
  BY <1>1, <1>3 DEF Fences
<1>6. Cardinality(Fences(ls)) \in Nat
  BY FencesAreThere
<1>7. CASE Cardinality(Fences(ls)) >= 2
  <2>1. ~(Cardinality(Fences(ls)) < 2)
    BY <1>6, <1>7
  <2> DEFINE a == Opening(ls)
             b == Closing(ls)
  <2>2. Around(ts) = <<SubSeq(ts, 1, a - 1), SubSeq(ts, b + 1, Len(ts))>>
    BY <1>5, <2>1 DEF Around, Opening, Closing
  <2>3. a \in 1..Len(ls) /\ b \in 1..Len(ls)
    BY <1>7, FencesAre
  <2> HIDE DEF a, b
  <2>4. SubSeq(ts, 1, a - 1) = Tokens(SubSeq(ls, 1, a - 1))
    <3>1. a - 1 \in 0..Len(ls)
      BY <1>1, <2>3
    <3> QED BY <1>1, <1>2, <1>4, <3>1 DEF Tokens
  <2>5. SubSeq(ts, b + 1, Len(ts)) = Tokens(SubSeq(ls, b + 1, Len(ls)))
    BY <1>1, <1>2, <1>4, <2>3 DEF Tokens
  <2> QED BY <1>7, <2>2, <2>4, <2>5 DEF ts, a, b
<1>8. CASE ~(Cardinality(Fences(ls)) >= 2)
  <2>1. Cardinality(Fences(ls)) < 2
    BY <1>6, <1>8
  <2>2. Around(ts) = <<Empty, ts>>
    BY <1>5, <2>1 DEF Around
  <2> QED BY <1>8, <2>2 DEF ts
<1> QED BY <1>7, <1>8

LEMMA AroundIsRead ==
  ASSUME NEW doc, doc.lines \in Seq(Line), \A i \in 1..Len(doc.lines) : doc.lines[i].tok # "long"
  PROVE  Around(Tokens(doc.lines)) = <<Tokens(Parsed(doc).pre), Tokens(Parsed(doc).body.lines)>>
<1> DEFINE ls == Scanned(doc.lines)
<1>1. ls \in Seq(Line) /\ Tokens(ls) = Tokens(doc.lines)
  <2>1. ls = Unreturned(doc.lines)
    BY ScannedWhole
  <2>2. /\ ls \in Seq(Line) /\ Len(ls) = Len(doc.lines)
        /\ \A i \in 1..Len(doc.lines) : ls[i].tok = doc.lines[i].tok
    BY <2>1, UnreturnedIs
  <2>3. DOMAIN ls = 1..Len(doc.lines) /\ DOMAIN doc.lines = 1..Len(doc.lines)
    BY <2>2, LenProperties
  <2> HIDE DEF ls
  <2> QED BY <2>2, <2>3 DEF Tokens
<1>2. CASE HasFrontmatter(doc)
  <2>1. Cardinality(Fences(ls)) >= 2
    BY <1>2 DEF HasFrontmatter
  <2>2. /\ Parsed(doc).pre = SubSeq(ls, 1, Opening(ls) - 1)
        /\ Parsed(doc).body.lines = SubSeq(ls, Closing(ls) + 1, Len(ls))
    BY <1>2 DEF Parsed
  <2> QED BY <1>1, <2>1, <2>2, AroundIs
<1>3. CASE ~HasFrontmatter(doc)
  <2>1. ~(Cardinality(Fences(ls)) >= 2)
    BY <1>3 DEF HasFrontmatter
  <2>2. Parsed(doc).pre = Empty /\ Parsed(doc).body.lines = doc.lines
    BY <1>3 DEF Parsed
  <2>3. Around(Tokens(ls)) = <<Empty, Tokens(ls)>>
    BY <1>1, <2>1, AroundIs
  <2>4. Tokens(Empty) = Empty
    BY DEF Tokens, Empty
  <2> QED BY <1>1, <2>2, <2>3, <2>4
<1> QED BY <1>2, <1>3

(* Parse keeps the tokens: a short document has a short body.               *)
LEMMA ShortBody ==
  ASSUME NEW doc \in Document, Short(doc)
  PROVE  /\ doc.lines \in Seq(Line) /\ \A i \in 1..Len(doc.lines) : doc.lines[i].tok # "long"
         /\ \A i \in 1..Len(Parsed(doc).body.lines) : Parsed(doc).body.lines[i].tok # "long"
         /\ HasFrontmatter(doc) =>
              /\ Parsed(doc).body.ended
              /\ \A i \in 1..Len(Parsed(doc).body.lines) : Parsed(doc).body.lines[i].cr = FALSE
<1>1. doc.lines \in Seq(Line)
  BY DEF Document
<1>2. \A i \in 1..Len(doc.lines) : doc.lines[i].tok # "long"
  <2>1. DOMAIN doc.lines = 1..Len(doc.lines)
    BY <1>1, LenProperties
  <2>2. \A i \in DOMAIN doc.lines : Tokens(doc.lines)[i] = doc.lines[i].tok /\ i \in DOMAIN Tokens(doc.lines)
    BY DEF Tokens
  <2> QED BY <2>1, <2>2 DEF Short, Elems
<1> DEFINE ls == Scanned(doc.lines)
<1>3. CASE HasFrontmatter(doc)
  <2>1. /\ ls \in Seq(Line) /\ Len(ls) \in Nat
        /\ \A i \in 1..Len(ls) : ls[i].tok # "long" /\ ls[i].cr = FALSE
    BY <1>1, ScannedIs, LenProperties DEF Plain
  <2>2. /\ Parsed(doc).body.lines = SubSeq(ls, Closing(ls) + 1, Len(ls))
        /\ Parsed(doc).body.ended = TRUE
    BY <1>3 DEF Parsed
  <2>3. Closing(ls) \in 1..Len(ls)
    BY <1>3, <2>1, FencesAre DEF HasFrontmatter
  <2> DEFINE b == Closing(ls)
             rest == SubSeq(ls, b + 1, Len(ls))
  <2> HIDE DEF ls, b
  <2>4. b + 1 \in Nat \ {0} /\ Len(ls) \in 0..Len(ls) /\ b \in 1..Len(ls)
    BY <2>1, <2>3 DEF b
  <2>5. Len(rest) = Len(ls) - b /\ \A i \in 1..(Len(ls) - b) : rest[i] = ls[b + i]
    <3>1. /\ Len(rest) = IF b + 1 <= Len(ls) THEN Len(ls) - (b + 1) + 1 ELSE 0
          /\ \A i \in 1..(Len(ls) - (b + 1) + 1) : rest[i] = ls[(b + 1) + i - 1]
      BY <2>1, <2>4, SlicesAreTyped
    <3>2. \A i \in 1..(Len(ls) - b) : (b + 1) + i - 1 = b + i
      BY <2>1, <2>4
    <3> QED BY <2>1, <2>4, <3>1, <3>2
  <2>6. \A i \in 1..Len(rest) : b + i \in 1..Len(ls) /\ rest[i] = ls[b + i]
    BY <2>1, <2>4, <2>5
  <2> HIDE DEF rest
  <2>7. \A i \in 1..Len(rest) : rest[i].tok # "long" /\ rest[i].cr = FALSE
    BY <2>1, <2>6
  <2>8. Parsed(doc).body.lines = rest /\ Parsed(doc).body.ended = TRUE
    BY <2>2 DEF rest, b
  <2> QED BY <1>1, <1>2, <2>7, <2>8
<1>4. CASE ~HasFrontmatter(doc)
  <2>1. Parsed(doc).body = doc
    BY <1>4 DEF Parsed
  <2> QED BY <1>1, <1>2, <1>4, <2>1
<1> QED BY <1>3, <1>4

(* What a writer is writing, and what is read back of it.                   *)
LEMMA WritingIs ==
  ASSUME NotesInv, NEW w \in Writer, Writing(w), Short(writer[w].from)
  PROVE  LET n == writer[w].note
             buf == writer[w].buf
         IN  /\ IsNote(n) /\ NoteIsRead(w) /\ buf.ended \in BOOLEAN
             /\ \A i \in 1..Len(n.body.lines) : n.body.lines[i].tok # "long"
             /\ \E order \in KeyOrders(n) :
                  /\ order \in Seq(Key) /\ Elems(order) = DOMAIN n.fm
                  /\ buf.lines = Framed(n, FmLines(n, order))
                  /\ buf.ended = (n.body.lines = <<>> \/ n.body.ended)
                  /\ buf = [lines |-> buf.lines, ended |-> buf.ended]
                  /\ Parses(buf)
                  /\ Parsed(buf) = [pre |-> n.pre, fm |-> n.fm, order |-> order,
                                    body |-> [lines |-> Unreturned(n.body.lines), ended |-> TRUE]]
                  /\ buf.lines \in Seq(Line) /\ \A i \in 1..Len(buf.lines) : buf.lines[i].tok # "long"
<1> DEFINE n == writer[w].note
           buf == writer[w].buf
<1>1. Working(w) /\ WriterInv(w)
  BY DEF Writing, Working, WorkStage, NotesInv
<1>2. NoteIsRead(w) /\ buf \in Marshalled(n)
  BY <1>1 DEF WriterInv
<1>3. IsNote(n) /\ n.body = Parsed(writer[w].from).body /\ writer[w].from \in Document
  BY <1>2 DEF NoteIsRead
<1>4. \A i \in 1..Len(n.body.lines) : n.body.lines[i].tok # "long"
  BY <1>3, ShortBody
<1> HIDE DEF n, buf
<1>5. buf \in Document
  BY <1>2, <1>3, MarshalledIs
<1>6. PICK order \in KeyOrders(n) :
        /\ order \in Seq(Key) /\ Elems(order) = DOMAIN n.fm
        /\ buf = [lines |-> Framed(n, FmLines(n, order)), ended |-> n.body.lines = <<>> \/ n.body.ended]
  BY <1>2, <1>3, MarshalledIs
<1>7. /\ buf.lines = Framed(n, FmLines(n, order))
      /\ buf.ended = (n.body.lines = <<>> \/ n.body.ended)
      /\ buf = [lines |-> buf.lines, ended |-> buf.ended]
  BY <1>6
<1>8. buf.ended \in BOOLEAN
  BY <1>5 DEF Document
<1>9. /\ Parses(buf)
      /\ Parsed(buf) = [pre |-> n.pre, fm |-> n.fm, order |-> order,
                        body |-> [lines |-> Unreturned(n.body.lines), ended |-> TRUE]]
      /\ buf.lines \in Seq(Line) /\ \A i \in 1..Len(buf.lines) : buf.lines[i].tok # "long"
  BY <1>3, <1>4, <1>6, <1>7, ReadBack
<1> QED BY <1>2, <1>3, <1>4, <1>6, <1>7, <1>8, <1>9 DEF n, buf

(* Parse reads back from what marshal wrote the keys, the values and the    *)
(* lines around the front matter, for every document without an over-long   *)
(* line, whatever fences and repeated keys it has.                          *)
THEOREM WritingIsReadBack == NotesSpec => []WrittenIsReadBack
<1>1. NotesInv => WrittenIsReadBack
  <2> SUFFICES ASSUME NotesInv, NEW w \in Writer, Writing(w), Short(writer[w].from)
               PROVE  /\ Parses(writer[w].buf)
                      /\ Parsed(writer[w].buf).fm = writer[w].note.fm
                      /\ Around(Tokens(writer[w].buf.lines)) = Around(Tokens(writer[w].from.lines))
    BY DEF WrittenIsReadBack
  <2> DEFINE n == writer[w].note
             buf == writer[w].buf
             from == writer[w].from
  <2>1. PICK order \in KeyOrders(n) :
          /\ Parses(buf)
          /\ Parsed(buf) = [pre |-> n.pre, fm |-> n.fm, order |-> order,
                            body |-> [lines |-> Unreturned(n.body.lines), ended |-> TRUE]]
          /\ buf.lines \in Seq(Line) /\ \A i \in 1..Len(buf.lines) : buf.lines[i].tok # "long"
    BY WritingIs
  <2>2. IsNote(n) /\ NoteIsRead(w)
    BY WritingIs
  <2>3. from \in Document /\ n.pre = Parsed(from).pre /\ n.body = Parsed(from).body
    BY <2>2 DEF NoteIsRead
  <2> HIDE DEF n, buf, from
  <2>4. Around(Tokens(from.lines)) = <<Tokens(n.pre), Tokens(n.body.lines)>>
    <3>1. from.lines \in Seq(Line) /\ \A i \in 1..Len(from.lines) : from.lines[i].tok # "long"
      BY <2>3, ShortBody DEF from
    <3> QED BY <2>3, <3>1, AroundIsRead
  <2>5. Around(Tokens(buf.lines)) = <<Tokens(n.pre), Tokens(Unreturned(n.body.lines))>>
    <3>1. Around(Tokens(buf.lines)) = <<Tokens(Parsed(buf).pre), Tokens(Parsed(buf).body.lines)>>
      BY <2>1, AroundIsRead
    <3>2. Parsed(buf).pre = n.pre /\ Parsed(buf).body.lines = Unreturned(n.body.lines)
      BY <2>1
    <3> QED BY <3>1, <3>2
  <2>6. Tokens(Unreturned(n.body.lines)) = Tokens(n.body.lines)
    <3> DEFINE body == n.body.lines
    <3>1. body \in Seq(Line)
      BY <2>2, NoteIs
    <3> HIDE DEF body
    <3>2. /\ Unreturned(body) \in Seq(Line) /\ Len(Unreturned(body)) = Len(body)
          /\ \A i \in 1..Len(body) : Unreturned(body)[i].tok = body[i].tok
      BY <3>1, UnreturnedIs
    <3>3. DOMAIN Unreturned(body) = 1..Len(body) /\ DOMAIN body = 1..Len(body)
      BY <3>1, <3>2, LenProperties
    <3>4. Tokens(Unreturned(body)) = Tokens(body)
      BY <3>2, <3>3 DEF Tokens
    <3> QED BY <3>4 DEF body
  <2>7. Parsed(buf).fm = n.fm
    BY <2>1
  <2> QED BY <2>1, <2>4, <2>5, <2>6, <2>7 DEF n, buf, from
<1> QED BY <1>1, NotesInvariant, PTL

(* The body of a note that had front matter, or plain line ends, has plain  *)
(* line ends.                                                               *)
LEMMA BodyIsPlain ==
  ASSUME NEW n, IsNote(n), NEW from \in Document, Short(from), PlainBody(from),
         n.body = Parsed(from).body
  PROVE  Unreturned(n.body.lines) = n.body.lines /\ n.body.ended = TRUE
<1> DEFINE body == n.body.lines
<1>1. body \in Seq(Line)
  BY NoteIs
<1>2. n.body.ended = TRUE /\ \A i \in 1..Len(body) : body[i].cr = FALSE
  <2>1. CASE HasFrontmatter(from)
    <3>1. n.body.ended = TRUE
      BY <2>1 DEF Parsed
    <3> QED BY <2>1, <3>1, ShortBody
  <2>2. CASE ~HasFrontmatter(from) /\ from = Normal(from)
    <3>1. n.body = from
      BY <2>2 DEF Parsed
    <3>2. from.lines = Unreturned(from.lines) /\ from.ended = TRUE
      <4>1. Normal(from).lines = Unreturned(from.lines) /\ Normal(from).ended = TRUE
        BY DEF Normal, Unreturned
      <4> QED BY <2>2, <4>1
    <3>3. from.lines \in Seq(Line)
      BY DEF Document
    <3>4. \A i \in 1..Len(from.lines) : Unreturned(from.lines)[i].cr = FALSE
      BY <3>3, UnreturnedIs
    <3> QED BY <3>1, <3>2, <3>4
  <2> QED BY <2>1, <2>2 DEF PlainBody
<1> HIDE DEF body
<1>3. /\ Unreturned(body) \in Seq(Line) /\ Len(Unreturned(body)) = Len(body)
      /\ \A i \in 1..Len(body) : Unreturned(body)[i].tok = body[i].tok /\ Unreturned(body)[i].cr = body[i].cr
  BY <1>1, <1>2, UnreturnedIs
<1>4. Unreturned(body) = body
  BY <1>1, <1>3, SameLines
<1> QED BY <1>2, <1>4 DEF body

(* ContentHash looks at the keys but the suggestions, and at the body.      *)
LEMMA SameHash ==
  ASSUME NEW p, NEW q, p.body.lines = q.body.lines, p.body.ended = q.body.ended,
         Hashed(p) = Hashed(q), \A k \in Hashed(q) : p.fm[k] = q.fm[k]
  PROVE  ContentHash(p) = ContentHash(q)
<1> DEFINE keys == Only(Alphabet, Hashed(q))
<1>1. keys \in Seq(Key) /\ Elems(keys) = Elems(Alphabet) \cap Hashed(q)
  BY AlphabetAssumption, OnlyKeeps
<1>2. \A i \in DOMAIN keys : keys[i] \in Hashed(q)
  BY <1>1 DEF Elems
<1>3. [i \in DOMAIN keys |-> [tok |-> p.fm[keys[i]], cr |-> FALSE]]
        = [i \in DOMAIN keys |-> [tok |-> q.fm[keys[i]], cr |-> FALSE]]
  <2> HIDE DEF keys
  <2> QED BY <1>2
<1>4. Only(Alphabet, Hashed(p)) = keys
  OBVIOUS
<1> HIDE DEF keys
<1>5. ContentHash(p) = [lines |-> [i \in DOMAIN keys |-> [tok |-> p.fm[keys[i]], cr |-> FALSE]] \o p.body.lines,
                        ended |-> p.body.ended]
  BY <1>4 DEF ContentHash
<1>6. ContentHash(q) = [lines |-> [i \in DOMAIN keys |-> [tok |-> q.fm[keys[i]], cr |-> FALSE]] \o q.body.lines,
                        ended |-> q.body.ended]
  BY DEF ContentHash, keys
<1> QED BY <1>3, <1>5, <1>6

(* ContentHash does not see an annotation: a note of any content that only  *)
(* got suggestions hashes to what it hashed to before.                      *)
THEOREM HashIsKept == NotesSpec => []HashSurvivesSuggestions
<1>1. NotesInv => HashSurvivesSuggestions
  <2> SUFFICES ASSUME NotesInv, NEW w \in Writer, Writing(w), Short(writer[w].from), OnlySuggested(w),
                      PlainBody(writer[w].from)
               PROVE  ContentHash(Parsed(writer[w].buf)) = ContentHash(Parsed(writer[w].from))
    BY DEF HashSurvivesSuggestions
  <2> DEFINE n == writer[w].note
             from == writer[w].from
             p == Parsed(writer[w].buf)
             q == Parsed(from)
  <2>1. p.fm = n.fm /\ p.body.lines = Unreturned(n.body.lines) /\ p.body.ended = TRUE
    <3>1. PICK order \in KeyOrders(n) :
            p = [pre |-> n.pre, fm |-> n.fm, order |-> order,
                 body |-> [lines |-> Unreturned(n.body.lines), ended |-> TRUE]]
      BY WritingIs
    <3> HIDE DEF p, n
    <3> QED BY <3>1
  <2>2. IsNote(n) /\ NoteIsRead(w)
    BY WritingIs
  <2>3. from \in Document /\ n.body = q.body /\ DOMAIN q.fm \subseteq DOMAIN n.fm
    BY <2>2 DEF NoteIsRead
  <2>4. \A k \in DOMAIN n.fm \ {AIKey} : k \in DOMAIN q.fm /\ q.fm[k] = n.fm[k]
    BY DEF OnlySuggested
  <2>5. Hashed(p) = Hashed(q) /\ \A k \in Hashed(q) : p.fm[k] = q.fm[k]
    <3> HIDE DEF n, p, q
    <3> QED BY <2>1, <2>3, <2>4 DEF Hashed
  <2>8. Unreturned(q.body.lines) = q.body.lines /\ q.body.ended = TRUE
    BY <2>2, <2>3, BodyIsPlain
  <2> HIDE DEF q, p
  <2>9. p.body.lines = q.body.lines /\ p.body.ended = q.body.ended
    BY <2>1, <2>3, <2>8
  <2>10. ContentHash(p) = ContentHash(q)
    BY <2>5, <2>9, SameHash
  <2> QED BY <2>10 DEF p, q, from
<1> QED BY <1>1, NotesInvariant, PTL
-----------------------------------------------------------------------------
(* The order of the keys that were written is the only one they may be      *)
(* written in again.                                                        *)
LEMMA OrderIsKept ==
  ASSUME NEW n, IsNote(n), NEW order \in KeyOrders(n),
         NEW m, m.order = order, DOMAIN m.fm = DOMAIN n.fm
  PROVE  KeyOrders(m) = {order}
<1> DEFINE rest == DOMAIN n.fm \ (Elems(n.order) \cup {AIKey})
           last == IF AIKey \in DOMAIN n.fm THEN <<AIKey>> ELSE <<>>
<1>1. PICK s \in AnyOrder(rest) : order = (Leading(n) \o s) \o last
  BY DEF KeyOrders
<1> DEFINE front == Leading(n) \o s
<1>2. n.order \in Seq(Key) /\ DOMAIN n.fm \subseteq Key
  BY NoteIs
<1>3. Leading(n) \in Seq(Key) /\ Elems(Leading(n)) = Elems(n.order) \cap (Key \ {AIKey})
  BY <1>2, OnlyKeeps DEF Leading
<1>4. s \in Seq(Key) /\ Elems(s) = rest
  <2>1. rest \in SUBSET Key
    BY <1>2
  <2> HIDE DEF rest
  <2> QED BY <2>1, AnyOrderIs
<1>5. front \in Seq(Key) /\ Elems(front) \subseteq Key \ {AIKey}
  <2>1. front \in Seq(Key) /\ Elems(front) = Elems(Leading(n)) \cup Elems(s)
    BY <1>3, <1>4, JoinedElems
  <2>2. rest \subseteq Key \ {AIKey}
    BY <1>2
  <2> QED BY <1>3, <1>4, <2>1, <2>2
<1> HIDE DEF front, rest
<1>6. last \in Seq(Key) /\ \A i \in 1..Len(last) : last[i] = AIKey
  <2>1. CASE AIKey \in DOMAIN n.fm
    BY <1>2, <2>1
  <2>2. CASE AIKey \notin DOMAIN n.fm
    BY <2>2
  <2> QED BY <2>1, <2>2
<1>7. last = IF AIKey \in DOMAIN m.fm THEN <<AIKey>> ELSE <<>>
  OBVIOUS
<1> HIDE DEF last
<1>8. /\ order = front \o last /\ order \in Seq(Key) /\ Len(order) = Len(front) + Len(last)
      /\ Len(front) \in Nat /\ Len(last) \in Nat
      /\ \A i \in 1..Len(front) : order[i] = front[i]
      /\ \A i \in 1..Len(last) : order[Len(front) + i] = last[i]
  BY <1>1, <1>5, <1>6, JoinedPlaces DEF front
<1>9. \A i \in 1..Len(front) : order[i] \in Key \ {AIKey}
  <2>1. DOMAIN front = 1..Len(front)
    BY <1>5, LenProperties
  <2> QED BY <1>5, <1>8, <2>1 DEF Elems
<1>10. \A i \in (Len(front) + 1)..Len(order) : order[i] \notin Key \ {AIKey}
  <2> SUFFICES ASSUME NEW i \in (Len(front) + 1)..Len(order) PROVE order[i] = AIKey
    OBVIOUS
  <2> DEFINE j == i - Len(front)
  <2>1. j \in 1..Len(last) /\ i = Len(front) + j
    BY <1>8
  <2> HIDE DEF j
  <2> QED BY <1>6, <1>8, <2>1
<1>11. Leading(m) = front
  <2>1. Len(front) \in 0..Len(order)
    BY <1>8
  <2>2. Leading(m) = SubSeq(order, 1, Len(front))
    BY <1>8, <1>9, <1>10, <2>1, OnlyPrefix DEF Leading
  <2>3. /\ SubSeq(order, 1, Len(front)) \in Seq(Key)
        /\ Len(SubSeq(order, 1, Len(front))) = IF 1 <= Len(front) THEN Len(front) - 1 + 1 ELSE 0
        /\ \A i \in 1..(Len(front) - 1 + 1) : SubSeq(order, 1, Len(front))[i] = order[1 + i - 1]
    BY <1>8, <2>1, SlicesAreTyped
  <2>4. /\ Len(SubSeq(order, 1, Len(front))) = Len(front)
        /\ \A i \in 1..Len(front) : SubSeq(order, 1, Len(front))[i] = front[i]
    BY <1>8, <2>3
  <2> QED BY <1>5, <2>2, <2>3, <2>4, SeqEqual
<1>12. DOMAIN m.fm \ (Elems(m.order) \cup {AIKey}) = {}
  BY OrderIs
<1>13. AnyOrder({}) = {<<>>}
  <2>1. Cardinality({}) = 0 /\ 1..0 = {}
    BY FS_EmptySet
  <2>2. AnyOrder({}) = {t \in [{} -> {}] : Elems(t) = {}}
    BY <2>1 DEF AnyOrder
  <2>3. \A t \in [{} -> {}] : t = <<>> /\ Elems(t) = {}
    BY DEF Elems
  <2>4. <<>> \in [{} -> {}]
    OBVIOUS
  <2> QED BY <2>2, <2>3, <2>4
<1>14. front \o <<>> = front
  BY <1>5, ConcatEmptySeq
<1>15. KeyOrders(m) = {(Leading(m) \o <<>>) \o last}
  <2> DEFINE ai == IF AIKey \in DOMAIN m.fm THEN <<AIKey>> ELSE <<>>
             others == AnyOrder(DOMAIN m.fm \ (Elems(m.order) \cup {AIKey}))
  <2>1. KeyOrders(m) = {(Leading(m) \o t) \o ai : t \in others}
    BY DEF KeyOrders
  <2>2. others = {<<>>} /\ ai = last
    BY <1>7, <1>12, <1>13
  <2> HIDE DEF others, ai
  <2> QED BY <2>1, <2>2
<1> QED BY <1>8, <1>11, <1>14, <1>15

(* What marshal writes of a note that it wrote before is the same byte for  *)
(* byte: the order in which Go walks the map of keys no longer matters, and *)
(* the body keeps its line ends.                                            *)
THEOREM WritingIsStable == NotesSpec => []SecondWriteIsStable
<1>1. NotesInv => SecondWriteIsStable
  <2> SUFFICES ASSUME NotesInv, NEW w \in Writer, Writing(w), Short(writer[w].from),
                      PlainBody(writer[w].from)
               PROVE  Marshalled(Parsed(writer[w].buf)) = {writer[w].buf}
    BY DEF SecondWriteIsStable
  <2> DEFINE n == writer[w].note
             buf == writer[w].buf
             m == Parsed(buf)
  <2>0. IsNote(n) /\ NoteIsRead(w)
    BY WritingIs
  <2>1. PICK order \in KeyOrders(n) :
          /\ buf.lines = Framed(n, FmLines(n, order))
          /\ buf.ended = (n.body.lines = <<>> \/ n.body.ended)
          /\ buf = [lines |-> buf.lines, ended |-> buf.ended]
          /\ m = [pre |-> n.pre, fm |-> n.fm, order |-> order,
                  body |-> [lines |-> Unreturned(n.body.lines), ended |-> TRUE]]
    BY WritingIs
  <2>2. Unreturned(n.body.lines) = n.body.lines /\ n.body.ended = TRUE
    BY <2>0, BodyIsPlain DEF NoteIsRead
  <2> HIDE DEF m, n, buf
  <2>3. /\ m.pre = n.pre /\ m.fm = n.fm /\ m.order = order
        /\ m.body.lines = n.body.lines /\ m.body.ended = TRUE
    BY <2>1, <2>2
  <2>4. KeyOrders(m) = {order}
    BY <2>0, <2>3, OrderIsKept
  <2> DEFINE keys == FmLines(n, order)
  <2>5. FmLines(m, order) = keys
    BY <2>3 DEF FmLines
  <2>6. Marshalled(m) = {[lines |-> Framed(m, keys), ended |-> TRUE]}
    <3>1. (m.body.lines = <<>> \/ m.body.ended) = TRUE
      BY <2>3
    <3>2. Marshalled(m) = {[lines |-> Framed(m, FmLines(m, o)),
                            ended |-> m.body.lines = <<>> \/ m.body.ended] : o \in {order}}
      BY <2>4 DEF Marshalled, FmLines
    <3> HIDE DEF keys
    <3> QED BY <2>5, <3>1, <3>2
  <2>7. Framed(m, keys) = buf.lines
    BY <2>1, <2>3 DEF Framed
  <2>8. buf = [lines |-> buf.lines, ended |-> TRUE]
    <3>1. buf.ended = TRUE
      BY <2>1, <2>2
    <3> QED BY <2>1, <3>1
  <2>9. Marshalled(m) = {buf}
    BY <2>6, <2>7, <2>8
  <2> QED BY <2>9 DEF m, buf
<1> QED BY <1>1, NotesInvariant, PTL
-----------------------------------------------------------------------------
(***************************************************************************)
(* Backlinks.                                                              *)
(***************************************************************************)
(***************************************************************************)
(* Any vault, and any walk of its maps.                                    *)
(***************************************************************************)
Vault == [Note -> [title : Name \cup {NoName}, aliases : SUBSET Name, links : Seq(Link)]]

BacklinksSpec == BacklinksInit(Vault) /\ [][BacklinksNext]_backlinkVars

LEMMA LinksAreFinite == ASSUME entries \in Vault PROVE IsFiniteSet(Places)
<1> DEFINE Of(s) == {<<s, i>> : i \in DOMAIN entries[s].links}
           family == {Of(s) : s \in Note}
<1>1. ASSUME NEW s \in Note PROVE IsFiniteSet(Of(s))
  <2>1. entries[s].links \in Seq(Link)
    BY DEF Vault
  <2>2. Len(entries[s].links) \in Nat /\ DOMAIN entries[s].links = 1..Len(entries[s].links)
    BY <2>1, LenProperties
  <2> DEFINE places == 1..Len(entries[s].links)
             f == [i \in places |-> <<s, i>>]
  <2>3. IsFiniteSet(places)
    BY <2>2, FS_Interval
  <2>4. f \in Surjection(places, Of(s))
    BY <2>2 DEF Surjection
  <2> HIDE DEF places, f
  <2> QED BY <2>3, <2>4, FS_Surjection
<1> HIDE DEF Of
<1>2. IsFiniteSet(family)
  <2> DEFINE f == [s \in Note |-> Of(s)]
  <2>1. f \in Surjection(Note, family)
    BY DEF Surjection
  <2> HIDE DEF f, family
  <2> QED BY <2>1, NoteAssumption, FS_Surjection
<1>3. \A T \in family : IsFiniteSet(T)
  BY <1>1
<1> HIDE DEF family
<1>4. IsFiniteSet(UNION family)
  BY <1>2, <1>3, FS_UNION
<1> QED BY <1>4 DEF Places, family, Of

BacklinkTypes ==
  /\ entries \in Vault
  /\ begun \in BOOLEAN
  /\ unregistered \subseteq Note
  /\ target \in [Link -> Note \cup {NoName}]
  /\ unfollowed \subseteq Places
  /\ count \in [Note -> Nat]

(* The map leads to entries that have the name, and to some entry for every *)
(* name of an entry that the walk has come by.                              *)
MapInv ==
  /\ \A l \in Link : target[l] # NoName => l \in Keys(target[l])
  /\ \A e \in Note \ unregistered : \A l \in Keys(e) : target[l] # NoName

(* The counts are right of the links that were followed so far.             *)
CountsSoFar ==
  begun => \A e \in Note :
    count[e] \in Cardinality(Clear(e) \ unfollowed)..Cardinality(Possible(e) \ unfollowed)

BacklinksInv ==
  /\ BacklinkTypes /\ MapInv /\ CountsSoFar
  /\ ~begun => unregistered = Note /\ unfollowed = Places

LEMMA BacklinksStart == BacklinksInit(Vault) => BacklinksInv
<1> SUFFICES ASSUME BacklinksInit(Vault) PROVE BacklinksInv
  OBVIOUS
<1>1. BacklinkTypes
  <2>1. count \in [Note -> Nat]
    BY DEF BacklinksInit
  <2> QED BY <2>1 DEF BacklinksInit, BacklinkTypes
<1>2. MapInv
  BY DEF BacklinksInit, MapInv
<1> QED BY <1>1, <1>2 DEF BacklinksInit, BacklinksInv, CountsSoFar

(* The entries say what their links can mean. *)
LEMMA MeaningStays ==
  ASSUME UNCHANGED entries
  PROVE  /\ Places' = Places
         /\ \A e \in Note : Keys(e)' = Keys(e) /\ Clear(e)' = Clear(e) /\ Possible(e)' = Possible(e)
<1>1. ASSUME NEW e \in Note PROVE Clear(e)' = Clear(e) /\ Possible(e)' = Possible(e)
  BY DEF Clear, Possible, Places, LinkAt, Means, Keys, Resembles
<1> QED BY <1>1 DEF Places, Keys

LEMMA ResetKeeps == ASSUME BacklinksInv, Reset PROVE BacklinksInv'
<1>1. /\ ~begun /\ begun' = TRUE /\ count' = [n \in Note |-> 0]
      /\ UNCHANGED <<entries, unregistered, target, unfollowed>>
  BY DEF Reset, Zero
<1>2. BacklinkTypes' /\ MapInv'
  BY <1>1 DEF BacklinksInv, BacklinkTypes, MapInv, Places, Keys
<1>3. CountsSoFar'
  <2>1. unfollowed = Places
    BY <1>1 DEF BacklinksInv
  <2>2. \A e \in Note : (Clear(e) \ unfollowed)' = {} /\ (Possible(e) \ unfollowed)' = {}
    BY <1>1, <2>1 DEF Clear, Possible, Places
  <2>3. Cardinality({}) = 0 /\ 0 \in 0..0
    BY FS_EmptySet
  <2> QED BY <1>1, <2>2, <2>3 DEF CountsSoFar
<1> QED BY <1>1, <1>2, <1>3 DEF BacklinksInv

LEMMA RegisterKeeps == ASSUME BacklinksInv, NEW e \in Note, Register(e) PROVE BacklinksInv'
<1>1. /\ begun /\ unregistered' = unregistered \ {e}
      /\ target' = [l \in Link |-> IF l \in Keys(e) THEN e ELSE target[l]]
      /\ UNCHANGED <<entries, begun, unfollowed, count>>
  BY DEF Register
<1>2. /\ entries \in Vault /\ target \in [Link -> Note \cup {NoName}]
      /\ \A l \in Link : target[l] # NoName => l \in Keys(target[l])
      /\ \A n \in Note \ unregistered : \A l \in Keys(n) : target[l] # NoName
  BY DEF BacklinksInv, BacklinkTypes, MapInv
<1>3. BacklinkTypes'
  BY <1>1, <1>2 DEF BacklinksInv, BacklinkTypes, Places
<1>4. \A n : Keys(n)' = Keys(n)
  BY <1>1 DEF Keys
<1>5. \A n \in Note : Keys(n) \subseteq Link
  BY <1>2 DEF Vault, Keys, Link
<1>6. e # NoName
  BY NoNameAssumption
<1>7. MapInv'
  <2>1. \A l \in Link : target'[l] # NoName => l \in Keys(target'[l])
    BY <1>1, <1>2
  <2>2. \A n \in Note \ unregistered' : \A l \in Keys(n) : target'[l] # NoName
    BY <1>1, <1>2, <1>5, <1>6
  <2> QED BY <1>1, <1>4, <2>1, <2>2 DEF MapInv
<1>8. CountsSoFar'
  BY <1>1, MeaningStays DEF BacklinksInv, CountsSoFar
<1> QED BY <1>1, <1>3, <1>7, <1>8 DEF BacklinksInv

LEMMA PlacesAreLinks ==
  ASSUME entries \in Vault, NEW x \in Places PROVE x[1] \in Note /\ LinkAt(x) \in Link
<1>1. PICK n \in Note : x \in {<<n, i>> : i \in DOMAIN entries[n].links}
  BY DEF Places
<1>2. PICK i \in DOMAIN entries[n].links : x = <<n, i>>
  BY <1>1
<1>3. x[1] = n /\ LinkAt(x) = entries[n].links[i]
  BY <1>2 DEF LinkAt
<1>4. entries[n].links \in Seq(Link)
  BY DEF Vault
<1>5. entries[n].links[i] \in Link
  BY <1>2, <1>4, LenProperties
<1> QED BY <1>2, <1>3, <1>5

(* A link is counted for a note it can mean, and for the one it means when  *)
(* there is only one.                                                       *)
LEMMA CreditedIsMeant ==
  ASSUME BacklinksInv, unregistered = {}, NEW x \in Places, NEW C \in Credited(x[1], LinkAt(x)), NEW e \in Note
  PROVE  /\ e \in C => x \in Possible(e)
         /\ x \in Clear(e) => e \in C
<1> DEFINE s == x[1]
           l == LinkAt(x)
           similar == {n \in Note \ {s} : Resembles(l, n)}
<1>1. /\ entries \in Vault /\ target \in [Link -> Note \cup {NoName}]
      /\ \A k \in Link : target[k] # NoName => k \in Keys(target[k])
      /\ \A n \in Note : \A k \in Keys(n) : target[k] # NoName
  BY DEF BacklinksInv, BacklinkTypes, MapInv
<1>2. s \in Note /\ l \in Link
  BY <1>1, PlacesAreLinks
<1>3. C \in IF target[l] \notin {NoName, s} THEN {{target[l]}}
            ELSE IF similar = {} THEN {{}} ELSE {{n} : n \in similar}
  BY DEF Credited
<1>4. target[l] \in Note \cup {NoName}
  BY <1>1, <1>2
<1>5. ASSUME e \in C PROVE x \in Possible(e)
  <2>1. CASE target[l] \notin {NoName, s}
    <3>1. e = target[l] /\ s # e
      BY <1>3, <1>5, <2>1
    <3>2. l \in Keys(e)
      BY <1>1, <1>2, <2>1, <3>1
    <3> QED BY <3>1, <3>2 DEF Possible, Means
  <2>2. CASE target[l] \in {NoName, s}
    <3>1. e \in similar
      BY <1>3, <1>5, <2>2
    <3> QED BY <3>1 DEF Possible, Means
  <2> QED BY <2>1, <2>2
<1>6. ASSUME x \in Clear(e) PROVE e \in C
  <2>1. s # e /\ Means(l, e) /\ \A n \in Note \ {e} : ~Means(l, n)
    BY <1>6 DEF Clear, Possible
  <2>2. target[l] # NoName => target[l] = e
    <3>1. target[l] # NoName => l \in Keys(target[l]) /\ target[l] \in Note
      BY <1>1, <1>2, <1>4
    <3> QED BY <2>1, <3>1 DEF Means
  <2>3. CASE target[l] # NoName
    BY <1>3, <2>1, <2>2, <2>3
  <2>4. CASE target[l] = NoName
    <3>1. l \notin Keys(e)
      BY <1>1, <2>4
    <3>2. Resembles(l, e)
      BY <2>1, <3>1 DEF Means
    <3>3. similar = {e}
      BY <2>1, <3>2 DEF Means
    <3> HIDE DEF similar
    <3> QED BY <1>3, <2>4, <3>3
  <2> QED BY <2>3, <2>4
<1> QED BY <1>5, <1>6

LEMMA FollowKeeps == ASSUME BacklinksInv, Follow PROVE BacklinksInv'
<1> DEFINE x == CHOOSE y \in unfollowed : TRUE
<1>1. /\ begun /\ unregistered = {} /\ unfollowed # {} /\ unfollowed' = unfollowed \ {x}
      /\ UNCHANGED <<entries, begun, unregistered, target>>
  BY DEF Follow
<1>2. PICK C \in Credited(x[1], LinkAt(x)) :
        count' = [n \in Note |-> count[n] + IF n \in C THEN 1 ELSE 0]
  BY DEF Follow
<1>3. x \in unfollowed /\ x \in Places
  BY <1>1 DEF BacklinksInv, BacklinkTypes
<1> HIDE DEF x
<1>4. \A n \in Note : count[n] \in Nat /\ count'[n] = count[n] + IF n \in C THEN 1 ELSE 0
  BY <1>2 DEF BacklinksInv, BacklinkTypes
<1>5. BacklinkTypes'
  <2>1. count' \in [Note -> Nat]
    BY <1>2, <1>4
  <2> QED BY <1>1, <2>1 DEF BacklinksInv, BacklinkTypes, Places
<1>6. MapInv'
  BY <1>1 DEF BacklinksInv, MapInv, Keys
<1>7. CountsSoFar'
  <2> SUFFICES ASSUME NEW e \in Note
               PROVE  count'[e] \in Cardinality((Clear(e) \ unfollowed)')..Cardinality((Possible(e) \ unfollowed)')
    BY DEF CountsSoFar
  <2> DEFINE low == Clear(e) \ unfollowed
             high == Possible(e) \ unfollowed
  <2>1. Clear(e)' = Clear(e) /\ Possible(e)' = Possible(e)
    BY <1>1, MeaningStays
  <2>2. /\ (Clear(e) \ unfollowed)' = IF x \in Clear(e) THEN low \cup {x} ELSE low
        /\ (Possible(e) \ unfollowed)' = IF x \in Possible(e) THEN high \cup {x} ELSE high
    BY <1>1, <2>1
  <2>3. IsFiniteSet(low) /\ IsFiniteSet(high) /\ x \notin low /\ x \notin high
    <3>1. IsFiniteSet(Places)
      BY LinksAreFinite DEF BacklinksInv, BacklinkTypes
    <3>2. low \subseteq Places /\ high \subseteq Places
      BY DEF Clear, Possible
    <3> QED BY <1>3, <3>1, <3>2, FS_Subset
  <2>4. count[e] \in Cardinality(low)..Cardinality(high)
    BY <1>1 DEF BacklinksInv, CountsSoFar
  <2>5. (e \in C => x \in Possible(e)) /\ (x \in Clear(e) => e \in C) /\ (x \in Clear(e) => x \in Possible(e))
    BY <1>1, <1>2, <1>3, CreditedIsMeant DEF Clear
  <2> HIDE DEF low, high
  <2>6. Cardinality(low \cup {x}) = Cardinality(low) + 1 /\ Cardinality(high \cup {x}) = Cardinality(high) + 1
    BY <2>3, FS_AddElement
  <2>7. Cardinality(low) \in Nat /\ Cardinality(high) \in Nat /\ count[e] \in Nat
    BY <1>4, <2>3, FS_CardinalityType
  <2> DEFINE lo == Cardinality((Clear(e) \ unfollowed)')
             hi == Cardinality((Possible(e) \ unfollowed)')
  <2>8. /\ lo = Cardinality(low) + IF x \in Clear(e) THEN 1 ELSE 0
        /\ hi = Cardinality(high) + IF x \in Possible(e) THEN 1 ELSE 0
    <3>1. lo = Cardinality(low) + IF x \in Clear(e) THEN 1 ELSE 0
      <4>1. CASE x \in Clear(e)
        BY <2>2, <2>6, <4>1
      <4>2. CASE x \notin Clear(e)
        <5>1. lo = Cardinality(low)
          BY <2>2, <4>2
        <5> HIDE DEF lo
        <5> QED BY <2>7, <4>2, <5>1
      <4> QED BY <4>1, <4>2
    <3>2. hi = Cardinality(high) + IF x \in Possible(e) THEN 1 ELSE 0
      <4>1. CASE x \in Possible(e)
        BY <2>2, <2>6, <4>1
      <4>2. CASE x \notin Possible(e)
        <5>1. hi = Cardinality(high)
          BY <2>2, <4>2
        <5> HIDE DEF hi
        <5> QED BY <2>7, <4>2, <5>1
      <4> QED BY <4>1, <4>2
    <3> QED BY <3>1, <3>2
  <2> HIDE DEF lo, hi
  <2>9. count'[e] \in lo..hi
    BY <1>4, <2>4, <2>5, <2>7, <2>8
  <2> QED BY <2>9 DEF lo, hi
<1> QED BY <1>1, <1>5, <1>6, <1>7 DEF BacklinksInv

(* The inductive invariant of computeBacklinks: targetToEntry leads to      *)
(* entries that have the name, and the counts are right of the links        *)
(* followed so far, in whatever order Go walks the maps.                    *)
THEOREM BacklinksInvariant == BacklinksSpec => []BacklinksInv
<1>1. BacklinksInv /\ [BacklinksNext]_backlinkVars => BacklinksInv'
  <2> SUFFICES ASSUME BacklinksInv, [BacklinksNext]_backlinkVars PROVE BacklinksInv'
    OBVIOUS
  <2>1. CASE UNCHANGED backlinkVars
    <3>1. UNCHANGED <<entries, begun, unregistered, target, unfollowed, count>>
      BY <2>1 DEF backlinkVars
    <3>2. Places' = Places /\ \A e \in Note : Keys(e)' = Keys(e) /\ Clear(e)' = Clear(e) /\ Possible(e)' = Possible(e)
      BY <3>1, MeaningStays
    <3>3. BacklinkTypes' /\ (~begun' => unregistered' = Note /\ unfollowed' = Places')
      BY <3>1, <3>2 DEF BacklinksInv, BacklinkTypes
    <3>4. MapInv'
      BY <3>1 DEF BacklinksInv, MapInv, Keys
    <3>5. CountsSoFar'
      BY <3>1, <3>2 DEF BacklinksInv, CountsSoFar
    <3> QED BY <3>3, <3>4, <3>5 DEF BacklinksInv
  <2>2. CASE BacklinksNext
    BY <2>2, ResetKeeps, RegisterKeeps, FollowKeeps DEF BacklinksNext
  <2> QED BY <2>1, <2>2
<1> QED BY <1>1, BacklinksStart, PTL DEF BacklinksSpec

(* Links that come from different notes are as many as these notes.         *)
LEMMA SourcesAreAsMany ==
  ASSUME NEW S, IsFiniteSet(S), \A x, y \in S : x[1] = y[1] => x = y
  PROVE  Cardinality(Sources(S)) = Cardinality(S)
<1> DEFINE f == [x \in S |-> x[1]]
           T == Sources(S)
<1>1. f \in [S -> T] /\ \A t \in T : \E x \in S : f[x] = t
  BY DEF Sources
<1>2. \A x, y \in DOMAIN f : f[x] = f[y] => x = y
  OBVIOUS
<1>3. f \in Bijection(S, T)
  BY <1>1, <1>2 DEF Bijection, Injection, Surjection, IsInjective
<1>4. ExistsBijection(S, T)
  BY <1>3 DEF ExistsBijection
<1> QED BY <1>4, FS_Bijection

(* When computeBacklinks is done, BacklinkCount is, for a note that no note *)
(* links to twice, a number of other entries: no less than those whose link *)
(* can mean nothing else, no more than those whose link can mean it, in any *)
(* vault and any order.                                                     *)
THEOREM CountsHold == BacklinksSpec => []CountsTellEntries
<1>1. BacklinksInv => CountsTellEntries
  <2> SUFFICES ASSUME BacklinksInv, Counted, NEW e \in Note, LinkedOnce(e)
               PROVE  count[e] \in Cardinality(Sources(Clear(e)))..Cardinality(Sources(Possible(e)))
    BY DEF CountsTellEntries
  <2>1. Clear(e) \ unfollowed = Clear(e) /\ Possible(e) \ unfollowed = Possible(e)
    BY DEF Counted
  <2>2. count[e] \in Cardinality(Clear(e))..Cardinality(Possible(e))
    BY <2>1 DEF BacklinksInv, CountsSoFar, Counted
  <2>3. Clear(e) \subseteq Possible(e) /\ Possible(e) \subseteq Places
    BY DEF Clear, Possible
  <2>4. IsFiniteSet(Clear(e)) /\ IsFiniteSet(Possible(e))
    <3>1. IsFiniteSet(Places)
      BY LinksAreFinite DEF BacklinksInv, BacklinkTypes
    <3> QED BY <2>3, <3>1, FS_Subset
  <2>5. Cardinality(Sources(Possible(e))) = Cardinality(Possible(e))
    BY <2>4, SourcesAreAsMany DEF LinkedOnce
  <2>6. Cardinality(Sources(Clear(e))) = Cardinality(Clear(e))
    BY <2>3, <2>4, SourcesAreAsMany DEF LinkedOnce
  <2> QED BY <2>2, <2>5, <2>6
<1> QED BY <1>1, BacklinksInvariant, PTL
-----------------------------------------------------------------------------
Pick(T) == CHOOSE x \in T : TRUE

(* The sums of f over the subsets of S, each from a smaller one.            *)
SumsUp(sum, f, S) ==
  /\ SumFunctionOnSet(f, S) = sum[S]
  /\ sum[{}] = 0
  /\ \A T \in SUBSET S : T # {} => sum[T] = f[Pick(T)] + sum[T \ {Pick(T)}]

LEMMA SumIsThere ==
  ASSUME NEW S, IsFiniteSet(S), NEW f
  PROVE  \E sum : SumsUp(sum, f, S)
<1> DEFINE Step(g, T) == IF T = {} THEN 0 ELSE f[Pick(T)] + g[T \ {Pick(T)}]
           Small(n) == {T \in SUBSET S : Cardinality(T) <= n}
           IsSum(g, n) == g = [T \in Small(n) |-> Step(g, T)]
           Undefined == {n \in 0..Cardinality(S) : \A g : ~IsSum(g, n)}
<1>1. Cardinality(S) \in Nat /\ \A T \in SUBSET S : IsFiniteSet(T) /\ Cardinality(T) \in 0..Cardinality(S)
  BY FS_CardinalityType, FS_Subset
<1>2. \A T \in SUBSET S : T # {} =>
        Pick(T) \in T /\ T \ {Pick(T)} \in SUBSET S /\ Cardinality(T \ {Pick(T)}) = Cardinality(T) - 1
  BY <1>1, FS_RemoveElement DEF Pick
<1>3. 0 \notin Undefined
  <2> DEFINE g == [T \in Small(0) |-> 0]
  <2>1. \A T \in Small(0) : T = {}
    BY <1>1, FS_EmptySet
  <2>2. \A T \in Small(0) : Step(g, T) = 0
    BY <2>1
  <2>3. IsSum(g, 0)
    BY <2>2
  <2> HIDE DEF IsSum
  <2> QED BY <2>3
<1>4. ASSUME NEW m \in 1..Cardinality(S), m - 1 \notin Undefined PROVE m \notin Undefined
  <2>1. m - 1 \in 0..Cardinality(S)
    BY <1>1
  <2>2. PICK g : IsSum(g, m - 1)
    BY <1>4, <2>1
  <2> DEFINE h == [T \in Small(m) |-> Step(g, T)]
  <2>3. \A T \in Small(m - 1) : T \in Small(m)
    BY <1>1
  <2>4. \A T \in Small(m - 1) : g[T] = Step(g, T)
    <3> HIDE DEF Step, Small
    <3> QED BY <2>2
  <2>5. \A T \in Small(m - 1) : h[T] = g[T]
    <3> HIDE DEF Step, Small
    <3> QED BY <2>3, <2>4
  <2>6. \A T \in Small(m) : T # {} => T \ {Pick(T)} \in Small(m - 1)
    BY <1>1, <1>2
  <2>7. \A T \in Small(m) : Step(g, T) = Step(h, T)
    <3> HIDE DEF h, Small
    <3> QED BY <2>5, <2>6
  <2>8. IsSum(h, m)
    <3> HIDE DEF Step, Small
    <3> QED BY <2>7
  <2> HIDE DEF IsSum
  <2> QED BY <2>8
<1>5. Undefined = {}
  <2>1. Undefined \in SUBSET (0..Cardinality(S))
    OBVIOUS
  <2> HIDE DEF Undefined
  <2> QED BY <1>1, <1>3, <1>4, <2>1, Induction
<1>6. PICK g : IsSum(g, Cardinality(S))
  <2>1. Cardinality(S) \in 0..Cardinality(S)
    BY <1>1
  <2> HIDE DEF IsSum
  <2> QED BY <1>5, <2>1
<1>7. Small(Cardinality(S)) = SUBSET S
  BY <1>1
<1> DEFINE sum == CHOOSE s : s = [T \in SUBSET S |-> Step(s, T)]
<1>8. g = [T \in SUBSET S |-> Step(g, T)]
  <2> HIDE DEF Small, Step
  <2> QED BY <1>6, <1>7
<1>9. sum = [T \in SUBSET S |-> Step(sum, T)]
  <2> HIDE DEF Step
  <2> QED BY <1>8
<1>10. SumFunctionOnSet(f, S) = sum[S]
  BY DEF SumFunctionOnSet, FoldFunctionOnSet, MapThenFoldSet, Pick
<1> HIDE DEF sum
<1>11. \A T \in SUBSET S : sum[T] = Step(sum, T)
  <2> HIDE DEF Step
  <2> QED BY <1>9
<1>12. sum[{}] = 0
  BY <1>11
<1>13. \A T \in SUBSET S : T # {} => sum[T] = f[Pick(T)] + sum[T \ {Pick(T)}]
  BY <1>11
<1> QED BY <1>10, <1>12, <1>13 DEF SumsUp

LEMMA ZeroesSum ==
  ASSUME NEW S, IsFiniteSet(S), NEW f, \A s \in S : f[s] = 0
  PROVE  SumFunctionOnSet(f, S) = 0
<1>1. PICK F : SumsUp(F, f, S)
  BY SumIsThere
<1>2. /\ SumFunctionOnSet(f, S) = F[S]
      /\ F[{}] = 0
      /\ \A T \in SUBSET S : T # {} => F[T] = f[Pick(T)] + F[T \ {Pick(T)}]
  BY <1>1 DEF SumsUp
<1>3. Cardinality(S) \in Nat /\ \A T \in SUBSET S : IsFiniteSet(T) /\ Cardinality(T) \in 0..Cardinality(S)
  BY FS_CardinalityType, FS_Subset
<1>4. \A T \in SUBSET S : T # {} =>
        Pick(T) \in T /\ T \ {Pick(T)} \in SUBSET S /\ Cardinality(T \ {Pick(T)}) = Cardinality(T) - 1
  BY <1>3, FS_RemoveElement DEF Pick
<1> DEFINE Right(n) == \A T \in SUBSET S : Cardinality(T) = n => F[T] = 0
           Wrong == {n \in 0..Cardinality(S) : ~Right(n)}
<1>5. Right(0)
  BY <1>2, <1>3, FS_EmptySet
<1>6. ASSUME NEW n \in 1..Cardinality(S), Right(n - 1) PROVE Right(n)
  <2> SUFFICES ASSUME NEW T \in SUBSET S, Cardinality(T) = n PROVE F[T] = 0
    OBVIOUS
  <2>1. T # {}
    <3>1. Cardinality({}) = 0 /\ n # 0
      BY <1>3, FS_EmptySet
    <3> QED BY <3>1
  <2>2. Pick(T) \in S /\ F[T \ {Pick(T)}] = 0
    BY <1>4, <1>6, <2>1
  <2> QED BY <1>2, <2>1, <2>2
<1>7. Wrong = {}
  <2> HIDE DEF Right
  <2>1. 0 \notin Wrong /\ \A k \in 1..Cardinality(S) : k \in Wrong => k - 1 \in Wrong
    BY <1>3, <1>5, <1>6
  <2>2. Wrong \in SUBSET (0..Cardinality(S))
    OBVIOUS
  <2> HIDE DEF Wrong
  <2> QED BY <1>3, <2>1, <2>2, Induction
<1>8. Right(Cardinality(S))
  <2> HIDE DEF Right
  <2> QED BY <1>3, <1>7
<1> QED BY <1>2, <1>8

(* One more at one place is one more in the sum. *)
LEMMA SumsAre ==
  ASSUME NEW S, IsFiniteSet(S), NEW f \in [S -> Nat], NEW g, NEW C \in {{}} \cup {{e} : e \in S},
         \A s \in S : g[s] = f[s] + IF s \in C THEN 1 ELSE 0
  PROVE  /\ SumFunctionOnSet(f, S) \in Nat
         /\ SumFunctionOnSet(g, S) = SumFunctionOnSet(f, S) + IF C = {} THEN 0 ELSE 1
<1>10. PICK F : SumsUp(F, f, S)
  BY SumIsThere
<1>11. PICK G : SumsUp(G, g, S)
  BY SumIsThere
<1>1. /\ SumFunctionOnSet(f, S) = F[S]
      /\ F[{}] = 0
      /\ \A T \in SUBSET S : T # {} => F[T] = f[Pick(T)] + F[T \ {Pick(T)}]
  BY <1>10 DEF SumsUp
<1>2. /\ SumFunctionOnSet(g, S) = G[S]
      /\ G[{}] = 0
      /\ \A T \in SUBSET S : T # {} => G[T] = g[Pick(T)] + G[T \ {Pick(T)}]
  BY <1>11 DEF SumsUp
<1>3. Cardinality(S) \in Nat /\ \A T \in SUBSET S : IsFiniteSet(T) /\ Cardinality(T) \in 0..Cardinality(S)
  BY FS_CardinalityType, FS_Subset
<1>4. \A T \in SUBSET S : T # {} =>
        Pick(T) \in T /\ T \ {Pick(T)} \in SUBSET S /\ Cardinality(T \ {Pick(T)}) = Cardinality(T) - 1
  BY <1>3, FS_RemoveElement DEF Pick
<1> DEFINE Sums(T) == /\ F[T] \in Nat
                      /\ G[T] = F[T] + IF C \cap T = {} THEN 0 ELSE 1
           Right(n) == \A T \in SUBSET S : Cardinality(T) = n => Sums(T)
           Wrong == {n \in 0..Cardinality(S) : ~Right(n)}
<1>5. Right(0)
  <2> SUFFICES ASSUME NEW T \in SUBSET S, Cardinality(T) = 0 PROVE Sums(T)
    OBVIOUS
  <2>1. T = {}
    BY <1>3, FS_EmptySet
  <2> QED BY <1>1, <1>2, <2>1
<1>6. ASSUME NEW n \in 1..Cardinality(S), Right(n - 1) PROVE Right(n)
  <2> SUFFICES ASSUME NEW T \in SUBSET S, Cardinality(T) = n PROVE Sums(T)
    OBVIOUS
  <2> DEFINE x == Pick(T)
             U == T \ {x}
  <2>1. T # {}
    <3>1. Cardinality({}) = 0 /\ n # 0
      BY <1>3, FS_EmptySet
    <3> QED BY <3>1
  <2>2. x \in T /\ U \in SUBSET S /\ Cardinality(U) = n - 1
    BY <1>4, <2>1
  <2>3. F[T] = f[x] + F[U] /\ G[T] = g[x] + G[U]
    BY <1>1, <1>2, <2>1
  <2>4. Sums(U)
    <3> HIDE DEF Sums, x, U
    <3> QED BY <1>6, <2>2
  <2>5. x \in S /\ f[x] \in Nat /\ g[x] = f[x] + IF x \in C THEN 1 ELSE 0
    BY <2>2
  <2>6. (C \cap U = {} <=> C \cap T = {} \/ x \in C) /\ (x \in C => C \cap T # {})
    <3> HIDE DEF x
    <3> QED BY <2>2
  <2> HIDE DEF x, U
  <2> QED BY <2>3, <2>4, <2>5, <2>6
<1>7. Wrong = {}
  <2> HIDE DEF Right
  <2>1. 0 \notin Wrong /\ \A k \in 1..Cardinality(S) : k \in Wrong => k - 1 \in Wrong
    BY <1>3, <1>5, <1>6
  <2>2. Wrong \in SUBSET (0..Cardinality(S))
    OBVIOUS
  <2> HIDE DEF Wrong
  <2> QED BY <1>3, <2>1, <2>2, Induction
<1>8. Sums(S)
  <2>1. Right(Cardinality(S))
    <3> HIDE DEF Right
    <3> QED BY <1>3, <1>7
  <2> HIDE DEF Sums
  <2> QED BY <2>1
<1>9. C \cap S = {} <=> C = {}
  OBVIOUS
<1> QED BY <1>1, <1>2, <1>8, <1>9
-----------------------------------------------------------------------------
(* The links that mean another note, and those of them that do not mean     *)
(* their own.                                                               *)
Meaning == {x \in Places : \E e \in Note \ {x[1]} : Means(LinkAt(x), e)}
Foreign == {x \in Meaning : ~Means(LinkAt(x), x[1])}

SumSoFar ==
  begun => SumFunction(count) \in Cardinality(Foreign \ unfollowed)..Cardinality(Meaning \ unfollowed)

LEMMA CreditedOnce ==
  ASSUME BacklinksInv, unregistered = {}, NEW x \in Places, NEW C \in Credited(x[1], LinkAt(x))
  PROVE  /\ C \in {{}} \cup {{e} : e \in Note}
         /\ C # {} => x \in Meaning
         /\ x \in Foreign => C # {}
<1> DEFINE s == x[1]
           l == LinkAt(x)
           similar == {n \in Note \ {s} : Resembles(l, n)}
<1>1. /\ target \in [Link -> Note \cup {NoName}]
      /\ \A k \in Link : target[k] # NoName => k \in Keys(target[k])
      /\ \A n \in Note : \A k \in Keys(n) : target[k] # NoName
  BY DEF BacklinksInv, BacklinkTypes, MapInv
<1>2. s \in Note /\ l \in Link
  BY PlacesAreLinks DEF BacklinksInv, BacklinkTypes
<1>3. C \in IF target[l] \notin {NoName, s} THEN {{target[l]}}
            ELSE IF similar = {} THEN {{}} ELSE {{n} : n \in similar}
  BY DEF Credited
<1>4. target[l] \in Note \cup {NoName}
  BY <1>1, <1>2
<1>5. C \in {{}} \cup {{e} : e \in Note}
  <2>1. CASE target[l] \notin {NoName, s}
    BY <1>3, <1>4, <2>1
  <2>2. CASE target[l] \in {NoName, s}
    BY <1>3, <2>2
  <2> QED BY <2>1, <2>2
<1>6. ASSUME C # {} PROVE x \in Meaning
  <2>1. PICK e \in Note : e \in C
    BY <1>5, <1>6
  <2>2. x \in Possible(e)
    BY <2>1, CreditedIsMeant
  <2> QED BY <2>2 DEF Possible, Meaning
<1>7. ASSUME x \in Foreign PROVE C # {}
  <2>1. ~Means(l, s) /\ \E e \in Note \ {s} : Means(l, e)
    BY <1>7 DEF Foreign, Meaning
  <2>2. PICK e \in Note \ {s} : Means(l, e)
    BY <2>1
  <2>3. target[l] # s
    <3>1. target[l] = s => s # NoName
      BY <1>2, NoNameAssumption
    <3> QED BY <1>1, <1>2, <2>1, <3>1 DEF Means
  <2>4. CASE target[l] # NoName
    BY <1>3, <2>3, <2>4
  <2>5. CASE target[l] = NoName
    <3>1. Resembles(l, e)
      BY <1>1, <2>2, <2>5 DEF Means
    <3>2. similar # {}
      BY <3>1
    <3> HIDE DEF similar
    <3> QED BY <1>3, <2>5, <3>2
  <2> QED BY <2>4, <2>5
<1> QED BY <1>5, <1>6, <1>7

LEMMA MeaningsStay ==
  ASSUME UNCHANGED entries PROVE Meaning' = Meaning /\ Foreign' = Foreign
BY DEF Meaning, Foreign, Places, LinkAt, Means, Keys, Resembles

LEMMA ResetStartsTheSum == ASSUME BacklinksInv, Reset PROVE SumSoFar'
<1>1. /\ ~begun /\ count' = [n \in Note |-> 0] /\ UNCHANGED <<entries, unfollowed>> /\ unfollowed = Places
  BY DEF Reset, Zero, BacklinksInv
<1> DEFINE zero == [n \in Note |-> 0]
<1>2. SumFunction(count') = 0
  <2>1. DOMAIN zero = Note /\ \A n \in Note : zero[n] = 0
    OBVIOUS
  <2> HIDE DEF zero
  <2>2. SumFunctionOnSet(zero, Note) = 0
    BY <2>1, NoteAssumption, ZeroesSum
  <2> QED BY <1>1, <2>1, <2>2 DEF SumFunction, zero
<1>3. (Foreign \ unfollowed)' = {} /\ (Meaning \ unfollowed)' = {}
  <2>1. Meaning' = Meaning /\ Foreign' = Foreign /\ unfollowed' = Places
    BY <1>1, MeaningsStay
  <2> QED BY <2>1 DEF Foreign, Meaning
<1>4. Cardinality({}) = 0 /\ 0 \in 0..0
  BY FS_EmptySet
<1> QED BY <1>2, <1>3, <1>4 DEF SumSoFar

LEMMA FollowSums == ASSUME BacklinksInv, SumSoFar, Follow PROVE SumSoFar'
<1> DEFINE x == CHOOSE y \in unfollowed : TRUE
<1>1. /\ begun /\ unregistered = {} /\ unfollowed # {} /\ unfollowed' = unfollowed \ {x}
      /\ UNCHANGED <<entries, begun>>
  BY DEF Follow
<1>2. PICK C \in Credited(x[1], LinkAt(x)) :
        count' = [n \in Note |-> count[n] + IF n \in C THEN 1 ELSE 0]
  BY DEF Follow
<1>3. x \in unfollowed /\ x \in Places
  BY <1>1 DEF BacklinksInv, BacklinkTypes
<1> HIDE DEF x
<1>4. C \in {{}} \cup {{e} : e \in Note} /\ (C # {} => x \in Meaning) /\ (x \in Foreign => C # {})
  BY <1>1, <1>2, <1>3, CreditedOnce
<1> DEFINE was == SumFunction(count)
           is == SumFunction(count')
<1>5. was \in Nat /\ is = was + IF C = {} THEN 0 ELSE 1
  <2>1. count \in [Note -> Nat] /\ DOMAIN count = Note /\ DOMAIN count' = Note
    BY <1>2 DEF BacklinksInv, BacklinkTypes
  <2>2. \A n \in Note : count'[n] = count[n] + IF n \in C THEN 1 ELSE 0
    BY <1>2
  <2>3. /\ SumFunctionOnSet(count, Note) \in Nat
        /\ SumFunctionOnSet(count', Note) = SumFunctionOnSet(count, Note) + IF C = {} THEN 0 ELSE 1
    BY <1>4, <2>1, <2>2, NoteAssumption, SumsAre
  <2> QED BY <2>1, <2>3 DEF SumFunction
<1> DEFINE low == Foreign \ unfollowed
           high == Meaning \ unfollowed
           lo == Cardinality((Foreign \ unfollowed)')
           hi == Cardinality((Meaning \ unfollowed)')
<1>6. /\ (Foreign \ unfollowed)' = IF x \in Foreign THEN low \cup {x} ELSE low
      /\ (Meaning \ unfollowed)' = IF x \in Meaning THEN high \cup {x} ELSE high
  BY <1>1, MeaningsStay
<1>7. IsFiniteSet(low) /\ IsFiniteSet(high) /\ x \notin low /\ x \notin high
  <2>1. IsFiniteSet(Places)
    BY LinksAreFinite DEF BacklinksInv, BacklinkTypes
  <2>2. low \subseteq Places /\ high \subseteq Places
    BY DEF Foreign, Meaning
  <2> QED BY <1>3, <2>1, <2>2, FS_Subset
<1>8. was \in Cardinality(low)..Cardinality(high)
  BY <1>1 DEF SumSoFar
<1> HIDE DEF low, high
<1>9. Cardinality(low \cup {x}) = Cardinality(low) + 1 /\ Cardinality(high \cup {x}) = Cardinality(high) + 1
  BY <1>7, FS_AddElement
<1>10. Cardinality(low) \in Nat /\ Cardinality(high) \in Nat
  BY <1>7, FS_CardinalityType
<1>11. lo = Cardinality(low) + IF x \in Foreign THEN 1 ELSE 0
  <2>1. CASE x \in Foreign
    BY <1>6, <1>9, <2>1
  <2>2. CASE x \notin Foreign
    <3>1. lo = Cardinality(low)
      BY <1>6, <2>2
    <3> HIDE DEF lo
    <3> QED BY <1>10, <2>2, <3>1
  <2> QED BY <2>1, <2>2
<1>12. hi = Cardinality(high) + IF x \in Meaning THEN 1 ELSE 0
  <2>1. CASE x \in Meaning
    BY <1>6, <1>9, <2>1
  <2>2. CASE x \notin Meaning
    <3>1. hi = Cardinality(high)
      BY <1>6, <2>2
    <3> HIDE DEF hi
    <3> QED BY <1>10, <2>2, <3>1
  <2> QED BY <2>1, <2>2
<1> HIDE DEF lo, hi, was, is
<1>13. is \in lo..hi
  <2>1. x \in Foreign => x \in Meaning
    BY DEF Foreign
  <2> QED BY <1>4, <1>5, <1>8, <1>10, <1>11, <1>12, <2>1
<1> QED BY <1>13 DEF SumSoFar, is, lo, hi

(* computeBacklinks neither loses a link nor counts one twice: the counts   *)
(* add up to the links that mean another note, but for those that are a     *)
(* name of their own note too (EachLinkCountsOnce, which asks for distinct  *)
(* names and no double links; the proof needs neither).                     *)
THEOREM EachLinkIsCountedOnce == BacklinksSpec => []EachLinkCountsOnce
<1>1. BacklinksInit(Vault) => SumSoFar
  BY DEF BacklinksInit, SumSoFar
<1>2. BacklinksInv /\ SumSoFar /\ [BacklinksNext]_backlinkVars => SumSoFar'
  <2> SUFFICES ASSUME BacklinksInv, SumSoFar, [BacklinksNext]_backlinkVars PROVE SumSoFar'
    OBVIOUS
  <2>1. ASSUME UNCHANGED <<entries, begun, unfollowed, count>> PROVE SumSoFar'
    BY <2>1, MeaningsStay DEF SumSoFar
  <2>2. CASE Reset
    BY <2>2, ResetStartsTheSum
  <2>3. ASSUME NEW e \in Note, Register(e) PROVE SumSoFar'
    BY <2>1, <2>3 DEF Register
  <2>4. CASE Follow
    BY <2>4, FollowSums
  <2>5. CASE UNCHANGED backlinkVars
    BY <2>1, <2>5 DEF backlinkVars
  <2> QED BY <2>2, <2>3, <2>4, <2>5 DEF BacklinksNext
<1>3. BacklinksInv /\ SumSoFar => EachLinkCountsOnce
  <2> SUFFICES ASSUME BacklinksInv, SumSoFar, Counted
               PROVE  SumFunction(count) \in Cardinality(Foreign)..Cardinality(Meaning)
    BY DEF EachLinkCountsOnce, Foreign, Meaning
  <2>1. Foreign \ unfollowed = Foreign /\ Meaning \ unfollowed = Meaning
    BY DEF Counted
  <2> QED BY <2>1 DEF SumSoFar, Counted
<1> QED BY <1>1, <1>2, <1>3, BacklinksInvariant, PTL DEF BacklinksSpec

(* computeBacklinks leaves counts that are right note by note and in sum. *)
THEOREM BacklinksAreCounted == BacklinksSpec => []CountsAreRight
<1>1. CountsTellEntries /\ EachLinkCountsOnce => CountsAreRight
  BY DEF CountsAreRight
<1> QED BY <1>1, CountsHold, EachLinkIsCountedOnce, PTL
=============================================================================
