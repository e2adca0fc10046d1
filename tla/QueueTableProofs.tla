-------------------------- MODULE QueueTableProofs --------------------------
(***************************************************************************)
(* Facts about the statements of QueueTable, for whatever rows.            *)
(***************************************************************************)
EXTENDS QueueTable, WellFoundedInduction, TLAPS

(***************************************************************************)
(* Positions are recomputed from a maximum, which is a CHOOSE: everything  *)
(* rests on the maximum being there.                                       *)
(***************************************************************************)
LEMMA LeastNatural ==
  ASSUME NEW T \in SUBSET Nat, T # {}
  PROVE  \E m \in T : \A n \in T : m <= n
<1>1. PICK m \in T : \A n \in T : ~ (<<n, m>> \in OpToRel(<, Nat))
  BY NatLessThanWellFounded, WFMin
<1>2. ASSUME NEW n \in T PROVE m <= n
  <2>1. <<n, m>> \notin OpToRel(<, Nat)
    BY <1>1
  <2>2. ~ (n < m)
    BY <2>1 DEF OpToRel
  <2> QED BY <2>2
<1> QED BY <1>2

LEMMA GreatestNatural ==
  ASSUME NEW S \in SUBSET Nat, S # {}, NEW b \in Nat, \A x \in S : x <= b
  PROVE  \E m \in S : \A x \in S : x <= m
<1> DEFINE T == {n \in Nat : \A x \in S : x <= n}
<1>1. PICK m \in T : \A n \in T : m <= n
  <2>1. b \in T /\ T \in SUBSET Nat
    OBVIOUS
  <2> HIDE DEF T
  <2> QED BY <2>1, LeastNatural
<1>2. m \in S
  <2> SUFFICES ASSUME m \notin S PROVE FALSE
    OBVIOUS
  <2>1. \A x \in S : x <= m - 1
    OBVIOUS
  <2>2. m - 1 \in T
    <3>1. PICK x \in S : x <= m - 1
      BY <2>1
    <3>2. m - 1 \in Nat
      BY <3>1
    <3> QED BY <2>1, <3>2
  <2> QED BY <1>1, <2>2
<1> QED BY <1>2

LEMMA MaxPositionIsMax ==
  ASSUME NEW q, NEW b \in Nat, \A r \in q : r.position \in 0..b
  PROVE  /\ MaxPosition(q) \in 0..b
         /\ \A r \in q : r.position <= MaxPosition(q)
         /\ MaxPosition(q) = 0 \/ \E r \in q : r.position = MaxPosition(q)
<1> DEFINE S == {0} \cup {r.position : r \in q}
<1>1. S \in SUBSET Nat /\ S # {} /\ \A x \in S : x <= b
  OBVIOUS
<1>2. \E m \in S : \A x \in S : x <= m
  <2> HIDE DEF S
  <2> QED BY <1>1, GreatestNatural
<1>3. \E n \in S : \A r \in q : r.position <= n
  BY <1>2
<1>4. MaxPosition(q) \in S /\ \A r \in q : r.position <= MaxPosition(q)
  BY <1>3 DEF MaxPosition
<1> QED BY <1>1, <1>4

(* A new row goes behind all others, and no further than it has to. *)
LEMMA NextPositionIsLast ==
  ASSUME NEW q, NEW b \in Nat, \A r \in q : r.position \in 0..b
  PROVE  /\ NextPosition(q) \in 1..(b + 1)
         /\ \A r \in q : r.position < NextPosition(q)
BY MaxPositionIsMax DEF NextPosition
=============================================================================
