-------------------------- MODULE EligibilityProofs --------------------------
(***************************************************************************)
(* The order of the candidates of a lane, for any candidates: it has one    *)
(* first element, and that is not a q8 whose group has a q4.                *)
(***************************************************************************)
EXTENDS Eligibility, FiniteSetTheorems, WellFoundedInduction, TLAPS

LEMMA LeastNatural ==
    ASSUME NEW T, T \subseteq Nat, T # {}
    PROVE  \E n \in T : \A m \in T : n <= m
<1>1. PICK n \in T : \A m \in T : ~(<<m, n>> \in OpToRel(<, Nat))
  BY NatLessThanWellFounded, WFMin
<1>2. \A m \in T : ~(m < n)
  BY <1>1 DEF OpToRel
<1> QED
  BY <1>2

(* A candidate is the position of its selection and its variant.            *)
Candidates(S) == S \subseteq Nat \X Nat

LEMMA EarlierIsTotal ==
    /\ \A c, d \in Nat \X Nat : c = d \/ Earlier(c, d) \/ Earlier(d, c)
    /\ \A c, d \in Nat \X Nat : Earlier(c, d) => ~Earlier(d, c) /\ c # d
    /\ \A c, d, e \in Nat \X Nat : Earlier(c, d) /\ Earlier(d, e) => Earlier(c, e)
<1>1. \A c \in Nat \X Nat : c = <<c[1], c[2]>> /\ c[1] \in Nat /\ c[2] \in Nat
  OBVIOUS
<1>2. ASSUME NEW c \in Nat \X Nat, NEW d \in Nat \X Nat
      PROVE  c = d \/ Earlier(c, d) \/ Earlier(d, c)
  BY <1>1 DEF Earlier
<1>3. ASSUME NEW c \in Nat \X Nat, NEW d \in Nat \X Nat, Earlier(c, d)
      PROVE  ~Earlier(d, c) /\ c # d
  BY <1>1, <1>3 DEF Earlier
<1>4. ASSUME NEW c \in Nat \X Nat, NEW d \in Nat \X Nat, NEW e \in Nat \X Nat,
             Earlier(c, d), Earlier(d, e)
      PROVE  Earlier(c, e)
  BY <1>1, <1>4 DEF Earlier
<1> QED
  BY <1>2, <1>3, <1>4

LEMMA EarliestExists ==
    ASSUME NEW T, Candidates(T), T # {}
    PROVE  \E c \in T : \A d \in T \ {c} : Earlier(c, d)
<1> DEFINE firsts == {c[1] : c \in T}
<1>1. PICK i \in firsts : \A j \in firsts : i <= j
  <2>1. firsts \subseteq Nat /\ firsts # {}
    BY DEF Candidates
  <2> HIDE DEF firsts
  <2> QED
    BY <2>1, LeastNatural
<1> DEFINE opened == {c \in T : c[1] = i}
           seconds == {c[2] : c \in opened}
<1>2. opened # {}
  BY <1>1
<1>3. PICK m \in seconds : \A n \in seconds : m <= n
  <2>1. seconds \subseteq Nat /\ seconds # {}
    BY <1>2 DEF Candidates
  <2> HIDE DEF seconds
  <2> QED
    BY <2>1, LeastNatural
<1>4. PICK c \in opened : c[2] = m
  BY <1>3
<1>5. c \in T /\ c[1] = i
  BY <1>4
<1>6. ASSUME NEW d \in T \ {c} PROVE Earlier(c, d)
  <2>1. c \in Nat \X Nat /\ d \in Nat \X Nat
    BY <1>5 DEF Candidates
  <2>2. i <= d[1]
    BY <1>1
  <2>3. d[1] = i => m <= d[2]
    BY <1>3
  <2>4. ~Earlier(d, c)
    BY <1>4, <1>5, <2>1, <2>2, <2>3 DEF Earlier
  <2> QED
    BY <2>1, <2>4, EarlierIsTotal
<1> QED
  BY <1>5, <1>6

-----------------------------------------------------------------------------
(* The first candidate of a group, and the order of two of them.            *)

Members(S, c) == {d \in S : Group(d) = Group(c)}

LEMMA OpensFirst ==
    ASSUME NEW S, Candidates(S), NEW c \in S
    PROVE  /\ Opens(S, c) \in Members(S, c)
           /\ \A e \in Members(S, c) \ {Opens(S, c)} : Earlier(Opens(S, c), e)
<1> DEFINE First(d) == d \in S /\ Group(d) = Group(c)
                       /\ \A e \in S : Group(e) = Group(c) => ~Earlier(e, d)
<1>1. Candidates(Members(S, c)) /\ c \in Members(S, c) /\ Members(S, c) \subseteq S
  BY DEF Candidates, Members
<1>2. PICK d \in Members(S, c) : \A e \in Members(S, c) \ {d} : Earlier(d, e)
  BY <1>1, EarliestExists
<1>3. d \in Nat \X Nat /\ \A e \in S : e \in Nat \X Nat
  BY <1>1 DEF Candidates
<1>4. First(d)
  BY <1>2, <1>3, EarlierIsTotal DEF Members
<1>5. First(Opens(S, c))
  BY <1>4 DEF Opens
<1>6. Opens(S, c) \in Members(S, c)
  BY <1>5 DEF Members
<1>7. ASSUME NEW e \in Members(S, c), e # Opens(S, c) PROVE Earlier(Opens(S, c), e)
  <2>1. ~Earlier(e, Opens(S, c))
    BY <1>5, <1>7 DEF Members
  <2>2. e \in Nat \X Nat /\ Opens(S, c) \in Nat \X Nat
    BY <1>3, <1>6 DEF Members
  <2> QED
    BY <1>7, <2>1, <2>2, EarlierIsTotal
<1> QED
  BY <1>6, <1>7

LEMMA OpensSame ==
    ASSUME NEW S, Candidates(S), NEW c \in S, NEW d \in S
    PROVE  Group(c) = Group(d) <=> Opens(S, c) = Opens(S, d)
<1>1. Group(c) = Group(d) => Opens(S, c) = Opens(S, d)
  BY DEF Opens
<1>2. Group(Opens(S, c)) = Group(c) /\ Group(Opens(S, d)) = Group(d)
  BY OpensFirst DEF Members
<1> QED
  BY <1>1, <1>2

LEMMA PrecedesIsAntisymmetric ==
    ASSUME NEW S, Candidates(S), NEW c \in S, NEW d \in S, Precedes(S, c, d)
    PROVE  ~Precedes(S, d, c)
<1>1. c \in Nat \X Nat /\ d \in Nat \X Nat
  BY DEF Candidates
<1>2. Opens(S, c) \in Nat \X Nat /\ Opens(S, d) \in Nat \X Nat
  BY OpensFirst DEF Candidates, Members
<1>3. CASE Group(c) = Group(d)
  <2>1. ~Earlier(Opens(S, c), Opens(S, d)) /\ ~Earlier(Opens(S, d), Opens(S, c))
    BY <1>2, <1>3, OpensSame, EarlierIsTotal
  <2> QED
    BY <1>1, <1>3, <2>1, EarlierIsTotal DEF Precedes, Demoted
<1>4. CASE Group(c) # Group(d)
  BY <1>2, <1>4, EarlierIsTotal DEF Precedes
<1> QED
  BY <1>3, <1>4

(* A lane with candidates has a first one.                                  *)
LEMMA HeadExists ==
    ASSUME NEW S, Candidates(S), S # {}
    PROVE  Heads(S) # {}
<1>1. PICK c \in S : \A d \in S \ {c} : Earlier(c, d)
  BY EarliestExists
<1> DEFINE M == Members(S, c)
           T == IF Split(S, Group(c)) THEN {d \in M : Bucket(d) = "q4"} ELSE M
<1>2. Candidates(M) /\ M \subseteq S /\ c \in M /\ c \in Nat \X Nat
  BY DEF Members, Candidates
<1>3. T # {} /\ T \subseteq M
  <2>1. CASE Split(S, Group(c))
    <3>1. \E d \in M : Bucket(d) = "q4"
      BY <2>1 DEF Split, Members
    <3> QED
      BY <2>1, <3>1
  <2>2. CASE ~Split(S, Group(c))
    BY <1>2, <2>2
  <2> QED
    BY <2>1, <2>2
<1>4. PICK h \in T : \A d \in T \ {h} : Earlier(h, d)
  <2>1. Candidates(T)
    BY <1>2, <1>3 DEF Candidates
  <2> HIDE DEF T
  <2> QED
    BY <1>3, <2>1, EarliestExists
<1>5. /\ h \in M /\ h \in S /\ Group(h) = Group(c)
      /\ Split(S, Group(c)) => Bucket(h) = "q4"
      /\ ~Demoted(S, h)
  BY <1>2, <1>3, <1>4 DEF Members, Demoted
<1>6. ASSUME NEW d \in S \ {h} PROVE Precedes(S, h, d)
  <2>1. CASE Group(d) = Group(c)
    <3>1. d \in M
      BY <2>1 DEF Members
    <3>2. CASE d \in T
      <4>1. Earlier(h, d)
        BY <1>4, <3>2
      <4>2. ~Demoted(S, d)
        BY <2>1, <3>2 DEF Demoted
      <4>3. Demoted(S, h) = Demoted(S, d)
        BY <1>5, <4>2 DEF Demoted
      <4> QED
        BY <1>5, <2>1, <4>1, <4>3 DEF Precedes
    <3>3. CASE d \notin T
      <4>1. Demoted(S, d)
        BY <2>1, <3>1, <3>3 DEF Demoted
      <4> QED
        BY <1>5, <2>1, <4>1 DEF Precedes
    <3> QED
      BY <3>2, <3>3
  <2>2. CASE Group(d) # Group(c)
    <3>1. Opens(S, h) = Opens(S, c) /\ Opens(S, c) # Opens(S, d)
      BY <1>5, <2>2, OpensSame
    <3>2. Opens(S, c) \in M /\ Opens(S, d) \in S
      BY OpensFirst DEF Members
    <3>3. Opens(S, c) = c
      <4>1. CASE Opens(S, c) # c
        <5>1. Earlier(Opens(S, c), c) /\ Earlier(c, Opens(S, c))
          BY <1>1, <1>2, <3>2, <4>1, OpensFirst
        <5> QED
          BY <1>2, <3>2, <5>1, EarlierIsTotal DEF Candidates
      <4> QED
        BY <4>1
    <3>4. Earlier(c, Opens(S, d))
      BY <1>1, <3>1, <3>2, <3>3
    <3> QED
      BY <3>1, <3>3, <3>4 DEF Precedes
  <2> QED
    BY <2>1, <2>2
<1> QED
  BY <1>5, <1>6 DEF Heads

(* The route of a lane has one primary if it has candidates; it is not a    *)
(* fallback, nor a q8 when its group has a q4                               *)
(* (eligibility_selection.py:79-115).                                       *)
THEOREM RouteIsQ4First ==
    ASSUME NEW S, Candidates(S)
    PROVE  /\ Cardinality(Heads(S)) = (IF S = {} THEN 0 ELSE 1)
           /\ Heads(S) \cap Route(S).fallbacks = {}
           /\ \A p \in Heads(S), c \in S :
                Group(c) = Group(p) /\ Bucket(c) = "q4" => Bucket(p) # "q8"
<1>1. ASSUME NEW p \in Heads(S), NEW c \in S, Group(c) = Group(p), Bucket(c) = "q4"
      PROVE  Bucket(p) # "q8"
  <2> SUFFICES ASSUME Bucket(p) = "q8" PROVE FALSE
    OBVIOUS
  <2>1. p \in S /\ c # p
    BY <1>1 DEF Heads
  <2>2. Precedes(S, p, c)
    BY <2>1 DEF Heads
  <2>3. Split(S, Group(p))
    BY <1>1, <2>1 DEF Split
  <2>4. Demoted(S, p) /\ ~Demoted(S, c)
    BY <1>1, <2>3 DEF Demoted
  <2>5. Precedes(S, c, p)
    BY <1>1, <2>4 DEF Precedes
  <2> QED
    BY <2>1, <2>2, <2>5, PrecedesIsAntisymmetric
<1>2. Heads(S) \cap Route(S).fallbacks = {}
  <2> SUFFICES ASSUME NEW p \in Heads(S), p \in Route(S).fallbacks PROVE FALSE
    OBVIOUS
  <2>1. p \in S /\ Split(S, Group(p)) /\ Bucket(p) = "q8"
    BY DEF Route
  <2>2. \E c \in S : Group(c) = Group(p) /\ Bucket(c) = "q4"
    BY <2>1 DEF Split
  <2> QED
    BY <1>1, <2>1, <2>2
<1>3. CASE S = {}
  <2>1. Heads(S) = {}
    BY <1>3 DEF Heads
  <2> QED
    BY <1>1, <1>2, <1>3, <2>1, FS_EmptySet
<1>4. CASE S # {}
  <2>1. PICK h : h \in Heads(S)
    BY <1>4, HeadExists
  <2>2. ASSUME NEW g \in Heads(S) PROVE g = h
    <3>1. g \in S /\ h \in S
      BY <2>1 DEF Heads
    <3>2. g # h => Precedes(S, g, h) /\ Precedes(S, h, g)
      BY <2>1, <3>1 DEF Heads
    <3> QED
      BY <3>1, <3>2, PrecedesIsAntisymmetric
  <2>3. Heads(S) = {h}
    BY <2>1, <2>2
  <2> QED
    BY <1>1, <1>2, <1>4, <2>3, FS_Singleton
<1> QED
  BY <1>3, <1>4
=============================================================================
