------------------------------ MODULE DagProofs ------------------------------
(***************************************************************************)
(* Facts about lists of nodes that the proofs of several components use.   *)
(***************************************************************************)
EXTENDS Dag, TLAPS, FiniteSetTheorems, SequenceTheorems, WellFoundedInduction

(* Removing the front of a queue without repetitions removes one member. *)
LEMMA TailMembers ==
    ASSUME NEW S, NEW s \in Seq(S), s # <<>>, Distinct(s)
    PROVE  /\ Head(s) \in S
           /\ Head(s) \in Members(s)
           /\ Tail(s) \in Seq(S)
           /\ Distinct(Tail(s))
           /\ Members(Tail(s)) = Members(s) \ {Head(s)}
<1>1. /\ Len(s) \in Nat \ {0}
      /\ DOMAIN s = 1 .. Len(s)
      /\ \A i \in 1 .. Len(s) : s[i] \in S
  BY LenProperties, EmptySeq, ElementOfSeq
<1>2. /\ Head(s) = s[1]
      /\ Tail(s) \in Seq(S)
      /\ Len(Tail(s)) = Len(s) - 1
      /\ \A i \in 1 .. Len(Tail(s)) : Tail(s)[i] = s[i + 1]
  BY <1>1, HeadTailProperties
<1>3. DOMAIN Tail(s) = 1 .. Len(s) - 1
  BY <1>1, <1>2, LenProperties
<1>4. Distinct(Tail(s))
  BY <1>1, <1>2, <1>3 DEF Distinct
<1>5. Members(Tail(s)) \subseteq Members(s) \ {Head(s)}
  BY <1>1, <1>2, <1>3 DEF Distinct, Members
<1>6. ASSUME NEW x \in Members(s), x # Head(s)
      PROVE  x \in Members(Tail(s))
  <2>1. PICK i \in 1 .. Len(s) : x = s[i]
    BY <1>1 DEF Members
  <2>2. i - 1 \in 1 .. Len(s) - 1 /\ Tail(s)[i - 1] = x
    BY <2>1, <1>1, <1>2, <1>6
  <2>3. QED
    BY <2>2, <1>3 DEF Members
<1>7. Head(s) \in S /\ Head(s) \in Members(s)
  BY <1>1, <1>2 DEF Members
<1>8. QED
  BY <1>2, <1>4, <1>5, <1>6, <1>7

(* Appending a listing of a disjoint set. *)
LEMMA ConcatMembers ==
    ASSUME NEW S, NEW s \in Seq(S), NEW q \in Seq(S),
           Distinct(s), Distinct(q), Members(s) \cap Members(q) = {}
    PROVE  /\ s \o q \in Seq(S)
           /\ Distinct(s \o q)
           /\ Members(s \o q) = Members(s) \cup Members(q)
<1>1. /\ Len(s) \in Nat /\ DOMAIN s = 1 .. Len(s)
      /\ Len(q) \in Nat /\ DOMAIN q = 1 .. Len(q)
  BY LenProperties
<1>2. /\ s \o q \in Seq(S)
      /\ Len(s \o q) = Len(s) + Len(q)
      /\ \A i \in 1 .. Len(s) + Len(q) :
            (s \o q)[i] = IF i <= Len(s) THEN s[i] ELSE q[i - Len(s)]
  BY ConcatProperties
<1>3. DOMAIN (s \o q) = 1 .. Len(s) + Len(q)
  BY <1>2, LenProperties
<1>4. ASSUME NEW i \in 1 .. Len(s) + Len(q)
      PROVE  \/ i \in DOMAIN s /\ (s \o q)[i] = s[i] /\ s[i] \in Members(s)
             \/ /\ i - Len(s) \in DOMAIN q /\ i > Len(s)
                /\ (s \o q)[i] = q[i - Len(s)] /\ q[i - Len(s)] \in Members(q)
  BY <1>1, <1>2 DEF Members
<1>5. Distinct(s \o q)
  <2> SUFFICES ASSUME NEW i \in 1 .. Len(s) + Len(q), NEW j \in 1 .. Len(s) + Len(q),
                      (s \o q)[i] = (s \o q)[j]
               PROVE  i = j
    BY <1>3 DEF Distinct
  <2>1. CASE i <= Len(s) /\ j <= Len(s)
    BY <2>1, <1>1, <1>4 DEF Distinct
  <2>2. CASE i > Len(s) /\ j > Len(s)
    <3>1. i - Len(s) = j - Len(s)
      BY <2>2, <1>1, <1>4 DEF Distinct
    <3>2. QED
      BY <3>1, <1>1
  <2>3. CASE (i <= Len(s)) # (j <= Len(s))
    BY <2>3, <1>1, <1>4
  <2>4. QED
    BY <2>1, <2>2, <2>3, <1>1
<1>6. Members(s) \subseteq Members(s \o q)
  BY <1>1, <1>2, <1>3 DEF Members
<1>7. Members(q) \subseteq Members(s \o q)
  <2> SUFFICES ASSUME NEW j \in 1 .. Len(q) PROVE q[j] \in Members(s \o q)
    BY <1>1 DEF Members
  <2>1. j + Len(s) \in 1 .. Len(s) + Len(q) /\ (s \o q)[j + Len(s)] = q[j]
    BY <1>1, <1>2
  <2>2. QED
    BY <2>1, <1>3 DEF Members
<1>8. Members(s \o q) \subseteq Members(s) \cup Members(q)
  BY <1>3, <1>4 DEF Members
<1>9. QED
  BY <1>2, <1>5, <1>6, <1>7, <1>8

(* A set of natural numbers has a least element. *)
LEMMA LeastNumber ==
    ASSUME NEW A \in SUBSET Nat, A # {}
    PROVE  \E x \in A : \A y \in A : x <= y
<1>1. PICK x \in A : \A y \in A : ~(<<y, x>> \in OpToRel(<, Nat))
  BY NatLessThanWellFounded, WFMin
<1>2. ASSUME NEW y \in A PROVE x <= y
  <2>1. ASSUME y < x PROVE <<y, x>> \in OpToRel(<, Nat)
    <3>1. <<y, x>> \in Nat \X Nat /\ <<y, x>>[1] = y /\ <<y, x>>[2] = x
      OBVIOUS
    <3>2. QED
      BY <2>1, <3>1, Zenon DEF OpToRel
  <2>2. ~(y < x)
    BY <1>1, <2>1, Zenon
  <2>3. QED
    BY <2>2
<1>3. QED
  BY <1>2

(* and, among numbers with a bound, has a greatest one. *)
LEMMA GreatestNumber ==
    ASSUME NEW n \in Nat, NEW A \in SUBSET (1 .. n), A # {}
    PROVE  \E x \in A : \A y \in A : y <= x
<1> DEFINE B == {n - x : x \in A}
<1>1. B \in SUBSET Nat /\ B # {}
  <2>1. \A x \in A : x \in Int /\ n - x \in Nat
    OBVIOUS
  <2>2. PICK x \in A : TRUE
    OBVIOUS
  <2>3. n - x \in B
    OBVIOUS
  <2>4. QED
    BY <2>1, <2>3
<1>2. PICK b \in B : \A c \in B : b <= c
  <2> HIDE DEF B
  <2>1. QED
    BY <1>1, LeastNumber
<1>3. PICK x \in A : b = n - x
  OBVIOUS
<1>4. ASSUME NEW y \in A PROVE y <= x
  <2>1. n - y \in B
    OBVIOUS
  <2>2. b <= n - y
    BY <2>1, <1>2
  <2>3. QED
    BY <2>2, <1>3
<1>5. QED
  BY <1>4

(* Every set of positions can be listed in ascending order. *)
LEMMA Enumeration ==
    ASSUME NEW n \in Nat
    PROVE  \A T \in SUBSET (1 .. n) :
               \E m \in Nat : \E q \in [1 .. m -> T] : Increasing(q) /\ Members(q) = T
<1> DEFINE Listed(T) == \E m \in Nat : \E q \in [1 .. m -> T] : Increasing(q) /\ Members(q) = T
           bad == {k \in Nat : \E T \in SUBSET (1 .. k) : ~Listed(T)}
<1> SUFFICES bad = {}
  OBVIOUS
<1> SUFFICES ASSUME bad # {} PROVE FALSE
  OBVIOUS
<1>1. PICK k \in bad : \A l \in bad : k <= l
  <2>1. bad \in SUBSET Nat
    OBVIOUS
  <2> HIDE DEF bad
  <2>2. QED
    BY <2>1, LeastNumber
<1>2. PICK T \in SUBSET (1 .. k) : ~Listed(T)
  OBVIOUS
<1>3. CASE T = {}
  <2> DEFINE q == [i \in 1 .. 0 |-> i]
  <2>1. q \in [1 .. 0 -> T] /\ Increasing(q) /\ Members(q) = T
    BY <1>3 DEF Increasing, Members
  <2>2. Listed(T)
    BY <2>1
  <2>3. QED
    BY <1>2, <2>2
<1>4. CASE T # {}
  <2>1. k # 0 /\ k - 1 \in Nat /\ k - 1 \notin bad
    <3>1. k \in Nat /\ k # 0
      <4>1. k \in Nat
        OBVIOUS
      <4>2. ASSUME k = 0 PROVE T = {}
        BY <4>2, SMT
      <4>3. QED
        BY <4>1, <4>2, <1>4
    <3>2. k - 1 \in Nat /\ ~(k <= k - 1)
      BY <3>1
    <3> HIDE DEF bad
    <3>3. QED
      BY <1>1, <3>1, <3>2
  <2>2. k \in T
    <3>1. ASSUME k \notin T PROVE FALSE
      <4>1. T \in SUBSET (1 .. k - 1)
        BY <3>1, <2>1
      <4>2. QED
        BY <4>1, <2>1, <1>2
    <3>2. QED
      BY <3>1
  <2> DEFINE U == T \ {k}
  <2>3. U \in SUBSET (1 .. k - 1)
    BY <2>1
  <2>4. PICK m \in Nat : \E q \in [1 .. m -> U] : Increasing(q) /\ Members(q) = U
    BY <2>1, <2>3
  <2>5. PICK q \in [1 .. m -> U] : Increasing(q) /\ Members(q) = U
    BY <2>4
  <2> DEFINE r == [i \in 1 .. m + 1 |-> IF i <= m THEN q[i] ELSE k]
  <2>6. r \in [1 .. m + 1 -> T]
    BY <2>2, <2>5
  <2>7. Increasing(r)
    <3> SUFFICES ASSUME NEW i \in 1 .. m + 1, NEW j \in 1 .. m + 1, i < j PROVE r[i] < r[j]
      BY DEF Increasing
    <3>1. i <= m /\ r[i] = q[i] /\ q[i] \in U /\ q[i] < k
      <4>1. i \in 1 .. m
        OBVIOUS
      <4>2. q[i] \in U
        BY <4>1, <2>5
      <4>3. k \in Nat /\ q[i] \in 1 .. k - 1
        BY <4>2, <2>3
      <4>4. QED
        BY <4>1, <4>2, <4>3
    <3>2. CASE j <= m
      BY <3>1, <3>2, <2>5 DEF Increasing
    <3>3. CASE j = m + 1
      BY <3>1, <3>3
    <3>4. QED
      BY <3>2, <3>3
  <2>8. Members(r) = T
    <3>1. ASSUME NEW x \in T PROVE \E i \in 1 .. m + 1 : r[i] = x
      <4>1. CASE x = k
        <5>1. r[m + 1] = k /\ m + 1 \in 1 .. m + 1
          OBVIOUS
        <5>2. QED
          BY <5>1, <4>1
      <4>2. CASE x # k
        <5>1. PICK i \in 1 .. m : q[i] = x
          BY <4>2, <2>5 DEF Members
        <5>2. i \in 1 .. m + 1 /\ r[i] = x
          BY <5>1
        <5>3. QED
          BY <5>2
      <4>3. QED
        BY <4>1, <4>2
    <3>2. DOMAIN r = 1 .. m + 1
      OBVIOUS
    <3> HIDE DEF r
    <3>3. QED
      BY <3>1, <3>2, <2>6 DEF Members
  <2>9. m + 1 \in Nat
    OBVIOUS
  <2>10. Listed(T)
    <3> HIDE DEF r
    <3>1. QED
      BY <2>6, <2>7, <2>8, <2>9
  <2>11. QED
    BY <1>2, <2>10
<1>5. QED
  BY <1>3, <1>4

(* What the choice in Ascending gives. *)
LEMMA AscendingFacts ==
    ASSUME NEW n \in Nat, NEW T \in SUBSET (1 .. n)
    PROVE  /\ IsFiniteSet(T) /\ Cardinality(T) \in Nat
           /\ Ascending(T) \in [1 .. Cardinality(T) -> T]
           /\ Increasing(Ascending(T))
           /\ Members(Ascending(T)) = T
<1>1. IsFiniteSet(T) /\ Cardinality(T) \in Nat
  <2>1. IsFiniteSet(1 .. n)
    BY FS_Interval
  <2>2. QED
    BY <2>1, FS_Subset, FS_CardinalityType
<1>2. PICK m \in Nat : \E q \in [1 .. m -> T] : Increasing(q) /\ Members(q) = T
  BY Enumeration
<1>3. PICK q \in [1 .. m -> T] : Increasing(q) /\ Members(q) = T
  BY <1>2
<1>4. m = Cardinality(T)
  <2>1. q \in Bijection(1 .. m, T)
    <3>1. \A i, j \in 1 .. m : q[i] = q[j] => i = j
      <4> SUFFICES ASSUME NEW i \in 1 .. m, NEW j \in 1 .. m, q[i] = q[j] PROVE i = j
        OBVIOUS
      <4>1. q[i] \in T /\ q[j] \in T /\ DOMAIN q = 1 .. m
        OBVIOUS
      <4>2. q[i] \in 1 .. n /\ q[j] \in 1 .. n
        BY <4>1, Zenon
      <4>3. (i < j => q[i] < q[j]) /\ (j < i => q[j] < q[i])
        BY <1>3, <4>1 DEF Increasing
      <4>4. QED
        BY <4>2, <4>3
    <3>2. \A t \in T : \E i \in 1 .. m : q[i] = t
      BY <1>3 DEF Members
    <3>3. QED
      BY <3>1, <3>2, <1>3 DEF Bijection, Injection, Surjection, IsInjective
  <2>2. ExistsBijection(1 .. m, T)
    BY <2>1 DEF ExistsBijection
  <2>3. Cardinality(1 .. m) = m /\ IsFiniteSet(1 .. m)
    BY FS_Interval
  <2>4. QED
    BY <2>2, <2>3, FS_Bijection
<1>5. /\ Ascending(T) \in [1 .. Cardinality(T) -> T]
      /\ Increasing(Ascending(T))
  BY <1>3, <1>4 DEF Ascending
<1>6. T \subseteq Members(Ascending(T))
  <2> DEFINE a == Ascending(T)
  <2>1. \A i, j \in 1 .. m : a[i] = a[j] => i = j
    <3> SUFFICES ASSUME NEW i \in 1 .. m, NEW j \in 1 .. m, a[i] = a[j] PROVE i = j
      OBVIOUS
    <3>1. a[i] \in T /\ a[j] \in T /\ DOMAIN a = 1 .. m
      BY <1>4, <1>5
    <3>2. a[i] \in 1 .. n /\ a[j] \in 1 .. n
      BY <3>1, Zenon
    <3>3. (i < j => a[i] < a[j]) /\ (j < i => a[j] < a[i])
      BY <1>5, <3>1 DEF Increasing
    <3>4. QED
      BY <3>2, <3>3
  <2>2. a \in Injection(1 .. m, T)
    BY <2>1, <1>4, <1>5 DEF Injection, IsInjective
  <2>3. IsFiniteSet(1 .. m) /\ Cardinality(1 .. m) = m
    BY FS_Interval
  <2>4. a \in Surjection(1 .. m, T)
    <3> HIDE DEF a
    <3>1. QED
      BY <2>2, <2>3, <1>1, <1>4, FS_Injection
  <2>5. QED
    BY <2>4, <1>4, <1>5 DEF Surjection, Members
<1>7. QED
  BY <1>1, <1>5, <1>6 DEF Members

(* Picking positions of a list. *)
LEMMA PickedFacts ==
    ASSUME NEW S, NEW s \in Seq(S), NEW T \in SUBSET DOMAIN s
    PROVE  /\ IsFiniteSet(T) /\ Cardinality(T) \in Nat
           /\ Picked(s, T) \in Seq(S)
           /\ Len(Picked(s, T)) = Cardinality(T)
           /\ Members(Picked(s, T)) = {s[i] : i \in T}
           /\ (\A i, j \in T : s[i] = s[j] => i = j) => Distinct(Picked(s, T))
           /\ Distinct(s) => Distinct(Picked(s, T))
<1>1. Len(s) \in Nat /\ DOMAIN s = 1 .. Len(s) /\ \A i \in 1 .. Len(s) : s[i] \in S
  BY LenProperties, ElementOfSeq
<1> DEFINE a == Ascending(T)
           c == Cardinality(T)
           p == Picked(s, T)
<1>2. /\ IsFiniteSet(T) /\ c \in Nat /\ a \in [1 .. c -> T]
      /\ Increasing(a) /\ Members(a) = T
  BY <1>1, AscendingFacts
<1>3. p = [k \in 1 .. c |-> s[a[k]]]
  BY DEF Picked
<1> HIDE DEF a, c, p
<1>4. p \in [1 .. c -> S]
  BY <1>1, <1>2, <1>3
<1>5. p \in Seq(S) /\ Len(p) = c
  BY <1>2, <1>4, IsASeq, LenProperties
<1>6. Members(p) = {s[i] : i \in T}
  BY <1>2, <1>3 DEF Members
<1>7. ASSUME \A i, j \in T : s[i] = s[j] => i = j PROVE Distinct(p)
  <2> SUFFICES ASSUME NEW i \in 1 .. c, NEW j \in 1 .. c, p[i] = p[j] PROVE i = j
    BY <1>3 DEF Distinct
  <2>1. a[i] \in T /\ a[j] \in T /\ s[a[i]] = s[a[j]]
    BY <1>2, <1>3
  <2>2. a[i] = a[j]
    BY <2>1, <1>7
  <2>3. a[i] \in Int /\ (i < j => a[i] < a[j]) /\ (j < i => a[j] < a[i])
    BY <1>1, <1>2, <2>1 DEF Increasing
  <2>4. QED
    BY <2>2, <2>3, <1>2
<1>8. Distinct(s) => \A i, j \in T : s[i] = s[j] => i = j
  BY DEF Distinct
<1>9. QED
  BY <1>2, <1>5, <1>6, <1>7, <1>8 DEF c, p

-----------------------------------------------------------------------------
(* The front of a queue whose entries may be repeated. *)
LEMMA TailAnyMembers ==
    ASSUME NEW S, NEW s \in Seq(S), s # <<>>
    PROVE  /\ Head(s) \in S /\ Head(s) \in Members(s)
           /\ Tail(s) \in Seq(S)
           /\ Members(Tail(s)) \subseteq Members(s)
           /\ Members(s) \subseteq Members(Tail(s)) \cup {Head(s)}
<1>1. /\ Len(s) \in Nat \ {0} /\ DOMAIN s = 1 .. Len(s)
      /\ \A i \in 1 .. Len(s) : s[i] \in S
  BY LenProperties, EmptySeq, ElementOfSeq
<1>2. /\ Head(s) = s[1] /\ Tail(s) \in Seq(S) /\ Len(Tail(s)) = Len(s) - 1
      /\ \A i \in 1 .. Len(Tail(s)) : Tail(s)[i] = s[i + 1]
  BY <1>1, HeadTailProperties
<1>3. DOMAIN Tail(s) = 1 .. Len(s) - 1
  BY <1>1, <1>2, LenProperties
<1>4. ASSUME NEW i \in 1 .. Len(s) PROVE s[i] \in Members(Tail(s)) \cup {Head(s)}
  <2>1. CASE i = 1
    BY <2>1, <1>2
  <2>2. CASE i # 1
    <3>1. i - 1 \in 1 .. Len(s) - 1 /\ Tail(s)[i - 1] = s[i]
      BY <2>2, <1>1, <1>2
    <3>2. QED
      BY <3>1, <1>3 DEF Members
  <2>3. QED
    BY <2>1, <2>2
<1>5. ASSUME NEW i \in 1 .. Len(s) - 1 PROVE Tail(s)[i] \in Members(s)
  <2>1. i + 1 \in DOMAIN s /\ Tail(s)[i] = s[i + 1]
    BY <1>1, <1>2
  <2>2. QED
    BY <2>1 DEF Members
<1>6. Head(s) \in S /\ Head(s) \in Members(s)
  BY <1>1, <1>2 DEF Members
<1>7. QED
  BY <1>1, <1>2, <1>3, <1>4, <1>5, <1>6 DEF Members

(* The members of a concatenation are the members of its parts. *)
LEMMA ConcatAnyMembers ==
    ASSUME NEW S, NEW s \in Seq(S), NEW q \in Seq(S)
    PROVE  s \o q \in Seq(S) /\ Members(s \o q) = Members(s) \cup Members(q)
<1>1. /\ Len(s) \in Nat /\ DOMAIN s = 1 .. Len(s)
      /\ Len(q) \in Nat /\ DOMAIN q = 1 .. Len(q)
  BY LenProperties
<1>2. /\ s \o q \in Seq(S)
      /\ Len(s \o q) = Len(s) + Len(q)
      /\ \A i \in 1 .. Len(s) + Len(q) :
            (s \o q)[i] = IF i <= Len(s) THEN s[i] ELSE q[i - Len(s)]
  BY ConcatProperties
<1>3. DOMAIN (s \o q) = 1 .. Len(s) + Len(q)
  BY <1>2, LenProperties
<1>4. Members(s) \subseteq Members(s \o q)
  BY <1>1, <1>2, <1>3 DEF Members
<1>5. ASSUME NEW j \in 1 .. Len(q) PROVE q[j] \in Members(s \o q)
  <2>1. j + Len(s) \in 1 .. Len(s) + Len(q) /\ (s \o q)[j + Len(s)] = q[j]
    BY <1>1, <1>2
  <2>2. QED
    BY <2>1, <1>3 DEF Members
<1>6. ASSUME NEW i \in 1 .. Len(s) + Len(q) PROVE (s \o q)[i] \in Members(s) \cup Members(q)
  <2>1. CASE i <= Len(s)
    BY <2>1, <1>1, <1>2 DEF Members
  <2>2. CASE i > Len(s)
    <3>1. i - Len(s) \in DOMAIN q /\ (s \o q)[i] = q[i - Len(s)]
      BY <2>2, <1>1, <1>2
    <3>2. QED
      BY <3>1 DEF Members
  <2>3. QED
    BY <2>1, <2>2, <1>1
<1>7. QED
  BY <1>1, <1>2, <1>3, <1>4, <1>5, <1>6 DEF Members

(* Appending adds one member. *)
LEMMA AppendMembers ==
    ASSUME NEW S, NEW s \in Seq(S), NEW x \in S
    PROVE  /\ Append(s, x) \in Seq(S)
           /\ Len(Append(s, x)) = Len(s) + 1
           /\ DOMAIN Append(s, x) = 1 .. Len(s) + 1
           /\ \A i \in 1 .. Len(s) : Append(s, x)[i] = s[i]
           /\ Append(s, x)[Len(s) + 1] = x
           /\ Members(Append(s, x)) = Members(s) \cup {x}
           /\ Distinct(s) /\ x \notin Members(s) => Distinct(Append(s, x))
<1> DEFINE a == Append(s, x)
<1>1. Len(s) \in Nat /\ DOMAIN s = 1 .. Len(s)
  BY LenProperties
<1>2. /\ a \in Seq(S) /\ Len(a) = Len(s) + 1
      /\ \A i \in 1 .. Len(s) : a[i] = s[i]
      /\ a[Len(s) + 1] = x
  BY AppendProperties
<1> HIDE DEF a
<1>3. DOMAIN a = 1 .. Len(s) + 1
  BY <1>2, LenProperties
<1>4. ASSUME NEW i \in 1 .. Len(s) + 1 PROVE i \in 1 .. Len(s) \/ i = Len(s) + 1
  BY <1>1
<1>5. Members(a) = Members(s) \cup {x}
  BY <1>1, <1>2, <1>3, <1>4 DEF Members
<1>6. ASSUME Distinct(s), x \notin Members(s) PROVE Distinct(a)
  <2> SUFFICES ASSUME NEW i \in 1 .. Len(s) + 1, NEW j \in 1 .. Len(s) + 1, a[i] = a[j]
               PROVE  i = j
    BY <1>3 DEF Distinct
  <2>1. QED
    BY <1>1, <1>2, <1>4, <1>6 DEF Distinct, Members
<1>7. QED
  BY <1>2, <1>3, <1>5, <1>6 DEF a

(* A list has at most as many members as entries, and as many just when    *)
(* nothing is repeated.                                                    *)
LEMMA MembersCount ==
    ASSUME NEW S, NEW s \in Seq(S)
    PROVE  /\ IsFiniteSet(Members(s)) /\ Cardinality(Members(s)) \in Nat
           /\ Cardinality(Members(s)) <= Len(s)
           /\ Cardinality(Members(s)) = Len(s) <=> Distinct(s)
<1>1. Len(s) \in Nat /\ DOMAIN s = 1 .. Len(s) /\ s \in [1 .. Len(s) -> S]
  BY LenProperties
<1>2. s \in Surjection(1 .. Len(s), Members(s))
  <2>1. s \in [1 .. Len(s) -> Members(s)]
    BY <1>1 DEF Members
  <2>2. QED
    BY <1>1, <2>1 DEF Surjection, Members
<1>3. IsFiniteSet(1 .. Len(s)) /\ Cardinality(1 .. Len(s)) = Len(s)
  BY <1>1, FS_Interval
<1>4. s \in Injection(1 .. Len(s), Members(s)) <=> Distinct(s)
  BY <1>1, <1>2 DEF Injection, IsInjective, Surjection, Distinct
<1>5. QED
  BY <1>2, <1>3, <1>4, FS_Surjection, FS_CardinalityType

(* A list without repetitions of members of another one is no longer than  *)
(* it, and when it is as long neither has repetitions nor other members.   *)
LEMMA Pigeonhole ==
    ASSUME NEW S, NEW s \in Seq(S), NEW r \in Seq(S),
           Distinct(s), Members(s) \subseteq Members(r)
    PROVE  /\ Len(s) <= Len(r)
           /\ Len(s) = Len(r) <=> Distinct(r) /\ Members(s) = Members(r)
<1>1. /\ Cardinality(Members(s)) = Len(s) /\ IsFiniteSet(Members(s))
      /\ Cardinality(Members(r)) <= Len(r) /\ IsFiniteSet(Members(r))
      /\ Cardinality(Members(r)) = Len(r) <=> Distinct(r)
      /\ Cardinality(Members(r)) \in Nat /\ Len(r) \in Nat /\ Len(s) \in Nat
  BY MembersCount, LenProperties
<1>2. /\ Cardinality(Members(s)) <= Cardinality(Members(r))
      /\ Cardinality(Members(s)) = Cardinality(Members(r)) => Members(s) = Members(r)
  BY <1>1, FS_Subset
<1>3. QED
  BY <1>1, <1>2

(* Two increasing listings of one set that agree up to k agree at k. *)
LEMMA NoLess ==
    ASSUME NEW m \in Nat, NEW T \in SUBSET Nat, NEW a \in [1 .. m -> T], NEW q \in [1 .. m -> T],
           Increasing(a), Increasing(q), Members(q) = T,
           NEW k \in 1 .. m, \A j \in 1 .. m : j < k => a[j] = q[j]
    PROVE  ~(a[k] < q[k])
<1> SUFFICES ASSUME a[k] < q[k] PROVE FALSE
  OBVIOUS
<1>1. PICK j \in 1 .. m : q[j] = a[k]
  BY DEF Members
<1>2. a[k] \in Nat /\ q[k] \in Nat /\ q[j] \in Nat
  OBVIOUS
<1>3. CASE j < k
  <2>1. a[j] < a[k]
    BY <1>3 DEF Increasing
  <2>2. QED
    BY <2>1, <1>1, <1>2, <1>3
<1>4. CASE j = k
  BY <1>1, <1>2, <1>4
<1>5. CASE k < j
  <2>1. q[k] < q[j]
    BY <1>5 DEF Increasing
  <2>2. QED
    BY <2>1, <1>1, <1>2
<1>6. QED
  BY <1>3, <1>4, <1>5

(* The increasing listing of a set is its Ascending. *)
LEMMA AscendingIs ==
    ASSUME NEW n \in Nat, NEW T \in SUBSET (1 .. n), NEW m \in Nat,
           NEW q \in [1 .. m -> T], Increasing(q), Members(q) = T
    PROVE  Cardinality(T) = m /\ Ascending(T) = q
<1> DEFINE a == Ascending(T)
<1>1. T \in SUBSET Nat
  OBVIOUS
<1>2. q \in Seq(T) /\ Len(q) = m /\ DOMAIN q = 1 .. m
  BY SeqDef, LenProperties
<1>3. Distinct(q)
  <2> SUFFICES ASSUME NEW i \in 1 .. m, NEW j \in 1 .. m, q[i] = q[j], i # j PROVE FALSE
    BY <1>2 DEF Distinct
  <2>1. i < j \/ j < i
    OBVIOUS
  <2>2. q[i] < q[j] \/ q[j] < q[i]
    BY <1>2, <2>1 DEF Increasing
  <2>3. q[i] < q[i]
    BY <2>2
  <2>4. \A v \in Nat : ~(v < v)
    OBVIOUS
  <2>5. q[i] \in T
    OBVIOUS
  <2>6. QED
    BY <2>3, <2>4, <2>5, <1>1, Zenon
<1>4. Cardinality(T) = m
  BY <1>2, <1>3, MembersCount
<1>5. a \in [1 .. m -> T] /\ Increasing(a) /\ Members(a) = T
  BY <1>4, AscendingFacts
<1> HIDE DEF a
<1>6. ASSUME a # q PROVE FALSE
  <2> DEFINE bad == {k \in 1 .. m : a[k] # q[k]}
  <2>1. bad # {} /\ bad \in SUBSET Nat
    BY <1>5, <1>6
  <2>2. PICK k \in bad : \A j \in bad : k <= j
    BY <2>1, LeastNumber
  <2>3. \A j \in 1 .. m : j < k => a[j] = q[j]
    BY <2>2
  <2>4. ~(a[k] < q[k])
    BY <1>1, <1>5, <2>3, NoLess
  <2>5. ~(q[k] < a[k])
    BY <1>1, <1>5, <2>3, NoLess
  <2>6. a[k] \in Nat /\ q[k] \in Nat /\ a[k] # q[k]
    BY <1>1, <1>5
  <2>7. QED
    BY <2>4, <2>5, <2>6
<1>7. QED
  BY <1>4, <1>6 DEF a

(* A sequence made entry by entry of another. *)
LEMMA SameLength ==
    ASSUME NEW S, NEW s \in Seq(S), NEW q, q = [i \in DOMAIN s |-> q[i]]
    PROVE  Len(q) = Len(s) /\ DOMAIN q = 1 .. Len(s) /\ q \in Seq(Members(q))
<1>1. Len(s) \in Nat /\ DOMAIN s = 1 .. Len(s)
  BY LenProperties
<1>2. DOMAIN q = 1 .. Len(s)
  BY <1>1
<1>3. q \in [1 .. Len(s) -> Members(q)]
  BY <1>1, <1>2 DEF Members
<1>4. q \in Seq(Members(q))
  BY <1>1, <1>3, SeqDef
<1>5. QED
  BY <1>1, <1>2, <1>4, LenProperties

(* All of a list is the list. *)
LEMMA PickedAll ==
    ASSUME NEW S, NEW s \in Seq(S)
    PROVE  Picked(s, DOMAIN s) = s
<1> DEFINE m == Len(s)
           q == [i \in 1 .. m |-> i]
<1>1. m \in Nat /\ DOMAIN s = 1 .. m /\ s = [i \in 1 .. m |-> s[i]]
  BY LenProperties
<1>2. q \in [1 .. m -> 1 .. m] /\ Members(q) = 1 .. m /\ Increasing(q)
  BY DEF Members, Increasing
<1>3. \A i \in 1 .. m : q[i] = i
  OBVIOUS
<1> HIDE DEF m, q
<1>4. Cardinality(1 .. m) = m /\ Ascending(1 .. m) = q
  BY <1>1, <1>2, AscendingIs
<1>5. QED
  BY <1>1, <1>3, <1>4 DEF Picked
==============================================================================
