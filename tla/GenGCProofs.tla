---------------------------- MODULE GenGCProofs ----------------------------
(***************************************************************************)
(* Proofs about GenGC: the inductive invariant behind the safety of the    *)
(* concurrent tenured collection and of the moving young one, and the      *)
(* theorems that no reference dangles, that interning is unique and that   *)
(* every tenured collection frees what was garbage when it began.          *)
(***************************************************************************)
EXTENDS GenGC, FiniteSetTheorems, TLAPS

(***************************************************************************)
(* Numbers, closures and the placement of survivors.                       *)
(***************************************************************************)

(* A set of numbers that is not empty has a least element. *)
LEMMA LeastNumber ==
  ASSUME NEW T \in SUBSET Nat, T # {}
  PROVE  \E x \in T : \A y \in T : x <= y
  <1>1. \E x \in T : \A y \in T : ~ (<<y, x>> \in OpToRel(<, Nat))
    BY NatLessThanWellFounded, WFMin
  <1>2. PICK x \in T : \A y \in T : ~ (<<y, x>> \in OpToRel(<, Nat))
    BY <1>1
  <1>3. \A y \in T : ~ (y < x)
    BY <1>2 DEF OpToRel
  <1> QED BY <1>3

Size == NumTenured + NumYoung

\* One round of a closure, and the rounds up to the m-th.
Round(X, From, Stop) == X \cup (Targets(X \cap From) \ Stop)
IsChain(c, m, S, From, Stop) ==
  c = [n \in 0..m |-> IF n = 0 THEN S ELSE Round(c[n - 1], From, Stop)]

LEMMA SizeNat == Size \in Nat /\ Addr = 1..Size /\ Tenured \subseteq Addr /\ Young \subseteq Addr
  BY SpaceAssumption DEF Size, Addr, Tenured, Young

(* The recursive definition in Closure has a solution. *)
LEMMA ChainExists ==
  ASSUME NEW S, NEW From, NEW Stop, NEW N \in Nat
  PROVE  \E c : IsChain(c, N, S, From, Stop)
  <1> DEFINE T == {m \in 0..N : ~ \E c : IsChain(c, m, S, From, Stop)}
  <1> SUFFICES ASSUME T # {} PROVE FALSE
    OBVIOUS
  <1>0. T \in SUBSET Nat
    OBVIOUS
  <1>1. PICK x \in T : \A y \in T : x <= y
    <2> HIDE DEF T
    <2> QED BY <1>0, LeastNumber
  <1>2. CASE x = 0
    <2> DEFINE c == [n \in 0..0 |-> S]
    <2>1. IsChain(c, 0, S, From, Stop)
      BY DEF IsChain
    <2> QED BY <1>1, <1>2, <2>1
  <1>3. CASE x # 0
    <2>1. x - 1 \in 0..N /\ x - 1 \notin T
      BY <1>1, <1>3
    <2>2. PICK c : IsChain(c, x - 1, S, From, Stop)
      BY <2>1
    <2> DEFINE d == [n \in 0..x |-> IF n = x THEN Round(c[x - 1], From, Stop) ELSE c[n]]
    <2>3. ASSUME NEW n \in 0..x
          PROVE  d[n] = IF n = 0 THEN S ELSE Round(d[n - 1], From, Stop)
      <3>1. CASE n = x
        BY <3>1, <1>3
      <3>2. CASE n # x
        <4>1. n \in 0..(x - 1)
          BY <3>2
        <4>2. c[n] = IF n = 0 THEN S ELSE Round(c[n - 1], From, Stop)
          BY <2>2, <4>1 DEF IsChain
        <4>3. n # 0 => d[n - 1] = c[n - 1]
          BY <4>1
        <4> QED BY <4>2, <4>3, <3>2
      <3> QED BY <3>1, <3>2
    <2>4. d = [n \in 0..x |-> IF n = 0 THEN S ELSE Round(d[n - 1], From, Stop)]
      <3> HIDE DEF d
      <3>1. d = [n \in 0..x |-> d[n]]
        BY DEF d
      <3> QED BY <2>3, <3>1
    <2>5. IsChain(d, x, S, From, Stop)
      BY <2>4 DEF IsChain
    <2> QED BY <1>1, <2>5
  <1> QED BY <1>2, <1>3

LEMMA ClosureChain ==
  ASSUME NEW S, NEW From, NEW Stop
  PROVE  \E c : /\ IsChain(c, Size, S, From, Stop)
                /\ Closure(S, From, Stop) = c[Size]
  <1> DEFINE c == CHOOSE c : c = [n \in 0..(NumTenured + NumYoung) |->
                    IF n = 0 THEN S ELSE c[n - 1] \cup (Targets(c[n - 1] \cap From) \ Stop)]
  <1>1. Closure(S, From, Stop) = c[NumTenured + NumYoung]
    BY DEF Closure
  <1>2. \E d : d = [n \in 0..(NumTenured + NumYoung) |->
                    IF n = 0 THEN S ELSE d[n - 1] \cup (Targets(d[n - 1] \cap From) \ Stop)]
    <2>1. \E d : IsChain(d, Size, S, From, Stop)
      BY ChainExists, SizeNat
    <2> QED BY <2>1 DEF IsChain, Round, Size
  <1>3. c = [n \in 0..(NumTenured + NumYoung) |->
                    IF n = 0 THEN S ELSE c[n - 1] \cup (Targets(c[n - 1] \cap From) \ Stop)]
    BY <1>2
  <1> HIDE DEF c
  <1> QED BY <1>1, <1>3 DEF IsChain, Round, Size

(* A closure contains what it starts from, contains with an object what the *)
(* object refers to, and is contained in every set that does both.          *)
LEMMA ClosureLeast ==
  ASSUME NEW S, NEW From, NEW Stop, NEW C,
         S \subseteq C, Targets(C \cap From) \ Stop \subseteq C
  PROVE  Closure(S, From, Stop) \subseteq C
  <1>1. PICK c : IsChain(c, Size, S, From, Stop) /\ Closure(S, From, Stop) = c[Size]
    BY ClosureChain
  <1> DEFINE T == {m \in 0..Size : ~ (c[m] \subseteq C)}
  <1>2. ASSUME T # {} PROVE FALSE
    <2>0. T \in SUBSET Nat
      OBVIOUS
    <2>1. PICK x \in T : \A y \in T : x <= y
      <3> HIDE DEF T
      <3> QED BY <1>2, <2>0, LeastNumber
    <2>2. c[x] = IF x = 0 THEN S ELSE Round(c[x - 1], From, Stop)
      BY <1>1 DEF IsChain
    <2>3. x # 0
      BY <2>1, <2>2
    <2>4. x - 1 \in 0..Size /\ x - 1 \notin T
      <3>1. x \in 0..Size
        BY <2>1
      <3>2. x - 1 \in 0..Size
        BY <3>1, <2>3, SizeNat
      <3>3. ~ (x <= x - 1)
        BY <3>1
      <3> HIDE DEF T
      <3> QED BY <2>1, <3>2, <3>3
    <2>5. c[x - 1] \subseteq C
      BY <2>4
    <2>6. Targets(c[x - 1] \cap From) \subseteq Targets(C \cap From)
      BY <2>5 DEF Targets
    <2> QED BY <2>1, <2>2, <2>3, <2>5, <2>6 DEF Round
  <1>3. Size \in 0..Size
    BY SizeNat
  <1> QED BY <1>1, <1>2, <1>3

LEMMA ClosureBase ==
  ASSUME NEW S, NEW From, NEW Stop
  PROVE  S \subseteq Closure(S, From, Stop)
  <1>1. PICK c : IsChain(c, Size, S, From, Stop) /\ Closure(S, From, Stop) = c[Size]
    BY ClosureChain
  <1> DEFINE T == {m \in 0..Size : ~ (S \subseteq c[m])}
  <1>2. ASSUME T # {} PROVE FALSE
    <2>0. T \in SUBSET Nat
      OBVIOUS
    <2>1. PICK x \in T : \A y \in T : x <= y
      <3> HIDE DEF T
      <3> QED BY <1>2, <2>0, LeastNumber
    <2>2. c[x] = IF x = 0 THEN S ELSE Round(c[x - 1], From, Stop)
      BY <1>1 DEF IsChain
    <2>3. x # 0
      BY <2>1, <2>2
    <2>4. x - 1 \in 0..Size /\ x - 1 \notin T
      <3>1. x \in 0..Size
        BY <2>1
      <3>2. x - 1 \in 0..Size
        BY <3>1, <2>3, SizeNat
      <3>3. ~ (x <= x - 1)
        BY <3>1
      <3> HIDE DEF T
      <3> QED BY <2>1, <3>2, <3>3
    <2> QED BY <2>1, <2>2, <2>3, <2>4 DEF Round
  <1>3. Size \in 0..Size
    BY SizeNat
  <1> QED BY <1>1, <1>2, <1>3

(* After as many rounds as there are addresses nothing new comes: a round  *)
(* that adds nothing is the last, and every other adds an address.         *)
LEMMA ClosureClosed ==
  ASSUME NEW S \in SUBSET Addr, NEW From, NEW Stop, field \in [Addr -> Addr \cup {Null}]
  PROVE  /\ Closure(S, From, Stop) \subseteq Addr
         /\ Targets(Closure(S, From, Stop) \cap From) \ Stop \subseteq Closure(S, From, Stop)
  <1>1. PICK c : IsChain(c, Size, S, From, Stop) /\ Closure(S, From, Stop) = c[Size]
    BY ClosureChain
  <1>2. \A n \in 0..Size : c[n] = IF n = 0 THEN S ELSE Round(c[n - 1], From, Stop)
    BY <1>1 DEF IsChain
  <1>3. Closure(S, From, Stop) \subseteq Addr
    BY ClosureLeast DEF Targets
  <1> DEFINE Grown(n) == c[n] \in SUBSET Addr /\ (Round(c[n], From, Stop) = c[n] \/ Cardinality(c[n]) >= n + 1)
             T == {m \in 0..Size : ~ Grown(m)}
  <1>4. IsFiniteSet(Addr) /\ Cardinality(Addr) = Size
    BY FS_Interval, SizeNat
  <1>5. ASSUME T # {} PROVE FALSE
    <2>0. T \in SUBSET Nat
      OBVIOUS
    <2>1. PICK x \in T : \A y \in T : x <= y
      <3> HIDE DEF T
      <3> QED BY <1>5, <2>0, LeastNumber
    <2>2. CASE x = 0
      <3>1. c[0] = S /\ IsFiniteSet(S) /\ Cardinality(S) \in Nat
        BY <1>2, <1>4, <2>2, FS_Subset, FS_CardinalityType
      <3>2. CASE S = {}
        BY <3>1, <3>2, <2>1, <2>2 DEF Round, Targets
      <3>3. CASE S # {}
        <4>1. Cardinality(S) # 0
          BY <3>1, <3>3, FS_EmptySet
        <4> QED BY <3>1, <4>1, <2>1, <2>2
      <3> QED BY <3>2, <3>3
    <2>3. CASE x # 0
      <3>1. x - 1 \in 0..Size /\ Grown(x - 1)
        <4>1. x \in 0..Size
          BY <2>1
        <4>2. x - 1 \in 0..Size
          BY <4>1, <2>3, SizeNat
        <4>3. ~ (x <= x - 1)
          BY <4>1
        <4>4. x - 1 \notin T
          <5> HIDE DEF T
          <5> QED BY <2>1, <4>2, <4>3
        <4> HIDE DEF Grown
        <4> QED BY <4>2, <4>4
      <3>2. c[x] = Round(c[x - 1], From, Stop)
        BY <1>2, <2>3
      <3>3. c[x] \in SUBSET Addr
        BY <3>1, <3>2 DEF Round, Targets
      <3>4. CASE Round(c[x - 1], From, Stop) = c[x - 1]
        BY <3>2, <3>4, <3>3, <2>1
      <3>5. CASE Round(c[x - 1], From, Stop) # c[x - 1]
        <4>1. c[x - 1] \in SUBSET c[x] /\ c[x - 1] # c[x]
          BY <3>2, <3>5 DEF Round
        <4>2. IsFiniteSet(c[x]) /\ IsFiniteSet(c[x - 1])
          BY <3>1, <3>3, <1>4, FS_Subset
        <4>3. Cardinality(c[x - 1]) <= Cardinality(c[x]) /\ Cardinality(c[x]) # Cardinality(c[x - 1])
          BY <4>1, <4>2, FS_Subset
        <4>4. Cardinality(c[x]) \in Nat /\ Cardinality(c[x - 1]) \in Nat
          BY <4>2, FS_CardinalityType
        <4>5. Cardinality(c[x - 1]) >= x
          BY <3>1, <3>5
        <4>6. Cardinality(c[x]) >= x + 1
          BY <4>3, <4>4, <4>5
        <4> QED BY <2>1, <3>3, <4>6
      <3> QED BY <3>4, <3>5
    <2> QED BY <2>2, <2>3
  <1>6. Grown(Size)
    BY <1>5, SizeNat
  <1>7. Cardinality(c[Size]) <= Size /\ Cardinality(c[Size]) \in Nat
    BY <1>6, <1>4, FS_Subset, FS_CardinalityType
  <1>8. Round(c[Size], From, Stop) = c[Size]
    BY <1>6, <1>7, SizeNat
  <1> QED BY <1>1, <1>3, <1>8 DEF Round

(* A finite set of numbers that is not empty has a greatest element. *)
LEMMA GreatestNumber ==
  ASSUME NEW N \in Nat, NEW A \in SUBSET (1..N), A # {}
  PROVE  \E x \in A : \A y \in A : y <= x
  <1> DEFINE T == {m \in 0..N : \A y \in A : y <= m}
  <1>1. T \in SUBSET Nat /\ N \in T
    OBVIOUS
  <1>2. PICK x \in T : \A y \in T : x <= y
    <2> HIDE DEF T
    <2> QED BY <1>1, LeastNumber
  <1>3. x \in 0..N /\ \A y \in A : y <= x
    BY <1>2
  <1>4. CASE x \in A
    BY <1>3, <1>4
  <1>5. CASE x \notin A
    <2>1. \A y \in A : y \in 1..N /\ y # x
      BY <1>5
    <2>2. x # 0
      <3>1. PICK y \in A : TRUE
        OBVIOUS
      <3>2. y \in 1..N /\ y <= x
        BY <1>3
      <3> QED BY <3>2
    <2>3. x - 1 \in T
      BY <1>3, <2>1, <2>2
    <2>4. ~ (x <= x - 1)
      BY <1>3
    <2> HIDE DEF T
    <2> QED BY <1>2, <2>3, <2>4
  <1> QED BY <1>4, <1>5

(* Survivors fit, in address order, into as many free slots. *)
LEMMA Placement ==
  ASSUME NEW N \in Nat, NEW A0 \in SUBSET (1..N), NEW B0 \in SUBSET (1..N),
         Cardinality(A0) <= Cardinality(B0)
  PROVE  \E f \in [A0 -> B0] : \A a, b \in A0 : a < b => f[a] < f[b]
  <1> DEFINE Fits(A, B) == \E f \in [A -> B] : \A a, b \in A : a < b => f[a] < f[b]
             Bad(n) == \E A \in SUBSET (1..N), B \in SUBSET (1..N) :
                          Cardinality(A) = n /\ Cardinality(A) <= Cardinality(B) /\ ~ Fits(A, B)
             T == {n \in Nat : Bad(n)}
  <1>0. \A A \in SUBSET (1..N) : IsFiniteSet(A) /\ Cardinality(A) \in Nat
    <2>1. IsFiniteSet(1..N)
      BY FS_Interval
    <2>2. \A A \in SUBSET (1..N) : IsFiniteSet(A)
      BY <2>1, FS_Subset
    <2> QED BY <2>2, FS_CardinalityType
  <1>1. ASSUME T # {} PROVE FALSE
    <2>1. PICK n \in T : \A y \in T : n <= y
      <3>1. T \in SUBSET Nat
        OBVIOUS
      <3> HIDE DEF T
      <3> QED BY <1>1, <3>1, LeastNumber
    <2>2. PICK A \in SUBSET (1..N), B \in SUBSET (1..N) :
                 Cardinality(A) = n /\ Cardinality(A) <= Cardinality(B) /\ ~ Fits(A, B)
      BY <2>1
    <2>3. A # {}
      <3> SUFFICES ASSUME A = {} PROVE FALSE
        OBVIOUS
      <3>1. [a \in A |-> 0] \in [A -> B]
        OBVIOUS
      <3> QED BY <2>2, <3>1
    <2>4. n \in Nat /\ n # 0
      BY <2>1, <2>2, <2>3, <1>0, FS_EmptySet
    <2>5. B # {}
      BY <2>2, <2>4, <1>0, FS_EmptySet
    <2>6. PICK ma \in A : \A y \in A : y <= ma
      BY <2>3, GreatestNumber
    <2>7. PICK mb \in B : \A y \in B : y <= mb
      BY <2>5, GreatestNumber
    <2> DEFINE A1 == A \ {ma}
               B1 == B \ {mb}
    <2>8. Cardinality(A1) = n - 1 /\ Cardinality(B1) = Cardinality(B) - 1
      BY <1>0, <2>2, <2>6, <2>7, FS_RemoveElement
    <2>9. Fits(A1, B1)
      <3>1. n - 1 \in Nat /\ ~ (n <= n - 1)
        BY <2>4
      <3>2. n - 1 \notin T
        <4> HIDE DEF T
        <4> QED BY <2>1, <3>1
      <3>3. ~ Bad(n - 1)
        <4> HIDE DEF Bad
        <4> QED BY <3>1, <3>2
      <3>4. A1 \in SUBSET (1..N) /\ B1 \in SUBSET (1..N)
        OBVIOUS
      <3>5. Cardinality(A1) <= Cardinality(B1)
        BY <2>2, <2>4, <2>8, <1>0
      <3> HIDE DEF Fits, A1, B1
      <3> QED BY <3>3, <3>4, <3>5, <2>8
    <2>10. PICK f \in [A1 -> B1] : \A a, b \in A1 : a < b => f[a] < f[b]
      BY <2>9
    <2> DEFINE g == [a \in A |-> IF a = ma THEN mb ELSE f[a]]
    <2>11. g \in [A -> B]
      BY <2>10
    <2>12. ASSUME NEW a \in A, NEW b \in A, a < b
           PROVE  g[a] < g[b]
      <3>1. a \in 1..N /\ b \in 1..N /\ ma \in 1..N /\ b <= ma
        BY <2>6
      <3>2. a # ma
        BY <3>1, <2>12
      <3>3. f[a] \in B /\ f[a] # mb
        BY <3>2, <2>10
      <3>4. f[a] \in 1..N /\ mb \in 1..N /\ f[a] <= mb
        BY <3>3, <2>7
      <3>5. CASE b = ma
        BY <3>2, <3>3, <3>4, <3>5
      <3>6. CASE b # ma
        BY <3>2, <3>6, <2>10, <2>12
      <3> QED BY <3>5, <3>6
    <2> QED
      <3> HIDE DEF g
      <3> QED BY <2>2, <2>11, <2>12
  <1>2. ~ Bad(Cardinality(A0))
    <2> HIDE DEF Bad
    <2> QED BY <1>0, <1>1
  <1> QED BY <1>2

(***************************************************************************)
(* Cards.                                                                  *)
(***************************************************************************)
LEMMA CardBounds ==
  ASSUME NEW n \in Nat, NEW d \in Nat \ {0}
  PROVE  /\ n \div d \in Nat
         /\ n % d \in 0..(d - 1)
         /\ n = d * (n \div d) + (n % d)
  <1> DEFINE q == n \div d
             r == n % d
  <1>1. q \in Nat
    OBVIOUS
  <1>2. r \in 0..(d - 1)
    OBVIOUS
  <1>3. r = n - d * q
    OBVIOUS
  <1> HIDE DEF q, r
  <1>4. n = d * q + r
    BY <1>1, <1>2, <1>3
  <1> QED BY <1>1, <1>2, <1>4 DEF q, r

LEMMA QuotientUnique ==
  ASSUME NEW d \in Nat \ {0}, NEW q \in Nat, NEW p \in Nat,
         d * q < d * p + d, d * p < d * q + d
  PROVE  q = p
  <1>1. ASSUME q < p PROVE FALSE
    <2>1. d * (q + 1) <= d * p
      BY <1>1
    <2> QED BY <2>1
  <1>2. ASSUME p < q PROVE FALSE
    <2>1. d * (p + 1) <= d * q
      BY <1>2
    <2> QED BY <2>1
  <1> QED BY <1>1, <1>2

(* The card that begins at slot b holds the slots b to b + CardSize - 1. *)
LEMMA CardExtent ==
  ASSUME NEW b \in Nat, b >= 1, (b - 1) % CardSize = 0, NEW a \in Nat, a >= 1
  PROVE  CardOf(a) = CardOf(b) <=> b <= a /\ a < b + CardSize
  <1> DEFINE d == CardSize
             q == (b - 1) \div d
             p == (a - 1) \div d
             r == (a - 1) % d
  <1>1. d \in Nat \ {0} /\ b - 1 \in Nat /\ a - 1 \in Nat
    BY SpaceAssumption
  <1>2. q \in Nat /\ b - 1 = d * q
    BY <1>1, CardBounds
  <1>3. p \in Nat /\ r \in 0..(d - 1) /\ a - 1 = d * p + r
    BY <1>1, CardBounds
  <1>4. d * q \in Nat /\ d * p \in Nat
    BY <1>1, <1>2, <1>3
  <1> HIDE DEF d, q, p, r
  <1>5. ASSUME p = q PROVE b <= a /\ a < b + d
    BY <1>1, <1>2, <1>3, <1>4, <1>5
  <1>6. ASSUME b <= a, a < b + d PROVE p = q
    <2>1. d * p < d * q + d
      BY <1>1, <1>2, <1>3, <1>4, <1>6
    <2>2. d * q < d * p + d
      BY <1>1, <1>2, <1>3, <1>4, <1>6
    <2> QED BY <1>1, <1>2, <1>3, <2>1, <2>2, QuotientUnique
  <1> QED BY <1>5, <1>6 DEF d, p, q, CardOf

LEMMA CardOfType ==
  ASSUME NEW a \in Addr
  PROVE  CardOf(a) \in Cards
  BY DEF CardOf, Cards

(* The next card begins CardSize slots further, and the tenured space ends *)
(* with a card.                                                            *)
LEMMA CardStep ==
  ASSUME NEW b \in Nat, b >= 1, (b - 1) % CardSize = 0
  PROVE  (b + CardSize - 1) % CardSize = 0 /\ b + CardSize >= 1
  <1> DEFINE d == CardSize
             q == (b - 1) \div d
             m == b + d - 1
             p == m \div d
             r == m % d
  <1>1. d \in Nat \ {0} /\ b - 1 \in Nat /\ m \in Nat
    BY SpaceAssumption
  <1>2. q \in Nat /\ b - 1 = d * q
    BY <1>1, CardBounds
  <1>3. p \in Nat /\ r \in 0..(d - 1) /\ m = d * p + r
    BY <1>1, CardBounds
  <1>4. m = b + d - 1
    OBVIOUS
  <1>9. r = (b + CardSize - 1) % CardSize
    OBVIOUS
  <1> HIDE DEF d, q, m, p, r
  <1>5. d * (q + 1) = d * q + d /\ d * (q + 1) \in Nat /\ d * p \in Nat /\ d * q \in Nat
    BY <1>1, <1>2, <1>3
  <1>6. d * (q + 1) = d * p + r
    BY <1>1, <1>2, <1>3, <1>4, <1>5
  <1>7. q + 1 = p
    <2>1. d * (q + 1) < d * p + d /\ d * p < d * (q + 1) + d
      BY <1>1, <1>3, <1>5, <1>6
    <2> QED BY <1>1, <1>2, <1>3, <2>1, QuotientUnique
  <1>8. r = 0
    BY <1>3, <1>5, <1>6, <1>7
  <1> QED BY <1>8, <1>9, SpaceAssumption

LEMMA TenuredCard ==
  ASSUME NEW b \in Tenured, (b - 1) % CardSize = 0
  PROVE  b + CardSize <= NumTenured + 1
  <1> DEFINE d == CardSize
             q == (b - 1) \div d
             p == NumTenured \div d
             n == NumTenured
             r == (b - 1) % d
             o == n % d
  <1>1. d \in Nat \ {0} /\ b \in Nat /\ b - 1 \in Nat /\ n \in Nat /\ b <= n
    BY SpaceAssumption DEF Tenured
  <1>10. r = 0 /\ o = 0
    BY SpaceAssumption
  <1>11. q \in Nat /\ b - 1 = d * q + r
    BY <1>1, CardBounds, Zenon
  <1>12. p \in Nat /\ n = d * p + o
    BY <1>1, CardBounds, Zenon
  <1> HIDE DEF d, q, p, n, r, o
  <1>2. q \in Nat /\ b - 1 = d * q
    BY <1>1, <1>10, <1>11
  <1>3. p \in Nat /\ n = d * p
    BY <1>1, <1>10, <1>12
  <1>4. d * p \in Nat /\ d * q \in Nat
    BY <1>1, <1>2, <1>3
  <1>5. d * q < d * p
    BY <1>1, <1>2, <1>3, <1>4
  <1>6. q < p
    <2> SUFFICES ASSUME p <= q PROVE FALSE
      BY <1>2, <1>3
    <2>1. d * p <= d * q
      BY <1>1, <1>2, <1>3
    <2> QED BY <2>1, <1>4, <1>5
  <1>7. d * (q + 1) <= d * p
    BY <1>1, <1>2, <1>3, <1>6
  <1>8. d * (q + 1) = d * q + d
    BY <1>1, <1>2
  <1>9. b + d <= n + 1
    BY <1>1, <1>2, <1>3, <1>4, <1>7, <1>8
  <1> QED BY <1>9 DEF d, n

(***************************************************************************)
(* The inductive invariant.                                                *)
(***************************************************************************)
Interned == table \cup internal

Initialising == {"bits", "setMark", "recheck", "class"}

\* The phases between the two pauses of a tenured collection, those before
\* the visit of the cards, and those after the internal strings were visited.
Marking == {"class", "drain1", "visitStrings", "drain2", "cards", "objects", "drain3"}
BeforeCards == {"class", "drain1", "visitStrings", "drain2"}
AfterStrings == {"drain2", "cards", "objects", "drain3"}

\* What may be used: an object that was not garbage when the marking began
\* and that a sweep in progress will not free.
Live(a) == /\ Object(a)
           /\ a \notin garbage
           /\ gcpc = "sweep" /\ a \in Tenured /\ at <= a => a \in mark

\* An object whose field was written by a thread that has not run the barrier.
Pending(a) == \E t \in Threads : op[t].pc = "barrier" /\ op[t].addr = a

\* The visit of the cards has not come to a.
Unvisited(a) == gcpc \in BeforeCards \/ (gcpc \in {"cards", "objects"} /\ at <= a)

\* Only instances have a field; references into the young space, and out of
\* it, are on the cards.
FieldsOK ==
  /\ \A a \in Addr : cls[a] # "inst" => field[a] = Null
  /\ \A a \in Tenured : field[a] \in Young => card[CardOf(a)] # "clear" \/ Pending(a)
  /\ \A a \in Young : field[a] # Null => card[CardOf(a)] = "marked" \/ Pending(a)

\* What a thread holds inside an operation.
OpOK(t) ==
  /\ op[t].pc \in Initialising => op[t].addr \in Tenured /\ cls[op[t].addr] = "blank"
  /\ op[t].pc \in {"setMark", "recheck"} => gcpc \in {"sweep", "unmark", "end"}
  /\ op[t].pc \in {"recheck", "class"} /\ gcpc = "sweep" => op[t].addr \in mark
  /\ op[t].pc \in {"barrier", "weakInsert", "internalInsert", "record"} => op[t].addr # Null /\ Live(op[t].addr)
  /\ op[t].pc = "barrier" => cls[op[t].addr] = "inst"
  /\ op[t].pc \in {"weakInsert", "internalInsert"} => cls[op[t].addr] = op[t].str
  /\ op[t].pc = "internalInsert" => op[t].addr \in Tenured
  /\ op[t].pc = "record" => op[t].addr \in internal
  /\ op[t].pc \in {"weakTable", "weakNew", "weakInsert", "internalGet", "internalNew", "internalInsert"}
        => op[t].str \in Strings

OpsOK == /\ \A t \in Threads : OpOK(t)
         /\ \A t, u \in Threads : /\ op[t].pc \in Initialising /\ op[u].pc \in Initialising
                                  /\ op[t].addr = op[u].addr
                                  => t = u

\* A reference that the program can follow: to a live object, and if that is a
\* string then to an interned one.
GoodRef(v) == v # Null => Live(v) /\ (cls[v] \in Strings => v \in Interned)

HeapOK == /\ Live(ClassObject) /\ GoodRef(ClassObject)
          /\ \A a \in Addr : Live(a) => GoodRef(field[a])
          /\ \A t \in Threads, r \in Regs : GoodRef(reg[t][r])

StringsOK == /\ \A a \in Interned : Live(a) /\ cls[a] \in Strings
             /\ internal \subseteq Tenured
             /\ newStrings \subseteq internal
             /\ \A a, b \in table : cls[a] = cls[b] => a = b
             /\ \A a, b \in internal : cls[a] = cls[b] => a = b

\* The marking: nothing dead is marked; a marked object that is not on the
\* stack refers to a marked one unless its card will still be visited; the
\* roots that no pause visits again are marked once visited.
MarksOK ==
  gcpc \in Marking =>
     /\ \A a \in mark : Live(a)
     /\ stack \subseteq mark
     /\ \A a \in (mark \ stack) \cap Tenured : 
           field[a] \in Tenured \ mark =>
              \/ Pending(a)
              \/ card[CardOf(a)] = "marked"
              \/ card[CardOf(a)] = "processed" /\ Unvisited(a)
     /\ gcpc # "class" => ClassObject \in mark
     /\ gcpc \in AfterStrings =>
           \A a \in internal : a \in mark \/ a \in newStrings
                                 \/ \E t \in Threads : op[t].pc = "record" /\ op[t].addr = a

\* The young space holds stale marks only while no young collection can move.
YoungMarksOK ==
  /\ gcpc \in {"sweep", "unmark", "end"} => mark \cap Young = {}
  /\ gcpc = "idle" /\ mark \cap Young # {} => Cardinality(Free(Tenured)) < MoveReserve

PhaseOK ==
  /\ gcpc = "initial" => Stopped
  /\ gcpc \in {"visitStrings"} \cup AfterStrings => recording
  /\ gcpc = "drain2" => at = 1
  /\ gcpc = "cards" => at \in Addr /\ (at - 1) % CardSize = 0
  /\ gcpc = "objects" => at \in Tenured
  /\ gcpc = "sweep" => at \in 1..(NumTenured + 1)
  /\ garbage # {} => gcpc \in Marking \cup {"sweep"}
  /\ \A a \in garbage : Object(a)
  /\ gcpc = "sweep" => \A a \in garbage : at <= a /\ a \notin mark

Inv == /\ TypeOK /\ FieldsOK /\ OpsOK /\ HeapOK /\ StringsOK
       /\ MarksOK /\ YoungMarksOK /\ PhaseOK

(***************************************************************************)
(* Types.                                                                  *)
(***************************************************************************)
LEMMA ReturnType ==
  ASSUME TypeOK, NEW t \in Threads, NEW a \in Addr \cup {Null}, Return(t, a)
  PROVE  /\ reg' \in [Threads -> [Regs -> Addr \cup {Null}]]
         /\ op' \in [Threads -> [pc : OpPcs, addr : Addr \cup {Null}, str : {"inst"} \cup Strings]]
  BY DEF TypeOK, Return, Idle, OpPcs

LEMMA LookUpType ==
  ASSUME TypeOK, NEW t \in Threads, NEW tab \in SUBSET Addr, NEW s \in {"inst"} \cup Strings,
         NEW pc \in OpPcs, LookUp(t, tab, s, pc)
  PROVE  /\ reg' \in [Threads -> [Regs -> Addr \cup {Null}]]
         /\ op' \in [Threads -> [pc : OpPcs, addr : Addr \cup {Null}, str : {"inst"} \cup Strings]]
  <1>1. ASSUME NEW a \in Found(tab, s), Return(t, a)
        PROVE  /\ reg' \in [Threads -> [Regs -> Addr \cup {Null}]]
               /\ op' \in [Threads -> [pc : OpPcs, addr : Addr \cup {Null}, str : {"inst"} \cup Strings]]
    <2>1. a \in Addr
      BY DEF Found
    <2> QED BY <1>1, <2>1, ReturnType
  <1>2. ASSUME op' = [op EXCEPT ![t] = [pc |-> pc, addr |-> Null, str |-> s]], UNCHANGED reg
        PROVE  /\ reg' \in [Threads -> [Regs -> Addr \cup {Null}]]
               /\ op' \in [Threads -> [pc : OpPcs, addr : Addr \cup {Null}, str : {"inst"} \cup Strings]]
    BY <1>2 DEF TypeOK
  <1> QED BY <1>1, <1>2 DEF LookUp

(***************************************************************************)
(* Steps of a thread that leave the heap and the string tables alone.      *)
(***************************************************************************)
LEMMA LiveFrame ==
  ASSUME UNCHANGED <<cls, mark, gcpc, at, garbage>>
  PROVE  /\ \A a : Object(a)' <=> Object(a)
         /\ \A a : Live(a)' <=> Live(a)
  BY DEF Object, Live

(* Such a step keeps the invariant if what the thread holds and what its   *)
(* registers refer to is right, and no barrier or record is given up.      *)
LEMMA QuietStep ==
  ASSUME Inv, NEW t \in Threads,
         UNCHANGED <<heapVars, stringVars, gcVars, garbage>>,
         ops' \in 0..MaxOps,
         op' \in [Threads -> [pc : OpPcs, addr : Addr \cup {Null}, str : {"inst"} \cup Strings]],
         reg' \in [Threads -> [Regs -> Addr \cup {Null}]],
         \A u \in Threads \ {t} : op'[u] = op[u] /\ reg'[u] = reg[u],
         op[t].pc \notin {"barrier", "record"},
         op'[t].pc \notin Initialising,
         OpOK(t)',
         gcpc # "initial",
         \A r \in Regs : GoodRef(reg'[t][r])
  PROVE  Inv'
  <1> USE DEF heapVars, stringVars, gcVars
  <1>1. /\ \A a : Object(a)' <=> Object(a)
        /\ \A a : Live(a)' <=> Live(a)
    BY LiveFrame
  <1>2. TypeOK'
    BY DEF TypeOK, Inv
  <1>3. \A a : Pending(a) => Pending(a)'
    BY DEF Pending
  <1>4. FieldsOK'
    BY <1>3 DEF FieldsOK, Inv
  <1>5. OpsOK'
    <2>1. ASSUME NEW u \in Threads, u # t PROVE OpOK(u)'
      <3>1. op'[u] = op[u] /\ OpOK(u)
        BY <2>1 DEF Inv, OpsOK
      <3> QED BY <1>1, <3>1 DEF OpOK
    <2> QED BY <2>1 DEF OpsOK, Inv
  <1>6. HeapOK'
    <2>1. \A v : GoodRef(v) <=> GoodRef(v)'
      BY <1>1 DEF GoodRef, Interned
    <2>2. ASSUME NEW u \in Threads, NEW r \in Regs PROVE GoodRef(reg[u][r])'
      BY <2>1 DEF Inv, HeapOK
    <2> QED BY <2>1, <2>2, <1>1 DEF HeapOK, Inv
  <1>7. StringsOK'
    BY <1>1 DEF StringsOK, Inv, Interned
  <1>8. MarksOK'
    <2>1. \A u \in Threads : op[u].pc = "record" => op'[u] = op[u]
      OBVIOUS
    <2>2. \A a : Unvisited(a)' <=> Unvisited(a)
      BY DEF Unvisited
    <2> QED BY <2>1, <2>2, <1>1, <1>3 DEF MarksOK, Inv
  <1>9. YoungMarksOK'
    BY DEF YoungMarksOK, Free, Inv
  <1>10. PhaseOK'
    BY <1>1 DEF PhaseOK, Inv
  <1> QED BY <1>2, <1>4, <1>5, <1>6, <1>7, <1>8, <1>9, <1>10 DEF Inv

(* A reference taken from a register or a live object's field is good. *)
LEMMA BaseGood ==
  ASSUME Inv, NEW t \in Threads, NEW b \in Bases(t)
  PROVE  b \in Addr /\ Live(b) /\ cls[b] = "inst" /\ GoodRef(field[b])
  <1>1. CASE b = ClassObject
    BY <1>1, SizeNat DEF Bases, Inv, HeapOK, ClassObject, Live, Object
  <1>2. CASE b # ClassObject
    BY <1>2 DEF Bases, Inv, HeapOK, GoodRef, Live, Object
  <1> QED BY <1>1, <1>2

LEMMA OpsBound ==
  ASSUME Inv, NEW t \in Threads
  PROVE  (Begins(t) => ops' \in 0..MaxOps) /\ (\A pc : Continues(t, pc) => ops' \in 0..MaxOps) /\ (UNCHANGED ops => ops' \in 0..MaxOps)
  BY ThreadAssumption DEF Inv, TypeOK, Begins, Continues

LEMMA LoadInv ==
  ASSUME Inv, NEW t \in Threads, Load(t)
  PROVE  Inv'
  <1>1. PICK b \in Bases(t), r \in Regs : reg' = [reg EXCEPT ![t][r] = field[b]]
    BY DEF Load
  <1>2. b \in Addr /\ GoodRef(field[b])
    BY BaseGood
  <1>3. reg' \in [Threads -> [Regs -> Addr \cup {Null}]]
    BY <1>1, <1>2 DEF Inv, TypeOK
  <1>4. \A u \in Threads \ {t} : reg'[u] = reg[u]
    BY <1>1 DEF Inv, TypeOK
  <1>5. \A q \in Regs : GoodRef(reg'[t][q])
    BY <1>1, <1>2 DEF Inv, TypeOK, HeapOK
  <1>6. ops' \in 0..MaxOps /\ op[t].pc = "run" /\ op' = op /\ WorldRuns
    BY OpsBound DEF Load, Begins
  <1>7. OpOK(t)'
    BY <1>6 DEF OpOK, Initialising
  <1> QED BY <1>3, <1>4, <1>5, <1>6, <1>7, QuietStep DEF Load, Inv, TypeOK, Initialising, WorldRuns

LEMMA DropInv ==
  ASSUME Inv, NEW t \in Threads, Drop(t)
  PROVE  Inv'
  <1>1. PICK r \in Regs : reg' = [reg EXCEPT ![t][r] = Null]
    BY DEF Drop
  <1>3. reg' \in [Threads -> [Regs -> Addr \cup {Null}]]
    BY <1>1 DEF Inv, TypeOK
  <1>4. \A u \in Threads \ {t} : reg'[u] = reg[u]
    BY <1>1 DEF Inv, TypeOK
  <1>5. \A q \in Regs : GoodRef(reg'[t][q])
    BY <1>1 DEF Inv, TypeOK, HeapOK, GoodRef
  <1>6. ops' \in 0..MaxOps /\ op[t].pc = "run" /\ op' = op /\ WorldRuns
    BY OpsBound DEF Drop, Begins
  <1>7. OpOK(t)'
    BY <1>6 DEF OpOK, Initialising
  <1> QED BY <1>3, <1>4, <1>5, <1>6, <1>7, QuietStep DEF Drop, Inv, TypeOK, Initialising, WorldRuns

LEMMA InternedGood ==
  ASSUME Inv, NEW a \in Interned
  PROVE  a \in Addr /\ a # Null /\ GoodRef(a) /\ Live(a)
  BY SizeNat DEF Inv, StringsOK, GoodRef, Live, Object, Null

LEMMA LookUpInv ==
  ASSUME Inv, NEW t \in Threads, NEW tab \in {table, internal}, NEW s \in Strings,
         NEW pc \in {"weakTable", "weakNew", "internalGet", "internalNew"},
         LookUp(t, tab, s, pc), ops' \in 0..MaxOps, gcpc # "initial",
         op[t].pc \notin {"barrier", "record"}
  PROVE  Inv'
  <1>1. CASE \E a \in Found(tab, s) : Return(t, a)
    <2>1. PICK a \in Found(tab, s) : Return(t, a)
      BY <1>1
    <2>2. a \in Interned
      BY DEF Found, Interned
    <2>3. a \in Addr /\ GoodRef(a)
      BY <2>2, InternedGood
    <2>4. PICK r \in Regs : reg' = [reg EXCEPT ![t][r] = a]
      BY <2>1 DEF Return
    <2>5. \A q \in Regs : GoodRef(reg'[t][q])
      BY <2>3, <2>4 DEF Inv, TypeOK, HeapOK
    <2>6. op' = [op EXCEPT ![t] = Idle]
      BY <2>1 DEF Return
    <2>7. op'[t].pc = "run"
      BY <2>6 DEF Inv, TypeOK, Idle
    <2>8. OpOK(t)'
      BY <2>7 DEF OpOK, Initialising
    <2>9. \A u \in Threads \ {t} : op'[u] = op[u] /\ reg'[u] = reg[u]
      BY <2>4, <2>6 DEF Inv, TypeOK
    <2>10. op'[t].pc \notin Initialising
      BY <2>7 DEF Initialising
    <2> QED BY <2>1, <2>3, <2>5, <2>8, <2>9, <2>10, ReturnType, QuietStep DEF LookUp, Inv
  <1>2. CASE op' = [op EXCEPT ![t] = [pc |-> pc, addr |-> Null, str |-> s]] /\ UNCHANGED reg
    <2>1. op'[t].pc = pc /\ op'[t].str = s
      BY <1>2 DEF Inv, TypeOK
    <2>2. OpOK(t)'
      BY <2>1 DEF OpOK, Initialising
    <2>3. op' \in [Threads -> [pc : OpPcs, addr : Addr \cup {Null}, str : {"inst"} \cup Strings]]
      BY <1>2 DEF Inv, TypeOK, OpPcs
    <2>4. \A u \in Threads \ {t} : op'[u] = op[u] /\ reg'[u] = reg[u]
      BY <1>2 DEF Inv, TypeOK
    <2>5. op'[t].pc \notin Initialising
      BY <2>1 DEF Initialising
    <2>6. \A q \in Regs : GoodRef(reg'[t][q])
      BY <1>2 DEF Inv, TypeOK, HeapOK
    <2>7. reg' \in [Threads -> [Regs -> Addr \cup {Null}]]
      BY <1>2 DEF Inv, TypeOK
    <2> QED BY <2>2, <2>3, <2>4, <2>5, <2>6, <2>7, QuietStep DEF LookUp
  <1> QED BY <1>1, <1>2 DEF LookUp

LEMMA LookUpsInv ==
  ASSUME Inv, NEW t \in Threads,
         (\E s \in Strings : GetOrInternString(t, s) \/ GetOrInternInternalString(t, s))
           \/ WeakTable(t) \/ InternalGet(t)
  PROVE  Inv'
  <1>1. ASSUME NEW s \in Strings, GetOrInternString(t, s) PROVE Inv'
    BY <1>1, OpsBound, LookUpInv DEF GetOrInternString, Begins, WorldRuns
  <1>2. ASSUME NEW s \in Strings, GetOrInternInternalString(t, s) PROVE Inv'
    BY <1>2, OpsBound, LookUpInv DEF GetOrInternInternalString, Begins, WorldRuns
  <1>3. ASSUME WeakTable(t) \/ InternalGet(t) PROVE gcpc # "initial" /\ op[t].str \in Strings
    <2>1. op[t].pc \in {"weakTable", "internalGet"}
      BY <1>3 DEF WeakTable, InternalGet, Continues
    <2> QED BY <2>1 DEF Inv, PhaseOK, Stopped, AtSafepoint, OpsOK, OpOK
  <1>4. CASE WeakTable(t)
    BY <1>3, <1>4, OpsBound, LookUpInv DEF WeakTable, Continues
  <1>5. CASE InternalGet(t)
    BY <1>3, <1>5, OpsBound, LookUpInv DEF InternalGet, Continues
  <1> QED BY <1>1, <1>2, <1>4, <1>5

LEMMA OutOfMemoryInv ==
  ASSUME Inv, NEW t \in Threads, OutOfMemory(t)
  PROVE  Inv'
  <1>1. /\ op' = [op EXCEPT ![t] = [Idle EXCEPT !.pc = "fault"]] /\ reg' = reg
        /\ gcpc # "initial" /\ op[t].pc \in {"weakNew", "internalNew"}
    BY DEF OutOfMemory, WorldRuns
  <1>2. op'[t].pc = "fault"
    BY <1>1 DEF Inv, TypeOK, Idle
  <1>3. OpOK(t)' /\ op'[t].pc \notin Initialising
    BY <1>2 DEF OpOK, Initialising
  <1>4. op' \in [Threads -> [pc : OpPcs, addr : Addr \cup {Null}, str : {"inst"} \cup Strings]]
    BY <1>1 DEF Inv, TypeOK, OpPcs, Idle
  <1>5. \A u \in Threads \ {t} : op'[u] = op[u] /\ reg'[u] = reg[u]
    BY <1>1 DEF Inv, TypeOK
  <1>6. \A q \in Regs : GoodRef(reg'[t][q])
    BY <1>1 DEF Inv, TypeOK, HeapOK
  <1>7. reg' \in [Threads -> [Regs -> Addr \cup {Null}]] /\ ops' \in 0..MaxOps
    BY <1>1, OpsBound DEF Inv, TypeOK, OutOfMemory
  <1> QED BY <1>1, <1>3, <1>4, <1>5, <1>6, <1>7, QuietStep DEF OutOfMemory

(***************************************************************************)
(* Stores and barriers.                                                    *)
(***************************************************************************)
LEMMA OtherOps ==
  ASSUME Inv, NEW t \in Threads, UNCHANGED <<cls, mark, gcpc, at, garbage, internal>>,
         \A u \in Threads \ {t} : op'[u] = op[u],
         OpOK(t)', op'[t].pc \notin Initialising
  PROVE  OpsOK'
  <1>1. ASSUME NEW u \in Threads, u # t PROVE OpOK(u)'
    <2>1. op'[u] = op[u] /\ OpOK(u)
      BY <1>1 DEF Inv, OpsOK
    <2> QED BY LiveFrame, <2>1 DEF OpOK
  <1> QED BY <1>1 DEF OpsOK, Inv

LEMMA StoreInv ==
  ASSUME Inv, NEW t \in Threads, Store(t)
  PROVE  Inv'
  <1> USE DEF stringVars, gcVars
  <1>1. PICK b \in Bases(t), v \in {reg[t][r] : r \in Regs} \cup {Null} :
            /\ field' = [field EXCEPT ![b] = v]
            /\ op' = [op EXCEPT ![t] = [pc |-> "barrier", addr |-> b, str |-> "inst"]]
    BY DEF Store
  <1>2. b \in Addr /\ Live(b) /\ cls[b] = "inst" /\ b # Null
    BY BaseGood, SizeNat DEF Null
  <1>3. v \in Addr \cup {Null} /\ GoodRef(v)
    BY DEF Inv, TypeOK, HeapOK, GoodRef
  <1>4. op[t].pc = "run" /\ gcpc # "initial" /\ ops' \in 0..MaxOps /\ UNCHANGED <<cls, mark, card, stringVars, reg, gcVars, garbage>>
    BY OpsBound DEF Store, Begins, WorldRuns
  <1>5. op'[t] = [pc |-> "barrier", addr |-> b, str |-> "inst"] /\ \A u \in Threads \ {t} : op'[u] = op[u]
    BY <1>1 DEF Inv, TypeOK
  <1>6. /\ \A a : Object(a)' <=> Object(a)
        /\ \A a : Live(a)' <=> Live(a)
    BY <1>4, LiveFrame
  <1>7. \A a \in Addr : field'[a] = IF a = b THEN v ELSE field[a]
    BY <1>1, <1>2 DEF Inv, TypeOK
  <1>8. TypeOK'
    BY <1>1, <1>2, <1>3, <1>4 DEF Inv, TypeOK, OpPcs
  <1>9. Pending(b)' /\ \A a : Pending(a) => Pending(a)'
    BY <1>4, <1>5 DEF Pending
  <1>10. FieldsOK'
    BY <1>2, <1>4, <1>7, <1>9, SizeNat DEF Inv, FieldsOK
  <1>11. OpsOK'
    <2>1. OpOK(t)' /\ op'[t].pc \notin Initialising
      BY <1>2, <1>4, <1>5, <1>6 DEF OpOK, Initialising
    <2> QED BY <1>4, <1>5, <2>1, OtherOps
  <1>12. HeapOK'
    <2>1. \A w : GoodRef(w) <=> GoodRef(w)'
      BY <1>4, <1>6 DEF GoodRef, Interned
    <2> QED BY <1>3, <1>4, <1>6, <1>7, <2>1 DEF HeapOK, Inv
  <1>13. StringsOK'
    BY <1>4, <1>6 DEF StringsOK, Inv, Interned
  <1>14. MarksOK'
    <2>1. \A u \in Threads : op[u].pc = "record" => op'[u] = op[u]
      BY <1>4, <1>5
    <2>2. \A a : Unvisited(a)' <=> Unvisited(a)
      BY <1>4 DEF Unvisited
    <2> SUFFICES ASSUME gcpc \in Marking PROVE MarksOK'
      BY <1>4 DEF MarksOK
    <2>3. MarksOK /\ UNCHANGED <<mark, stack, card, gcpc, internal, newStrings>>
      BY <1>4 DEF Inv
    <2>4. ASSUME NEW a \in (mark \ stack) \cap Tenured, field'[a] \in Tenured \ mark
          PROVE  \/ Pending(a)'
                 \/ card[CardOf(a)] = "marked"
                 \/ card[CardOf(a)] = "processed" /\ Unvisited(a)
      BY <2>3, <2>4, <1>7, <1>9, SizeNat DEF MarksOK
    <2>5. \A a \in internal : (\E u \in Threads : op[u].pc = "record" /\ op[u].addr = a)
                => (\E u \in Threads : op'[u].pc = "record" /\ op'[u].addr = a)
      BY <2>1
    <2> QED BY <2>2, <2>3, <2>4, <2>5, <1>6 DEF MarksOK
  <1>15. YoungMarksOK'
    BY <1>4 DEF YoungMarksOK, Free, Inv
  <1>16. PhaseOK'
    BY <1>4, <1>6 DEF PhaseOK, Inv
  <1> QED BY <1>8, <1>10, <1>11, <1>12, <1>13, <1>14, <1>15, <1>16 DEF Inv

LEMMA PostBarrierInv ==
  ASSUME Inv, NEW t \in Threads, PostBarrier(t)
  PROVE  Inv'
  <1> USE DEF stringVars, gcVars
  <1> DEFINE b == op[t].addr
  <1>1. /\ card' = [card EXCEPT ![CardOf(b)] = "marked"]
        /\ op' = [op EXCEPT ![t] = Idle]
        /\ op[t].pc = "barrier" /\ ops' \in 0..MaxOps
        /\ UNCHANGED <<cls, field, mark, stringVars, reg, gcVars, garbage>>
    BY OpsBound DEF PostBarrier, Continues
  <1>2. b \in Addr /\ gcpc # "initial"
    BY <1>1 DEF Inv, TypeOK, OpsOK, OpOK, PhaseOK, Stopped, AtSafepoint
  <1>3. CardOf(b) \in Cards /\ \A a \in Addr : CardOf(a) \in Cards
    BY <1>2, CardOfType
  <1>4. /\ card' \in [Cards -> {"clear", "marked", "processed"}]
        /\ card'[CardOf(b)] = "marked"
        /\ \A c \in Cards : card'[c] = card[c] \/ card'[c] = "marked"
    BY <1>1, <1>3 DEF Inv, TypeOK
  <1>5. op'[t].pc = "run" /\ \A u \in Threads \ {t} : op'[u] = op[u]
    BY <1>1 DEF Inv, TypeOK, Idle
  <1>6. /\ \A a : Object(a)' <=> Object(a)
        /\ \A a : Live(a)' <=> Live(a)
    BY <1>1, LiveFrame
  <1>7. TypeOK'
    BY <1>1, <1>4 DEF Inv, TypeOK, OpPcs, Idle
  <1>8. \A a : Pending(a) => a = b \/ Pending(a)'
    BY <1>1, <1>5 DEF Pending
  <1> HIDE DEF b
  <1>9. FieldsOK'
    BY <1>1, <1>3, <1>4, <1>8, SizeNat DEF Inv, FieldsOK
  <1>10. OpsOK'
    <2>1. OpOK(t)' /\ op'[t].pc \notin Initialising
      BY <1>5 DEF OpOK, Initialising
    <2> QED BY <1>1, <1>5, <2>1, OtherOps
  <1>11. HeapOK'
    <2>1. \A w : GoodRef(w) <=> GoodRef(w)'
      BY <1>1, <1>6 DEF GoodRef, Interned
    <2> QED BY <1>1, <1>6, <2>1 DEF HeapOK, Inv
  <1>12. StringsOK'
    BY <1>1, <1>6 DEF StringsOK, Inv, Interned
  <1>13. MarksOK'
    <2>1. \A u \in Threads : op[u].pc = "record" => op'[u] = op[u]
      BY <1>1, <1>5
    <2>2. \A a : Unvisited(a)' <=> Unvisited(a)
      BY <1>1 DEF Unvisited
    <2> QED BY <2>1, <2>2, <1>1, <1>3, <1>4, <1>6, <1>8, SizeNat DEF MarksOK, Inv
  <1>14. YoungMarksOK'
    BY <1>1 DEF YoungMarksOK, Free, Inv
  <1>15. PhaseOK'
    BY <1>1, <1>2, <1>6 DEF PhaseOK, Inv
  <1> QED BY <1>7, <1>9, <1>10, <1>11, <1>12, <1>13, <1>14, <1>15 DEF Inv

(***************************************************************************)
(* Allocation.  A step that changes the header of one slot, which belongs  *)
(* to the thread alone, and possibly publishes it.                         *)
(***************************************************************************)
LEMMA HeaderStep ==
  ASSUME Inv, NEW t \in Threads, NEW a \in Addr, NEW k \in {"blank", "inst"} \cup Strings,
         cls[a] \in {"free", "blank"},
         cls[a] = "blank" => op[t].pc \in Initialising /\ op[t].addr = a,
         cls' = [cls EXCEPT ![a] = k],
         mark' \subseteq Addr,
         \A x : x # a => (x \in mark' <=> x \in mark),
         gcpc \in Marking => a \notin mark',
         a \in Young => a \notin mark',
         k # "blank" => Live(a)',
         UNCHANGED <<field, card, stringVars, gcVars, garbage>>,
         gcpc # "initial",
         ops' \in 0..MaxOps,
         op' \in [Threads -> [pc : OpPcs, addr : Addr \cup {Null}, str : {"inst"} \cup Strings]],
         reg' \in [Threads -> [Regs -> Addr \cup {Null}]],
         \A u \in Threads \ {t} : op'[u] = op[u] /\ reg'[u] = reg[u],
         op[t].pc \notin {"barrier", "record"},
         op'[t].pc \in Initialising => op'[t].addr = a,
         OpOK(t)',
         \A r \in Regs : reg'[t][r] = reg[t][r] \/ (reg'[t][r] = a /\ k = "inst")
  PROVE  Inv'
  <1> USE DEF stringVars, gcVars
  <1>0. Strings \cap {"free", "blank", "inst"} = {} /\ a # Null
    BY ThreadAssumption, SizeNat DEF Null
  <1>1. cls' \in [Addr -> {"free", "blank", "inst"} \cup Strings] /\ cls'[a] = k /\ \A x \in Addr : x # a => cls'[x] = cls[x]
    BY DEF Inv, TypeOK
  <1>2. \A x : x # a => (Object(x)' <=> Object(x)) /\ (Live(x)' <=> Live(x))
    BY <1>1 DEF Object, Live
  <1>3. ~ Object(a) /\ ~ Live(a) /\ field[a] = Null /\ a \notin Interned /\ a \notin garbage
    <2>1. ~ Object(a) /\ ~ Live(a)
      BY DEF Object, Live
    <2> QED BY <2>1 DEF Inv, FieldsOK, StringsOK, PhaseOK
  <1>4. TypeOK'
    BY <1>1 DEF Inv, TypeOK
  <1>5. \A x : Pending(x) => Pending(x)'
    BY DEF Pending
  <1>6. FieldsOK'
    BY <1>1, <1>3, <1>5, SizeNat, <1>0 DEF Inv, FieldsOK, Null
  <1>7. OpsOK'
    <2>1. ASSUME NEW u \in Threads, u # t, op[u].pc \in Initialising PROVE op[u].addr # a
      BY <2>1 DEF Inv, OpsOK, OpOK
    <2>2. ASSUME NEW u \in Threads, u # t PROVE OpOK(u)'
      <3>1. op'[u] = op[u] /\ OpOK(u)
        BY <2>2 DEF Inv, OpsOK
      <3>2. op[u].pc \in Initialising => op[u].addr # a /\ op[u].addr \in Addr
        BY <2>1, <2>2, <3>1, SizeNat DEF OpOK
      <3>3. op[u].pc \in {"barrier", "weakInsert", "internalInsert", "record"} => op[u].addr # a /\ op[u].addr \in Addr
        BY <1>3, <3>1 DEF OpOK, Live, Object
      <3> QED BY <1>1, <1>2, <3>1, <3>2, <3>3 DEF OpOK, Initialising
    <2>3. ASSUME NEW u \in Threads, NEW w \in Threads,
                 op'[u].pc \in Initialising, op'[w].pc \in Initialising, op'[u].addr = op'[w].addr
          PROVE  u = w
      BY <2>1, <2>3 DEF Inv, OpsOK
    <2> QED BY <2>2, <2>3 DEF OpsOK
  <1>8. HeapOK'
    <2>1. \A v : GoodRef(v) => GoodRef(v)'
      <3> SUFFICES ASSUME NEW v, GoodRef(v), v # Null PROVE GoodRef(v)'
        BY DEF GoodRef
      <3>1. Live(v) /\ v # a /\ v \in Addr
        BY <1>3 DEF GoodRef, Live, Object
      <3> QED BY <3>1, <1>1, <1>2 DEF GoodRef, Interned
    <2>2. k = "inst" => GoodRef(a)'
      BY <1>0, <1>1 DEF GoodRef
    <2>3. ASSUME NEW u \in Threads, NEW r \in Regs PROVE GoodRef(reg[u][r])'
      <3>1. GoodRef(reg[u][r])
        BY DEF Inv, HeapOK
      <3>2. reg'[u][r] = reg[u][r] \/ (reg'[u][r] = a /\ k = "inst")
        OBVIOUS
      <3> QED BY <2>1, <2>2, <3>1, <3>2 DEF GoodRef, Interned, Live, Object
    <2>4. ASSUME NEW x \in Addr, Live(x)' PROVE GoodRef(field[x])'
      <3>1. CASE x = a
        BY <3>1, <1>3 DEF GoodRef
      <3>2. CASE x # a
        BY <3>2, <2>4, <1>2, <2>1 DEF Inv, HeapOK
      <3> QED BY <3>1, <3>2
    <2>5. Live(ClassObject)'
      BY <1>2, <1>3 DEF Inv, HeapOK
    <2>6. GoodRef(ClassObject)'
      BY <2>1 DEF Inv, HeapOK, ClassObject
    <2> QED BY <2>3, <2>4, <2>5, <2>6 DEF HeapOK
  <1>9. StringsOK'
    <2>1. \A x \in Interned : x # a /\ x \in Addr
      BY <1>3 DEF Inv, StringsOK, Live, Object
    <2> QED BY <2>1, <1>1, <1>2 DEF StringsOK, Inv, Interned
  <1>10. MarksOK'
    <2> SUFFICES ASSUME gcpc \in Marking PROVE MarksOK'
      BY DEF MarksOK
    <2>1. MarksOK /\ a \notin mark
      BY <1>3 DEF Inv, MarksOK
    <2>2. mark' = mark
      <3>1. \A x : x \in mark' <=> x \in mark
        BY <2>1
      <3> QED BY <3>1
    <2>3. \A x : Unvisited(x)' <=> Unvisited(x)
      BY DEF Unvisited
    <2>4. \A x \in internal : (\E u \in Threads : op[u].pc = "record" /\ op[u].addr = x)
                => (\E u \in Threads : op'[u].pc = "record" /\ op'[u].addr = x)
      OBVIOUS
    <2>5. \A x \in mark : Live(x)'
      BY <2>1, <1>2 DEF MarksOK
    <2> QED BY <2>1, <2>2, <2>3, <2>4, <2>5, <1>5 DEF MarksOK
  <1>11. YoungMarksOK'
    <2>1. mark' \cap Young \subseteq mark \cap Young
      OBVIOUS
    <2>2. Free(Tenured)' \in SUBSET Free(Tenured)
      BY <1>0, <1>1, SizeNat DEF Free
    <2>3. IsFiniteSet(Free(Tenured))
      <3>1. IsFiniteSet(Tenured)
        BY FS_Interval, SpaceAssumption DEF Tenured
      <3>2. Free(Tenured) \in SUBSET Tenured
        BY DEF Free
      <3> QED BY <3>1, <3>2, FS_Subset
    <2>4. Cardinality(Free(Tenured)') <= Cardinality(Free(Tenured))
      BY <2>2, <2>3, FS_Subset
    <2>5. Cardinality(Free(Tenured)') \in Nat /\ Cardinality(Free(Tenured)) \in Nat /\ MoveReserve \in Nat
      BY <2>2, <2>3, FS_Subset, FS_CardinalityType, SpaceAssumption
    <2> QED BY <2>1, <2>4, <2>5 DEF YoungMarksOK, Inv
  <1>12. PhaseOK'
    <2>1. \A x \in garbage : x # a /\ (Object(x)' <=> Object(x)) /\ (x \in mark' <=> x \in mark)
      BY <1>2, <1>3
    <2> QED BY <2>1 DEF PhaseOK, Inv
  <1> QED BY <1>4, <1>6, <1>7, <1>8, <1>9, <1>10, <1>11, <1>12 DEF Inv

LEMMA YoungSlot ==
  ASSUME Inv, NEW a \in FirstFree(Young)
  PROVE  a \in Young /\ a \in Addr /\ a \notin Tenured /\ cls[a] = "free" /\ a \notin garbage
  <1>1. a \in Young /\ a \in Addr /\ a \notin Tenured /\ cls[a] = "free"
    BY SpaceAssumption DEF FirstFree, Free, Young, Tenured, Addr
  <1> QED BY <1>1 DEF Inv, TypeOK

LEMMA TenuredSlot ==
  ASSUME Inv, NEW a \in FirstFree(Tenured)
  PROVE  a \in Tenured /\ a \in Addr /\ a \notin Young /\ cls[a] = "free"
  BY SpaceAssumption DEF FirstFree, Free, Young, Tenured, Addr

LEMMA TwoUpdates ==
  ASSUME TypeOK, NEW t \in Threads, NEW pc \in OpPcs, NEW a \in Addr
  PROVE  [op EXCEPT ![t].pc = pc, ![t].addr = a]
           \in [Threads -> [pc : OpPcs, addr : Addr \cup {Null}, str : {"inst"} \cup Strings]]
  <1> DEFINE op1 == [op EXCEPT ![t].pc = pc]
  <1>1. op1 \in [Threads -> [pc : OpPcs, addr : Addr \cup {Null}, str : {"inst"} \cup Strings]]
    BY DEF TypeOK
  <1>2. [op EXCEPT ![t].pc = pc, ![t].addr = a] = [op1 EXCEPT ![t].addr = a]
    OBVIOUS
  <1>3. [op1 EXCEPT ![t].addr = a]
          \in [Threads -> [pc : OpPcs, addr : Addr \cup {Null}, str : {"inst"} \cup Strings]]
    <2> HIDE DEF op1
    <2> QED BY <1>1
  <1> QED BY <1>2, <1>3, Zenon

LEMMA AllocateYoungInv ==
  ASSUME Inv, NEW t \in Threads, AllocateYoung(t)
  PROVE  Inv'
  <1>1. PICK a \in FirstFree(Young) : cls' = [cls EXCEPT ![a] = "inst"] /\ mark' = mark \ {a} /\ Return(t, a)
    BY DEF AllocateYoung
  <1>2. a \in Young /\ a \in Addr /\ a \notin Tenured /\ cls[a] = "free" /\ a \notin garbage
    BY YoungSlot
  <1>3. PICK r \in Regs : reg' = [reg EXCEPT ![t][r] = a]
    BY <1>1 DEF Return
  <1>4. op' = [op EXCEPT ![t] = Idle]
    BY <1>1 DEF Return
  <1>5. op'[t].pc = "run" /\ \A u \in Threads \ {t} : op'[u] = op[u] /\ reg'[u] = reg[u]
    BY <1>3, <1>4 DEF Inv, TypeOK, Idle
  <1>6. /\ reg' \in [Threads -> [Regs -> Addr \cup {Null}]]
        /\ op' \in [Threads -> [pc : OpPcs, addr : Addr \cup {Null}, str : {"inst"} \cup Strings]]
    BY <1>1, <1>2, ReturnType DEF Inv
  <1>7. Live(a)'
    BY <1>1, <1>2, ThreadAssumption DEF Live, Object, AllocateYoung, Inv, TypeOK
  <1>8. OpOK(t)' /\ op'[t].pc \notin Initialising
    BY <1>5 DEF OpOK, Initialising
  <1>9. gcpc # "initial" /\ ops' \in 0..MaxOps /\ op[t].pc = "run"
    BY OpsBound DEF AllocateYoung, Begins, WorldRuns
  <1>10. UNCHANGED <<field, card, stringVars, gcVars, garbage>> /\ mark' \subseteq Addr
    BY <1>1 DEF AllocateYoung, Inv, TypeOK
  <1>11. \A q \in Regs : reg'[t][q] = reg[t][q] \/ reg'[t][q] = a
    BY <1>3 DEF Inv, TypeOK
  <1>12. a \notin mark' /\ \A x : x # a => (x \in mark' <=> x \in mark)
    BY <1>1
  <1> QED
    BY <1>1, <1>2, <1>5, <1>6, <1>7, <1>8, <1>9, <1>10, <1>11, <1>12, HeaderStep

LEMMA WeakNewInv ==
  ASSUME Inv, NEW t \in Threads, WeakNew(t)
  PROVE  Inv'
  <1> DEFINE s == op[t].str
  <1>1. PICK a \in FirstFree(Young) :
          /\ cls' = [cls EXCEPT ![a] = s]
          /\ mark' = mark \ {a}
          /\ op' = [op EXCEPT ![t].pc = "weakInsert", ![t].addr = a]
    BY DEF WeakNew
  <1>2. a \in Young /\ a \in Addr /\ a \notin Tenured /\ cls[a] = "free" /\ a \notin garbage
    BY YoungSlot
  <1>3. gcpc # "initial" /\ ops' \in 0..MaxOps /\ op[t].pc = "weakNew" /\ reg' = reg
    BY OpsBound DEF WeakNew, Continues, WorldRuns
  <1>4. s \in Strings
    BY <1>3 DEF Inv, OpsOK, OpOK
  <1>5. op'[t].pc = "weakInsert" /\ op'[t].addr = a /\ op'[t].str = s /\ \A u \in Threads \ {t} : op'[u] = op[u] /\ reg'[u] = reg[u]
    BY <1>1, <1>3 DEF Inv, TypeOK
  <1>6. /\ reg' \in [Threads -> [Regs -> Addr \cup {Null}]]
        /\ op' \in [Threads -> [pc : OpPcs, addr : Addr \cup {Null}, str : {"inst"} \cup Strings]]
    <2> QED BY <1>1, <1>2, <1>3, TwoUpdates DEF Inv, TypeOK, OpPcs
  <1>7. Live(a)' /\ cls'[a] = s /\ a # Null
    BY <1>1, <1>2, <1>4, ThreadAssumption, SizeNat DEF Live, Object, WeakNew, Inv, TypeOK, Null
  <1>8. OpOK(t)' /\ op'[t].pc \notin Initialising
    BY <1>4, <1>5, <1>7 DEF OpOK, Initialising
  <1>10. UNCHANGED <<field, card, stringVars, gcVars, garbage>> /\ mark' \subseteq Addr
    BY <1>1 DEF WeakNew, Inv, TypeOK
  <1>12. a \notin mark' /\ \A x : x # a => (x \in mark' <=> x \in mark)
    BY <1>1
  <1> HIDE DEF s
  <1> QED
    BY <1>1, <1>2, <1>3, <1>4, <1>5, <1>6, <1>7, <1>8, <1>10, <1>12, HeaderStep

LEMMA TakeTenuredInv ==
  ASSUME Inv, NEW t \in Threads, NEW s \in {"inst"} \cup Strings, TakeTenured(t, s),
         gcpc # "initial", ops' \in 0..MaxOps, op[t].pc \in {"run", "internalNew"}
  PROVE  Inv'
  <1>1. PICK a \in FirstFree(Tenured) :
          /\ cls' = [cls EXCEPT ![a] = "blank"]
          /\ op' = [op EXCEPT ![t] = [pc |-> "bits", addr |-> a, str |-> s]]
    BY DEF TakeTenured
  <1>2. a \in Tenured /\ a \in Addr /\ a \notin Young /\ cls[a] = "free"
    BY TenuredSlot
  <1>3. op'[t] = [pc |-> "bits", addr |-> a, str |-> s] /\ reg' = reg /\ \A u \in Threads \ {t} : op'[u] = op[u] /\ reg'[u] = reg[u]
    BY <1>1 DEF Inv, TypeOK, TakeTenured
  <1>4. /\ reg' \in [Threads -> [Regs -> Addr \cup {Null}]]
        /\ op' \in [Threads -> [pc : OpPcs, addr : Addr \cup {Null}, str : {"inst"} \cup Strings]]
    BY <1>1, <1>2, <1>3 DEF Inv, TypeOK, OpPcs
  <1>5. cls'[a] = "blank"
    BY <1>1, <1>2 DEF Inv, TypeOK
  <1>6. OpOK(t)' /\ op'[t].addr = a
    BY <1>2, <1>3, <1>5 DEF OpOK, Initialising
  <1>7. UNCHANGED <<field, card, stringVars, gcVars, garbage>> /\ mark' = mark /\ mark' \subseteq Addr
    BY DEF TakeTenured, Inv, TypeOK
  <1>8. gcpc \in Marking => a \notin mark
    BY <1>2 DEF Inv, MarksOK, Live, Object
  <1> QED
    BY <1>1, <1>2, <1>3, <1>4, <1>6, <1>7, <1>8, HeaderStep

LEMMA TakeInv ==
  ASSUME Inv, NEW t \in Threads, AllocateTenured(t) \/ InternalNew(t)
  PROVE  Inv'
  <1>1. CASE AllocateTenured(t)
    BY <1>1, OpsBound, TakeTenuredInv DEF AllocateTenured, Begins, WorldRuns
  <1>2. CASE InternalNew(t)
    <2>1. op[t].str \in {"inst"} \cup Strings
      BY DEF Inv, TypeOK
    <2> QED BY <1>2, <2>1, OpsBound, TakeTenuredInv DEF InternalNew, Continues, WorldRuns
  <1> QED BY <1>1, <1>2

(* InitGCBits, its second look, and the class word. *)
LEMMA Owned ==
  ASSUME Inv, NEW t \in Threads, op[t].pc \in Initialising
  PROVE  /\ op[t].addr \in Tenured /\ op[t].addr \in Addr /\ op[t].addr \notin Young /\ op[t].addr # Null
         /\ cls[op[t].addr] = "blank" /\ gcpc # "initial"
         /\ gcpc \in Marking => op[t].addr \notin mark
         /\ op[t].addr \notin garbage
  <1>1. op[t].addr \in Tenured /\ cls[op[t].addr] = "blank"
    BY DEF Inv, OpsOK, OpOK
  <1>2. op[t].addr \in Addr /\ op[t].addr \notin Young /\ op[t].addr # Null
    BY <1>1, SpaceAssumption DEF Tenured, Young, Addr, Null
  <1>3. gcpc # "initial"
    BY DEF Inv, PhaseOK, Stopped, AtSafepoint, Initialising
  <1>4. gcpc \in Marking => op[t].addr \notin mark
    BY <1>1 DEF Inv, MarksOK, Live, Object
  <1>5. op[t].addr \notin garbage
    BY <1>1 DEF Inv, PhaseOK, Object
  <1> QED BY <1>1, <1>2, <1>3, <1>4, <1>5

LEMMA BitsStep ==
  ASSUME Inv, NEW t \in Threads, op[t].pc \in Initialising, NEW pc \in Initialising, Goto(t, pc),
         pc \in {"setMark", "recheck"} => gcpc \in {"sweep", "unmark", "end"},
         pc \in {"recheck", "class"} /\ gcpc = "sweep" => op[t].addr \in mark',
         mark' = mark \/ mark' = mark \ {op[t].addr}
           \/ (mark' = mark \cup {op[t].addr} /\ gcpc \in {"sweep", "unmark", "end"}),
         UNCHANGED <<cls, field, card, stringVars, reg, ops, gcVars, garbage>>
  PROVE  Inv'
  <1> DEFINE a == op[t].addr
  <1>1. a \in Tenured /\ a \in Addr /\ a \notin Young /\ cls[a] = "blank" /\ gcpc # "initial" /\ (gcpc \in Marking => a \notin mark)
    BY Owned
  <1>2. op' = [op EXCEPT ![t].pc = pc]
    BY DEF Goto
  <1>3. op'[t].pc = pc /\ op'[t].addr = a /\ op'[t].str = op[t].str /\ \A u \in Threads \ {t} : op'[u] = op[u] /\ reg'[u] = reg[u]
    BY <1>2 DEF Inv, TypeOK
  <1>4. /\ reg' \in [Threads -> [Regs -> Addr \cup {Null}]]
        /\ op' \in [Threads -> [pc : OpPcs, addr : Addr \cup {Null}, str : {"inst"} \cup Strings]]
    <2>1. pc \in OpPcs
      BY DEF OpPcs, Initialising
    <2>2. op \in [Threads -> [pc : OpPcs, addr : Addr \cup {Null}, str : {"inst"} \cup Strings]]
      BY DEF Inv, TypeOK
    <2>3. op' \in [Threads -> [pc : OpPcs, addr : Addr \cup {Null}, str : {"inst"} \cup Strings]]
      BY <1>2, <2>1, <2>2
    <2> QED BY <2>3 DEF Inv, TypeOK
  <1>5. cls' = [cls EXCEPT ![a] = "blank"]
    BY <1>1 DEF Inv, TypeOK
  <1>6. OpOK(t)'
    BY <1>1, <1>3 DEF OpOK, Initialising, gcVars
  <1>7. mark' \subseteq Addr /\ (\A x : x # a => (x \in mark' <=> x \in mark)) /\ (gcpc \in Marking => a \notin mark')
    BY <1>1 DEF Inv, TypeOK, Marking
  <1>8. ops' \in 0..MaxOps /\ UNCHANGED <<field, card, stringVars, gcVars, garbage>> /\ reg' = reg
    BY OpsBound
  <1>9. op[t].pc \notin {"barrier", "record"}
    BY DEF Initialising
  <1> HIDE DEF a
  <1> QED
    BY <1>1, <1>3, <1>4, <1>5, <1>6, <1>7, <1>8, <1>9, HeaderStep DEF a

LEMMA BitsInv ==
  ASSUME Inv, NEW t \in Threads, InitGCBits(t) \/ SetMarked(t) \/ Recheck(t)
  PROVE  Inv'
  <1> USE DEF Initialising, Continues
  <1>1. CASE InitGCBits(t)
    <2>1. CASE gcpc = "sweep" /\ Goto(t, "setMark") /\ UNCHANGED mark
      BY <1>1, <2>1, BitsStep DEF InitGCBits
    <2>2. CASE gcpc # "sweep" /\ Goto(t, "class") /\ mark' = mark \ {op[t].addr}
      BY <1>1, <2>2, BitsStep DEF InitGCBits
    <2> QED BY <1>1, <2>1, <2>2 DEF InitGCBits
  <1>2. CASE SetMarked(t)
    <2>1. gcpc \in {"sweep", "unmark", "end"}
      BY <1>2 DEF SetMarked, Inv, OpsOK, OpOK
    <2> QED BY <1>2, <2>1, BitsStep DEF SetMarked
  <1>3. CASE Recheck(t)
    <2>1. gcpc = "sweep" => op[t].addr \in mark
      BY <1>3 DEF Recheck, Inv, OpsOK, OpOK
    <2> QED BY <1>3, <2>1, BitsStep DEF Recheck
  <1> QED BY <1>1, <1>2, <1>3

LEMMA SetClassInv ==
  ASSUME Inv, NEW t \in Threads, SetClass(t)
  PROVE  Inv'
  <1>11. PICK a, k : a = op[t].addr /\ k = op[t].str
    OBVIOUS
  <1>0. op[t].pc = "class" /\ k \in {"inst"} \cup Strings /\ cls' = [cls EXCEPT ![a] = k] /\ mark' = mark
           /\ UNCHANGED <<field, card, stringVars, gcVars, garbage>> /\ ops' \in 0..MaxOps
    BY <1>11, OpsBound DEF SetClass, Continues, Inv, TypeOK
  <1>1. a \in Tenured /\ a \in Addr /\ a \notin Young /\ cls[a] = "blank" /\ gcpc # "initial"
          /\ a # Null /\ a \notin garbage /\ (gcpc \in Marking => a \notin mark)
    BY <1>11, <1>0, Owned DEF Initialising
  <1>2. gcpc = "sweep" => a \in mark
    BY <1>11, <1>0 DEF Inv, OpsOK, OpOK
  <1>3. cls'[a] = k /\ k # "blank"
    BY <1>0, <1>1, ThreadAssumption DEF Inv, TypeOK
  <1>4. Live(a)'
    BY <1>0, <1>1, <1>2, <1>3, ThreadAssumption DEF Live, Object, gcVars
  <1>5. mark' \subseteq Addr
    BY <1>0 DEF Inv, TypeOK
  <1>6. CASE k = "inst"
    <2>0. Return(t, a)
      BY <1>11, <1>0, <1>6 DEF SetClass
    <2>1. PICK r \in Regs : reg' = [reg EXCEPT ![t][r] = a]
      BY <2>0 DEF Return
    <2>2. op' = [op EXCEPT ![t] = Idle]
      BY <2>0 DEF Return
    <2>3. op'[t].pc = "run" /\ \A u \in Threads \ {t} : op'[u] = op[u] /\ reg'[u] = reg[u]
      BY <2>1, <2>2 DEF Inv, TypeOK, Idle
    <2>4. /\ reg' \in [Threads -> [Regs -> Addr \cup {Null}]]
          /\ op' \in [Threads -> [pc : OpPcs, addr : Addr \cup {Null}, str : {"inst"} \cup Strings]]
      BY <2>0, <1>1, ReturnType DEF Inv
    <2>5. OpOK(t)' /\ op'[t].pc \notin Initialising
      BY <2>3 DEF OpOK, Initialising
    <2>6. \A q \in Regs : reg'[t][q] = reg[t][q] \/ reg'[t][q] = a
      BY <2>1 DEF Inv, TypeOK
    <2>7. op[t].pc \in Initialising
      BY <1>0 DEF Initialising
    <2> QED BY <1>0, <1>1, <1>3, <1>4, <1>5, <1>6, <2>3, <2>4, <2>5, <2>6, <2>7, <1>11, HeaderStep
  <1>7. CASE k # "inst"
    <2>1. op' = [op EXCEPT ![t].pc = "internalInsert"] /\ reg' = reg
      BY <1>11, <1>0, <1>7 DEF SetClass, Goto
    <2>3. op'[t].pc = "internalInsert" /\ op'[t].addr = a /\ op'[t].str = k /\ \A u \in Threads \ {t} : op'[u] = op[u] /\ reg'[u] = reg[u]
      BY <1>11, <2>1 DEF Inv, TypeOK
    <2>4. /\ reg' \in [Threads -> [Regs -> Addr \cup {Null}]]
          /\ op' \in [Threads -> [pc : OpPcs, addr : Addr \cup {Null}, str : {"inst"} \cup Strings]]
      <3>1. "internalInsert" \in OpPcs
        BY DEF OpPcs
      <3>2. op \in [Threads -> [pc : OpPcs, addr : Addr \cup {Null}, str : {"inst"} \cup Strings]]
        BY DEF Inv, TypeOK
      <3>3. op' \in [Threads -> [pc : OpPcs, addr : Addr \cup {Null}, str : {"inst"} \cup Strings]]
        BY <2>1, <3>1, <3>2
      <3> QED BY <2>1, <3>3 DEF Inv, TypeOK
    <2>5. OpOK(t)' /\ op'[t].pc \notin Initialising
      BY <2>3, <1>0, <1>1, <1>3, <1>4, <1>7 DEF OpOK, Initialising
    <2>7. op[t].pc \in Initialising
      BY <1>0 DEF Initialising
    <2> QED BY <1>0, <1>1, <1>3, <1>4, <1>5, <2>1, <2>3, <2>4, <2>5, <2>7, <1>11, HeaderStep
  <1> QED BY <1>6, <1>7

(***************************************************************************)
(* Insertions into the string tables.                                      *)
(***************************************************************************)
Recorded(a) == a \in mark \/ a \in newStrings \/ \E t \in Threads : op[t].pc = "record" /\ op[t].addr = a

LEMMA InternStep ==
  ASSUME Inv, NEW t \in Threads,
         UNCHANGED <<heapVars, recording, gcVars, garbage, ops>>,
         table' \subseteq Addr, internal' \subseteq Addr, newStrings' \subseteq Addr,
         table \subseteq table', internal \subseteq internal',
         StringsOK',
         gcpc \in AfterStrings => \A a \in internal' : Recorded(a)',
         op' \in [Threads -> [pc : OpPcs, addr : Addr \cup {Null}, str : {"inst"} \cup Strings]],
         reg' \in [Threads -> [Regs -> Addr \cup {Null}]],
         \A u \in Threads \ {t} : op'[u] = op[u] /\ reg'[u] = reg[u],
         op[t].pc \in {"weakInsert", "internalInsert", "record"},
         op'[t].pc \notin Initialising,
         OpOK(t)',
         \A r \in Regs : reg'[t][r] = reg[t][r] \/ reg'[t][r] \in Interned'
  PROVE  Inv'
  <1> USE DEF heapVars, gcVars
  <1>0. gcpc # "initial"
    BY DEF Inv, PhaseOK, Stopped, AtSafepoint
  <1>1. /\ \A a : Object(a)' <=> Object(a)
        /\ \A a : Live(a)' <=> Live(a)
    BY LiveFrame
  <1>2. TypeOK'
    BY DEF TypeOK, Inv
  <1>3. \A a : Pending(a) => Pending(a)'
    BY DEF Pending
  <1>4. FieldsOK'
    BY <1>3 DEF FieldsOK, Inv
  <1>5. OpsOK'
    <2>1. ASSUME NEW u \in Threads, u # t PROVE OpOK(u)'
      <3>1. op'[u] = op[u] /\ OpOK(u)
        BY <2>1 DEF Inv, OpsOK
      <3> QED BY <1>1, <3>1 DEF OpOK
    <2> QED BY <2>1 DEF OpsOK, Inv
  <1>6. HeapOK'
    <2>1. \A v : GoodRef(v) => GoodRef(v)'
      BY <1>1 DEF GoodRef, Interned
    <2>2. \A v \in Interned' : GoodRef(v)'
      BY DEF StringsOK, GoodRef
    <2>3. ASSUME NEW u \in Threads, NEW r \in Regs PROVE GoodRef(reg[u][r])'
      <3>1. GoodRef(reg[u][r])
        BY DEF Inv, HeapOK
      <3>2. reg'[u][r] = reg[u][r] \/ reg'[u][r] \in Interned'
        OBVIOUS
      <3> QED BY <2>1, <2>2, <3>1, <3>2 DEF GoodRef, Live, Object, Interned
    <2>4. ASSUME NEW a \in Addr, Live(a)' PROVE GoodRef(field[a])'
      BY <2>1, <2>4, <1>1 DEF Inv, HeapOK
    <2>5. GoodRef(ClassObject)'
      BY <2>1 DEF Inv, HeapOK, ClassObject
    <2> QED BY <2>3, <2>4, <2>5, <1>1 DEF HeapOK, Inv
  <1>8. MarksOK'
    <2>2. \A a : Unvisited(a)' <=> Unvisited(a)
      BY DEF Unvisited
    <2> QED BY <2>2, <1>1, <1>3 DEF MarksOK, Inv, Recorded
  <1>9. YoungMarksOK'
    BY DEF YoungMarksOK, Free, Inv
  <1>10. PhaseOK'
    BY <1>0, <1>1 DEF PhaseOK, Inv
  <1> QED BY <1>2, <1>4, <1>5, <1>6, <1>8, <1>9, <1>10 DEF Inv

LEMMA WeakInsertInv ==
  ASSUME Inv, NEW t \in Threads, WeakInsert(t)
  PROVE  Inv'
  <1> USE DEF heapVars, gcVars
  <1>1. PICK a \in InternString(t, table) : table' = table \cup {a} /\ Return(t, a)
    BY DEF WeakInsert
  <1>2. op[t].pc = "weakInsert" /\ UNCHANGED <<heapVars, internal, newStrings, recording, gcVars, garbage, ops>>
    BY DEF WeakInsert, Continues
  <1>3. Live(op[t].addr) /\ cls[op[t].addr] = op[t].str /\ op[t].str \in Strings
    BY <1>2 DEF Inv, OpsOK, OpOK
  <1>4. Live(a) /\ cls[a] = op[t].str /\ (a \notin table => \A b \in table : cls[b] # cls[a])
    BY <1>3 DEF InternString, Found, Inv, StringsOK, Interned
  <1>5. a \in Addr
    BY <1>4 DEF Live, Object
  <1>6. StringsOK'
    <2>1. \A x : Live(x)' <=> Live(x)
      BY <1>2, LiveFrame
    <2> QED BY <1>1, <1>2, <1>3, <1>4, <2>1 DEF StringsOK, Inv, Interned
  <1>7. PICK r \in Regs : reg' = [reg EXCEPT ![t][r] = a]
    BY <1>1 DEF Return
  <1>8. op' = [op EXCEPT ![t] = Idle]
    BY <1>1 DEF Return
  <1>9. op'[t].pc = "run" /\ \A u \in Threads \ {t} : op'[u] = op[u] /\ reg'[u] = reg[u]
    BY <1>7, <1>8 DEF Inv, TypeOK, Idle
  <1>10. OpOK(t)' /\ op'[t].pc \notin Initialising
    BY <1>9 DEF OpOK, Initialising
  <1>11. \A q \in Regs : reg'[t][q] = reg[t][q] \/ reg'[t][q] \in Interned'
    BY <1>1, <1>7 DEF Inv, TypeOK, Interned
  <1>12. gcpc \in AfterStrings => \A x \in internal' : Recorded(x)'
    <2>1. gcpc \in AfterStrings => \A x \in internal : Recorded(x)
      BY DEF Inv, MarksOK, Recorded, AfterStrings, Marking
    <2>2. \A u \in Threads : op[u].pc = "record" => op'[u] = op[u]
      BY <1>2, <1>9
    <2> QED BY <2>1, <2>2, <1>2 DEF Recorded
  <1>13. table' \subseteq Addr /\ internal' \subseteq Addr /\ newStrings' \subseteq Addr /\ table \subseteq table' /\ internal \subseteq internal'
    BY <1>1, <1>2, <1>5 DEF Inv, TypeOK
  <1>14. /\ reg' \in [Threads -> [Regs -> Addr \cup {Null}]]
         /\ op' \in [Threads -> [pc : OpPcs, addr : Addr \cup {Null}, str : {"inst"} \cup Strings]]
    BY <1>1, <1>5, ReturnType DEF Inv
  <1> QED BY <1>2, <1>6, <1>9, <1>10, <1>11, <1>12, <1>13, <1>14, InternStep

LEMMA InternalInsertInv ==
  ASSUME Inv, NEW t \in Threads, InternalInsert(t)
  PROVE  Inv'
  <1> USE DEF heapVars, gcVars
  <1>1. PICK a \in InternString(t, internal) :
           internal' = internal \cup {a} /\ op' = [op EXCEPT ![t].pc = "record", ![t].addr = a]
    BY DEF InternalInsert
  <1>2. op[t].pc = "internalInsert" /\ UNCHANGED <<heapVars, table, newStrings, recording, reg, gcVars, garbage, ops>>
    BY DEF InternalInsert, Continues
  <1>3. Live(op[t].addr) /\ cls[op[t].addr] = op[t].str /\ op[t].str \in Strings /\ op[t].addr \in Tenured
    BY <1>2 DEF Inv, OpsOK, OpOK
  <1>4. Live(a) /\ cls[a] = op[t].str /\ a \in Tenured /\ (a \notin internal => \A b \in internal : cls[b] # cls[a])
    BY <1>3 DEF InternString, Found, Inv, StringsOK, Interned
  <1>5. a \in Addr /\ a # Null
    BY <1>4, SizeNat DEF Live, Object, Null
  <1>60. \A x : Live(x)' <=> Live(x)
    BY <1>2, LiveFrame
  <1>6. StringsOK'
    BY <1>1, <1>2, <1>3, <1>4, <1>60 DEF StringsOK, Inv, Interned
  <1>9. op'[t].pc = "record" /\ op'[t].addr = a /\ \A u \in Threads \ {t} : op'[u] = op[u] /\ reg'[u] = reg[u]
    BY <1>1, <1>2 DEF Inv, TypeOK
  <1>10. OpOK(t)' /\ op'[t].pc \notin Initialising
    BY <1>1, <1>4, <1>5, <1>9, <1>60 DEF OpOK, Initialising
  <1>12. gcpc \in AfterStrings => \A x \in internal' : Recorded(x)'
    <2>1. gcpc \in AfterStrings => \A x \in internal : Recorded(x)
      BY DEF Inv, MarksOK, Recorded, AfterStrings, Marking
    <2>2. \A u \in Threads : op[u].pc = "record" => op'[u] = op[u]
      BY <1>2, <1>9
    <2>3. Recorded(a)'
      BY <1>9 DEF Recorded
    <2>4. \A x : Recorded(x) => Recorded(x)'
      BY <2>2, <1>2 DEF Recorded
    <2> QED BY <2>1, <2>3, <2>4, <1>1
  <1>13. table' \subseteq Addr /\ internal' \subseteq Addr /\ newStrings' \subseteq Addr /\ table \subseteq table' /\ internal \subseteq internal'
    BY <1>1, <1>2, <1>5 DEF Inv, TypeOK
  <1>14. /\ reg' \in [Threads -> [Regs -> Addr \cup {Null}]]
         /\ op' \in [Threads -> [pc : OpPcs, addr : Addr \cup {Null}, str : {"inst"} \cup Strings]]
    BY <1>1, <1>2, <1>5, TwoUpdates DEF Inv, TypeOK, OpPcs
  <1> QED BY <1>2, <1>6, <1>9, <1>10, <1>12, <1>13, <1>14, InternStep

LEMMA RecordInv ==
  ASSUME Inv, NEW t \in Threads, Record(t)
  PROVE  Inv'
  <1> USE DEF heapVars, gcVars
  <1>0. PICK a : a = op[t].addr
    OBVIOUS
  <1>1. Return(t, a) /\ newStrings' = IF recording THEN newStrings \cup {a} ELSE newStrings
    BY <1>0 DEF Record
  <1>2. op[t].pc = "record" /\ UNCHANGED <<heapVars, table, internal, recording, gcVars, garbage, ops>>
    BY DEF Record, Continues
  <1>3. a \in internal
    BY <1>0, <1>2 DEF Inv, OpsOK, OpOK
  <1>5. a \in Addr
    BY <1>3 DEF Inv, TypeOK
  <1>6. StringsOK'
    <2>1. \A x : Live(x)' <=> Live(x)
      BY <1>2, LiveFrame
    <2> QED BY <1>1, <1>2, <1>3, <2>1 DEF StringsOK, Inv, Interned
  <1>7. PICK r \in Regs : reg' = [reg EXCEPT ![t][r] = a]
    BY <1>1 DEF Return
  <1>8. op' = [op EXCEPT ![t] = Idle]
    BY <1>1 DEF Return
  <1>9. op'[t].pc = "run" /\ \A u \in Threads \ {t} : op'[u] = op[u] /\ reg'[u] = reg[u]
    BY <1>7, <1>8 DEF Inv, TypeOK, Idle
  <1>10. OpOK(t)' /\ op'[t].pc \notin Initialising
    BY <1>9 DEF OpOK, Initialising
  <1>11. \A q \in Regs : reg'[t][q] = reg[t][q] \/ reg'[t][q] \in Interned'
    BY <1>2, <1>3, <1>7 DEF Inv, TypeOK, Interned
  <1>12. gcpc \in AfterStrings => \A x \in internal' : Recorded(x)'
    <2> SUFFICES ASSUME gcpc \in AfterStrings, NEW x \in internal PROVE Recorded(x)'
      BY <1>2
    <2>1. Recorded(x) /\ recording
      BY DEF Inv, MarksOK, PhaseOK, Recorded, AfterStrings, Marking
    <2>2. \A u \in Threads : op[u].pc = "record" => op'[u] = op[u] \/ op[u].addr = a
      BY <1>0, <1>2, <1>9
    <2>3. newStrings' = newStrings \cup {a}
      BY <2>1, <1>1
    <2> QED BY <2>1, <2>2, <2>3, <1>2 DEF Recorded
  <1>13. table' \subseteq Addr /\ internal' \subseteq Addr /\ newStrings' \subseteq Addr /\ table \subseteq table' /\ internal \subseteq internal'
    BY <1>1, <1>2, <1>5 DEF Inv, TypeOK
  <1>14. /\ reg' \in [Threads -> [Regs -> Addr \cup {Null}]]
         /\ op' \in [Threads -> [pc : OpPcs, addr : Addr \cup {Null}, str : {"inst"} \cup Strings]]
    BY <1>1, <1>5, ReturnType DEF Inv
  <1> QED BY <1>2, <1>6, <1>9, <1>10, <1>11, <1>12, <1>13, <1>14, InternStep

(***************************************************************************)
(* The collector beside running threads, up to the second pause.           *)
(***************************************************************************)
LEMMA MarkStep ==
  ASSUME Inv, gcpc \in Marking, gcpc' \in Marking,
         UNCHANGED <<cls, field, table, internal, newStrings, threadVars, garbage>>,
         /\ mark' \subseteq Addr /\ stack' \subseteq Addr
         /\ card' \in [Cards -> {"clear", "marked", "processed"}]
         /\ recording' \in BOOLEAN
         /\ at' \in 0..(NumTenured + NumYoung + CardSize),
         FieldsOK', MarksOK', PhaseOK'
  PROVE  Inv' 
  <1> USE DEF threadVars
  <1>0. /\ gcpc \in GcPcs /\ gcpc' \in GcPcs
        /\ gcpc \notin {"idle", "sweep", "unmark", "end"}
        /\ gcpc' \notin {"idle", "sweep", "unmark", "end"}
    BY DEF Marking, GcPcs
  <1>1. \A a : (Object(a)' <=> Object(a)) /\ (Live(a)' <=> Live(a))
    BY <1>0 DEF Live, Object
  <1>2. TypeOK'
    BY <1>0 DEF Inv, TypeOK
  <1>3. OpsOK'
    <2>1. ASSUME NEW t \in Threads PROVE OpOK(t)'
      <3>1. OpOK(t)
        BY DEF Inv, OpsOK
      <3> QED BY <3>1, <1>0, <1>1 DEF OpOK
    <2> QED BY <2>1 DEF Inv, OpsOK
  <1>4. HeapOK'
    <2>1. \A v : GoodRef(v)' <=> GoodRef(v)
      BY <1>1 DEF GoodRef, Interned
    <2> QED BY <1>1, <2>1 DEF Inv, HeapOK
  <1>5. StringsOK'
    BY <1>1 DEF Inv, StringsOK, Interned
  <1>6. YoungMarksOK'
    BY <1>0 DEF YoungMarksOK
  <1> QED BY <1>2, <1>3, <1>4, <1>5, <1>6 DEF Inv

(* What marked objects refer to may be marked. *)
LEMMA MarkedTargets ==
  ASSUME Inv, gcpc \in Marking, NEW S \in SUBSET mark
  PROVE  \A v \in Targets(S) : Live(v) /\ v \in Addr
  <1> SUFFICES ASSUME NEW a \in S, field[a] # Null PROVE Live(field[a]) /\ field[a] \in Addr
    BY DEF Targets
  <1>1. Live(a) /\ a \in Addr
    BY DEF Inv, MarksOK, TypeOK
  <1> QED BY <1>1 DEF Inv, HeapOK, GoodRef, Live, Object

(* Steps that mark objects of S, and put those on the stack that were not  *)
(* marked: no marked object leaves the stack.                              *)
LEMMA PushStep ==
  ASSUME Inv, gcpc \in Marking, gcpc' \in Marking, NEW S, \A v \in S : Live(v),
         mark' = mark \cup S, S \ mark \subseteq stack', stack \subseteq stack', stack' \subseteq stack \cup S,
         UNCHANGED <<cls, field, card, stringVars, threadVars, garbage>>,
         at' \in 0..(NumTenured + NumYoung + CardSize),
         \A a \in Tenured : Unvisited(a) => Unvisited(a)',
         gcpc' # "class" => ClassObject \in mark',
         gcpc' \in AfterStrings => \A a \in internal : Recorded(a)',
         PhaseOK'
  PROVE  Inv'
  <1> USE DEF threadVars, stringVars
  <1>0. S \subseteq Addr
    BY DEF Live, Object
  <1>1. mark' \subseteq Addr /\ stack' \subseteq Addr /\ stack' \subseteq mark'
    BY <1>0 DEF Inv, TypeOK, MarksOK
  <1>2. \A a : Live(a)' <=> Live(a)
    BY DEF Live, Object, Marking
  <1>3. \A a : Pending(a)' <=> Pending(a)
    BY DEF Pending
  <1>4. FieldsOK'
    BY <1>3 DEF Inv, FieldsOK
  <1>5. MarksOK'
    <2>1. \A a \in mark' : Live(a)'
      BY <1>2 DEF Inv, MarksOK
    <2>2. ASSUME NEW a \in (mark' \ stack') \cap Tenured, field[a] \in Tenured \ mark'
          PROVE  \/ Pending(a)
                 \/ card[CardOf(a)] = "marked"
                 \/ card[CardOf(a)] = "processed" /\ Unvisited(a)'
      <3>1. a \in (mark \ stack) \cap Tenured /\ field[a] \in Tenured \ mark
        BY <2>2
      <3> QED BY <3>1 DEF Inv, MarksOK
    <2> QED BY <1>1, <1>3, <2>1, <2>2 DEF MarksOK, Recorded
  <1> QED BY <1>1, <1>4, <1>5, MarkStep DEF Inv, TypeOK

LEMMA VisitClassRootsInv ==
  ASSUME Inv, VisitClassRoots
  PROVE  Inv'
  <1> USE DEF threadVars, stringVars
  <1>1. /\ gcpc = "class" /\ gcpc' = "drain1"
        /\ mark' = mark \cup {ClassObject}
        /\ stack' = stack \cup ({ClassObject} \ mark)
        /\ UNCHANGED <<cls, field, card, stringVars, threadVars, at, garbage>>
    BY DEF VisitClassRoots, MarkAndPush, Collecting
  <1>2. gcpc \in Marking /\ gcpc' \in Marking /\ gcpc' \notin AfterStrings
    BY <1>1 DEF Marking, AfterStrings
  <1>3. Live(ClassObject)
    BY DEF Inv, HeapOK
  <1>4. \A a \in Tenured : Unvisited(a) => Unvisited(a)'
    BY <1>1 DEF Unvisited, BeforeCards
  <1>5. PhaseOK'
    BY <1>1, <1>2 DEF Inv, PhaseOK, AfterStrings, Marking, Object
  <1>6. PICK S : S = {ClassObject}
    OBVIOUS
  <1>7. (\A v \in S : Live(v)) /\ ClassObject \in mark'
    BY <1>1, <1>3, <1>6
  <1>8. mark' = mark \cup S /\ S \ mark \subseteq stack' /\ stack \subseteq stack' /\ stack' \subseteq stack \cup S
    BY <1>1, <1>6
  <1>9. at' \in 0..(NumTenured + NumYoung + CardSize)
    BY <1>1 DEF Inv, TypeOK
  <1> QED BY <1>1, <1>2, <1>4, <1>5, <1>7, <1>8, <1>9, PushStep

LEMMA VisitInternalStringsInv ==
  ASSUME Inv, VisitInternalStrings
  PROVE  Inv'
  <1> USE DEF threadVars, stringVars
  <1>1. /\ gcpc = "visitStrings" /\ gcpc' = "drain2" /\ at' = 1
        /\ mark' = mark \cup internal
        /\ stack' = stack \cup (internal \ mark)
        /\ UNCHANGED <<cls, field, card, stringVars, threadVars, garbage>>
    BY DEF VisitInternalStrings, MarkAndPush, Collecting
  <1>2. gcpc \in Marking /\ gcpc' \in Marking
    BY <1>1 DEF Marking
  <1>3. \A a \in internal : Live(a) /\ Recorded(a)'
    BY <1>1 DEF Inv, StringsOK, Interned, Recorded
  <1>4. \A a \in Tenured : Unvisited(a) => Unvisited(a)'
    BY <1>1 DEF Unvisited, BeforeCards
  <1>5. PhaseOK'
    BY <1>1, <1>2 DEF Inv, PhaseOK, AfterStrings, Marking, Object
  <1>6. ClassObject \in mark'
    BY <1>1, <1>2 DEF Inv, MarksOK
  <1>7. at' \in 0..(NumTenured + NumYoung + CardSize)
    BY <1>1, SpaceAssumption
  <1> QED BY <1>1, <1>2, <1>3, <1>4, <1>5, <1>6, <1>7, PushStep

LEMMA StartRecordingInv ==
  ASSUME Inv, StartRecording
  PROVE  Inv'
  <1> USE DEF threadVars, stringVars, heapVars
  <1>1. /\ gcpc = "drain1" /\ gcpc' = "visitStrings" /\ recording' = TRUE
        /\ UNCHANGED <<heapVars, table, internal, newStrings, threadVars, stack, at, garbage>>
    BY DEF StartRecording, Collecting
  <1>2. gcpc \in Marking /\ gcpc' \in Marking
    BY <1>1 DEF Marking
  <1>3. \A a : (Live(a)' <=> Live(a)) /\ (Pending(a)' <=> Pending(a)) /\ (Unvisited(a) => Unvisited(a)')
    BY <1>1 DEF Live, Object, Pending, Unvisited, BeforeCards
  <1>4. FieldsOK'
    BY <1>1, <1>3 DEF Inv, FieldsOK
  <1>5. MarksOK'
    BY <1>1, <1>2, <1>3 DEF Inv, MarksOK, AfterStrings
  <1>6. PhaseOK'
    BY <1>1, <1>2 DEF Inv, PhaseOK, AfterStrings, Marking, Object
  <1> QED BY <1>1, <1>2, <1>4, <1>5, <1>6, MarkStep DEF Inv, TypeOK

LEMMA MarkStackInv ==
  ASSUME Inv, MarkStack
  PROVE  Inv'
  <1> USE DEF threadVars, stringVars
  <1>1. gcpc \in {"drain1", "drain2", "drain3"} /\ gcpc' = gcpc
        /\ UNCHANGED <<cls, field, card, stringVars, threadVars, gcpc, at, garbage>>
    BY DEF MarkStack, Collecting
  <1>2. PICK a \in stack : mark' = mark \cup Targets({a}) /\ stack' = (stack \ {a}) \cup (Targets({a}) \ mark)
    BY DEF MarkStack
  <1>3. gcpc \in Marking /\ gcpc' \in Marking
    BY <1>1 DEF Marking
  <1>4. a \in mark /\ stack \subseteq mark
    BY <1>3 DEF Inv, MarksOK
  <1>5. \A v \in Targets({a}) : Live(v) /\ v \in Addr
    BY <1>3, <1>4, MarkedTargets
  <1>6. mark' \subseteq Addr /\ stack' \subseteq Addr /\ stack' \subseteq mark'
    BY <1>2, <1>4, <1>5 DEF Inv, TypeOK
  <1>7. \A x : (Live(x)' <=> Live(x)) /\ (Pending(x)' <=> Pending(x)) /\ (Unvisited(x) <=> Unvisited(x)')
    BY <1>1 DEF Live, Object, Pending, Unvisited
  <1>8. FieldsOK'
    BY <1>1, <1>7 DEF Inv, FieldsOK
  <1>9. MarksOK'
    <2>1. \A x \in mark' : Live(x)'
      BY <1>2, <1>3, <1>5, <1>7 DEF Inv, MarksOK
    <2>2. ASSUME NEW x \in (mark' \ stack') \cap Tenured, field[x] \in Tenured \ mark'
          PROVE  \/ Pending(x)
                 \/ card[CardOf(x)] = "marked"
                 \/ card[CardOf(x)] = "processed" /\ Unvisited(x)
      <3>1. x # a
        <4> SUFFICES ASSUME x = a PROVE FALSE
          OBVIOUS
        <4>1. field[a] # Null /\ field[a] \in Targets({a})
          BY <2>2, SizeNat DEF Targets, Null
        <4> QED BY <4>1, <1>2, <2>2
      <3>2. x \in (mark \ stack) \cap Tenured /\ field[x] \in Tenured \ mark
        BY <1>2, <2>2, <3>1
      <3> QED BY <3>2, <1>3 DEF Inv, MarksOK
    <2>3. (gcpc # "class" => ClassObject \in mark') /\ \A x : Recorded(x) => Recorded(x)'
      BY <1>1, <1>2, <1>3 DEF Inv, MarksOK, Recorded
    <2>4. gcpc \in AfterStrings => \A x \in internal : Recorded(x)
      BY <1>3 DEF Inv, MarksOK, Recorded
    <2> QED BY <1>1, <1>6, <1>7, <2>1, <2>2, <2>3, <2>4 DEF MarksOK, Recorded
  <1>10. PhaseOK'
    BY <1>1, <1>3 DEF Inv, PhaseOK, AfterStrings, Marking, Object
  <1> QED BY <1>1, <1>3, <1>6, <1>8, <1>9, <1>10, MarkStep DEF Inv, TypeOK

LEMMA VisitCardInv ==
  ASSUME Inv, VisitCard
  PROVE  Inv'
  <1> USE DEF threadVars, stringVars, heapVars
  <1>0. PICK c : c = CardOf(at)
    OBVIOUS
  <1>1. /\ gcpc \in {"drain2", "cards"}
        /\ at \in Addr /\ at \in Nat /\ at >= 1 /\ (at - 1) % CardSize = 0
        /\ UNCHANGED <<cls, field, mark, stringVars, threadVars, stack, garbage>>
    <2>1. /\ gcpc \in {"drain2", "cards"}
          /\ UNCHANGED <<cls, field, mark, stringVars, threadVars, stack, garbage>>
      BY DEF VisitCard, Collecting
    <2>2. CASE gcpc = "drain2"
      <3>1. at = 1
        BY <2>2 DEF Inv, PhaseOK
      <3>2. 1 \in Addr /\ (1 - 1) % CardSize = 0
        BY SpaceAssumption DEF Addr, Tenured
      <3> QED BY <2>1, <3>1, <3>2
    <2>3. CASE gcpc = "cards"
      BY <2>1, <2>3, SizeNat DEF Inv, PhaseOK
    <2> QED BY <2>1, <2>2, <2>3
  <1>2. c \in Cards /\ \A a \in Addr : CardOf(a) \in Cards
    BY <1>0, <1>1, CardOfType
  <1>3. \A a \in Addr : CardOf(a) = c <=> at <= a /\ a < at + CardSize
    BY <1>0, <1>1, SizeNat, CardExtent
  <1>4. \A a : (Live(a)' <=> Live(a)) /\ (Pending(a)' <=> Pending(a))
    <2>1. gcpc' # "sweep"
      BY <1>1 DEF VisitCard, NextCard
    <2> QED BY <1>1, <2>1 DEF Live, Object, Pending
  <1>5. gcpc \in Marking /\ gcpc \in AfterStrings
    BY <1>1 DEF Marking, AfterStrings
  <1>6. \A a : Recorded(a) => Recorded(a)'
    BY <1>1 DEF Recorded
  <1>7. CASE card[c] = "clear" \/ at \in Young
    <2>1. /\ card' = [card EXCEPT ![c] = IF @ = "clear" THEN @ ELSE "marked"]
          /\ at' = at + CardSize /\ gcpc' = IF at' \in Addr THEN "cards" ELSE "drain3"
      BY <1>0, <1>7 DEF VisitCard, NextCard
    <2>2. /\ card' \in [Cards -> {"clear", "marked", "processed"}]
          /\ \A x \in Cards : card'[x] = card[x] \/ (card[x] # "clear" /\ card'[x] = "marked")
      BY <2>1, <1>2 DEF Inv, TypeOK
    <2>3. ASSUME NEW a \in Tenured, Unvisited(a), card[CardOf(a)] = "processed" PROVE Unvisited(a)' \/ card'[CardOf(a)] = "marked"
      <3>1. a \in Addr /\ a \in Nat /\ CardSize \in Nat
        BY SizeNat, SpaceAssumption
      <3>2. at <= a
        BY <2>3, <1>1, <3>1, SizeNat DEF Unvisited, BeforeCards, Inv, PhaseOK
      <3>3. CASE CardOf(a) = c
        BY <3>1, <3>3, <2>1, <2>3, <1>2 DEF Inv, TypeOK
      <3>4. CASE CardOf(a) # c
        <4>1. at + CardSize <= a
          BY <3>1, <3>2, <3>4, <1>1, <1>3
        <4>2. at' \in Addr
          BY <4>1, <3>1, <2>1, <1>1, SizeNat
        <4> QED BY <4>1, <4>2, <2>1, <1>1 DEF Unvisited
      <3> QED BY <3>3, <3>4
    <2>4. FieldsOK'
      BY <1>1, <1>2, <1>4, <2>2, SizeNat DEF Inv, FieldsOK
    <2>5. MarksOK'
      <3>1. ASSUME NEW x \in (mark \ stack) \cap Tenured, field[x] \in Tenured \ mark
            PROVE  \/ Pending(x)'
                   \/ card'[CardOf(x)] = "marked"
                   \/ card'[CardOf(x)] = "processed" /\ Unvisited(x)'
        <4>1. \/ Pending(x)
              \/ card[CardOf(x)] = "marked"
              \/ card[CardOf(x)] = "processed" /\ Unvisited(x)
          BY <3>1, <1>5 DEF Inv, MarksOK
        <4>2. CardOf(x) \in Cards
          BY <1>2, SizeNat
        <4> QED BY <4>1, <4>2, <1>4, <2>2, <2>3
      <3>2. gcpc # "class" /\ gcpc' # "class"
        BY <1>1, <2>1
      <3> QED BY <3>1, <3>2, <1>1, <1>4, <1>5 DEF Inv, MarksOK
    <2>8. gcpc' \in Marking /\ gcpc' \in AfterStrings
      BY <2>1 DEF Marking, AfterStrings
    <2>6. PhaseOK'
      <3>1. (at' - 1) % CardSize = 0
        <4>1. at' - 1 = at + CardSize - 1
          BY <2>1, <1>1, SpaceAssumption
        <4> QED BY <4>1, <1>1, <2>1, CardStep
      <3>2. recording
        BY <1>5 DEF Inv, PhaseOK
      <3> QED BY <3>1, <3>2, <2>1, <2>8, <1>1, <1>5 DEF Inv, PhaseOK, Object
    <2>7. at' \in 0..(NumTenured + NumYoung + CardSize)
      BY <2>1, <1>1, SizeNat, SpaceAssumption DEF Size
    <2> QED BY <1>1, <1>5, <2>2, <2>4, <2>5, <2>6, <2>7, <2>8, MarkStep DEF Inv, TypeOK
  <1>8. CASE card[c] # "clear" /\ at \notin Young
    <2>1. card' = [card EXCEPT ![c] = "processed"] /\ gcpc' = "objects" /\ at' = at
      BY <1>0, <1>8 DEF VisitCard
    <2>2. /\ card' \in [Cards -> {"clear", "marked", "processed"}]
          /\ \A x \in Cards : card'[x] = IF x = c THEN "processed" ELSE card[x]
      BY <2>1, <1>2 DEF Inv, TypeOK
    <2>3. at \in Tenured /\ gcpc' \in Marking
      BY <1>1, <1>8, <2>1 DEF Addr, Marking
    <2>4. FieldsOK'
      <3>1. \A a \in Young : CardOf(a) # c
        <4> SUFFICES ASSUME NEW a \in Young, CardOf(a) = c PROVE FALSE
          OBVIOUS
        <4>1. at <= a /\ a < at + CardSize
          BY <1>3, SizeNat
        <4>2. at + CardSize <= NumTenured + 1
          BY <1>1, <2>3, TenuredCard
        <4> QED BY <4>1, <4>2, <1>1, SpaceAssumption DEF Young
      <3> QED BY <1>1, <1>2, <1>4, <1>8, <2>2, <3>1, SizeNat DEF Inv, FieldsOK
    <2>5. MarksOK'
      <3>1. ASSUME NEW x \in (mark \ stack) \cap Tenured, field[x] \in Tenured \ mark
            PROVE  \/ Pending(x)'
                   \/ card'[CardOf(x)] = "marked"
                   \/ card'[CardOf(x)] = "processed" /\ Unvisited(x)'
        <4>1. \/ Pending(x)
              \/ card[CardOf(x)] = "marked"
              \/ card[CardOf(x)] = "processed" /\ Unvisited(x)
          BY <3>1, <1>5 DEF Inv, MarksOK
        <4>2. CardOf(x) \in Cards /\ x \in Addr
          BY <1>2, SizeNat
        <4>3. CardOf(x) = c => Unvisited(x)'
          BY <4>2, <1>3, <2>1 DEF Unvisited
        <4>4. Unvisited(x) => Unvisited(x)'
          <5>1. gcpc = "drain2" => at = 1
            BY DEF Inv, PhaseOK
          <5>2. x \in Nat /\ 1 <= x
            BY <4>2, SizeNat
          <5> QED BY <1>1, <2>1, <5>1, <5>2 DEF Unvisited, BeforeCards
        <4> QED BY <4>1, <4>2, <4>3, <4>4, <1>4, <2>2
      <3>2. gcpc' \in AfterStrings
        BY <2>1 DEF AfterStrings
      <3> QED BY <3>1, <3>2, <1>1, <1>4, <1>5, <2>1 DEF Inv, MarksOK
    <2>6. PhaseOK'
      BY <2>1, <2>3, <1>1, <1>5 DEF Inv, PhaseOK, Object
    <2> QED BY <1>1, <1>5, <2>1, <2>2, <2>3, <2>4, <2>5, <2>6, MarkStep DEF Inv, TypeOK
  <1> QED BY <1>7, <1>8

LEMMA VisitCardObjectInv ==
  ASSUME Inv, VisitCardObject
  PROVE  Inv'
  <1> USE DEF threadVars, stringVars
  <1>1. /\ gcpc = "objects" /\ at \in Tenured /\ at \in Addr /\ at \in Nat
        /\ at' = at + 1
        /\ gcpc' = IF at % CardSize # 0 THEN "objects" ELSE IF at' \in Addr THEN "cards" ELSE "drain3"
        /\ UNCHANGED <<cls, field, card, stringVars, threadVars, garbage>>
    <2>1. gcpc = "objects" /\ at \in Tenured
      BY DEF VisitCardObject, Collecting, Inv, PhaseOK
    <2>2. at \in Addr /\ at \in Nat
      BY <2>1, SizeNat
    <2> QED BY <2>1, <2>2 DEF VisitCardObject, NextCard
  <1>2. PICK S : /\ S = IF Object(at) /\ at \in mark THEN Targets({at}) \cap Tenured ELSE {}
                 /\ mark' = mark \cup S /\ stack' = stack \cup S
    BY DEF VisitCardObject
  <1>3. gcpc \in Marking /\ gcpc' \in Marking /\ gcpc \in AfterStrings /\ gcpc' \in AfterStrings
    BY <1>1 DEF Marking, AfterStrings
  <1>4. \A v \in S : Live(v) /\ v \in Addr
    <2>1. at \in mark => \A v \in Targets({at}) : Live(v) /\ v \in Addr
      BY <1>3, MarkedTargets
    <2> QED BY <2>1, <1>2
  <1>5. mark' \subseteq Addr /\ stack' \subseteq Addr /\ stack' \subseteq mark'
    BY <1>2, <1>3, <1>4 DEF Inv, TypeOK, MarksOK
  <1>6. \A x : (Live(x)' <=> Live(x)) /\ (Pending(x)' <=> Pending(x))
    BY <1>1 DEF Live, Object, Pending
  <1>7. \A x \in Tenured : Unvisited(x) => x = at \/ Unvisited(x)'
    <2> SUFFICES ASSUME NEW x \in Tenured, Unvisited(x), x # at PROVE Unvisited(x)'
      OBVIOUS
    <2>1. at < x /\ x \in Nat /\ x \in Addr
      BY <1>1, SizeNat DEF Unvisited, BeforeCards
    <2>2. at' <= x /\ at' \in Addr
      BY <1>1, <2>1, SizeNat
    <2> QED BY <1>1, <2>2 DEF Unvisited
  <1>8. FieldsOK'
    BY <1>1, <1>6 DEF Inv, FieldsOK
  <1>9. MarksOK'
    <2>1. \A x \in mark' : Live(x)'
      BY <1>2, <1>3, <1>4, <1>6 DEF Inv, MarksOK
    <2>2. ASSUME NEW x \in (mark' \ stack') \cap Tenured, field[x] \in Tenured \ mark'
          PROVE  \/ Pending(x)
                 \/ card[CardOf(x)] = "marked"
                 \/ card[CardOf(x)] = "processed" /\ Unvisited(x)'
      <3>1. x \in (mark \ stack) \cap Tenured /\ field[x] \in Tenured \ mark
        BY <1>2, <2>2
      <3>2. x # at
        <4> SUFFICES ASSUME x = at PROVE FALSE
          OBVIOUS
        <4>1. Object(at) /\ at \in mark
          BY <3>1, <1>3 DEF Inv, MarksOK, Live
        <4>2. field[at] # Null /\ field[at] \in Targets({at}) \cap Tenured
          BY <2>2, SizeNat DEF Targets, Null, Tenured
        <4> QED BY <4>1, <4>2, <1>2, <2>2
      <3> QED BY <3>1, <3>2, <1>3, <1>7 DEF Inv, MarksOK
    <2>3. ClassObject \in mark' /\ \A x : Recorded(x) => Recorded(x)'
      BY <1>1, <1>2, <1>3 DEF Inv, MarksOK, Recorded
    <2>4. \A x \in internal : Recorded(x)
      BY <1>3 DEF Inv, MarksOK, Recorded
    <2> QED BY <1>1, <1>3, <1>5, <1>6, <2>1, <2>2, <2>3, <2>4 DEF MarksOK, Recorded
  <1>10. PhaseOK'
    <2>1. gcpc' = "cards" => at' \in Addr /\ (at' - 1) % CardSize = 0
      <3>1. at' - 1 = at
        BY <1>1
      <3> QED BY <3>1, <1>1
    <2>2. gcpc' = "objects" => at' \in Tenured
      <3>1. at % CardSize # 0 => at # NumTenured
        BY SpaceAssumption
      <3> QED BY <3>1, <1>1, SpaceAssumption DEF Tenured
    <2>3. recording
      BY <1>3 DEF Inv, PhaseOK
    <2> QED BY <1>1, <1>3, <2>1, <2>2, <2>3 DEF Inv, PhaseOK, Object
  <1>11. at' \in 0..(NumTenured + NumYoung + CardSize)
    BY <1>1, SpaceAssumption DEF Tenured
  <1> QED BY <1>1, <1>3, <1>5, <1>8, <1>9, <1>10, <1>11, MarkStep DEF Inv, TypeOK

(***************************************************************************)
(* The sweep.                                                              *)
(***************************************************************************)
LEMMA HeapFrame ==
  ASSUME Inv, \A a : Live(a)' <=> Live(a),
         \A a \in Addr : Live(a) => cls'[a] = cls[a] /\ field'[a] = field[a],
         UNCHANGED <<reg, table, internal, newStrings>>
  PROVE  HeapOK' /\ StringsOK'
  <1>0. \A a : Live(a) => a \in Addr
    BY DEF Live, Object
  <1>1. \A v : GoodRef(v) => GoodRef(v)'
    BY <1>0 DEF GoodRef, Interned
  <1>2. HeapOK'
    BY <1>1 DEF Inv, HeapOK
  <1>3. \A a \in Interned : Live(a) /\ a \in Addr
    BY <1>0 DEF Inv, StringsOK
  <1>4. StringsOK'
    BY <1>3 DEF Inv, StringsOK, Interned
  <1> QED BY <1>2, <1>4

LEMMA SweepSlotInv ==
  ASSUME Inv, SweepSlot
  PROVE  Inv'
  <1> USE DEF threadVars, stringVars
  <1>0. PICK b : b = at
    OBVIOUS
  <1>1. /\ gcpc = "sweep" /\ b \in Tenured /\ at' = b + 1
        /\ UNCHANGED <<mark, stringVars, threadVars, gcpc, stack>>
    BY <1>0 DEF SweepSlot, Collecting
  <1>12. /\ card' \in [Cards -> {"clear", "marked", "processed"}]
         /\ \A x \in Addr : card'[CardOf(x)] = card[CardOf(x)] \/ cls'[x] = "free"
    <2>1. CASE at = NumTenured
      <3>1. PICK pools \in SUBSET EmptyCards' :
                card' = [c \in Cards |-> IF c \in pools THEN "clear" ELSE card[c]]
        BY <2>1 DEF SweepSlot
      <3>2. \A x \in Addr : CardOf(x) \in Cards
        BY CardOfType
      <3>3. \A x \in Addr : CardOf(x) \in pools => cls'[x] = "free"
        BY <3>1 DEF EmptyCards, CardOf
      <3>4. \A x \in Addr : card'[CardOf(x)] = card[CardOf(x)] \/ cls'[x] = "free"
        BY <3>1, <3>2, <3>3
      <3>5. card' \in [Cards -> {"clear", "marked", "processed"}]
        BY <3>1 DEF Inv, TypeOK
      <3> QED BY <3>4, <3>5
    <2>2. CASE at # NumTenured
      BY <2>2 DEF SweepSlot, Inv, TypeOK
    <2> QED BY <2>1, <2>2
  <1>2. b \in Addr /\ b \in Nat /\ b # Null
    BY <1>1, SizeNat DEF Null
  <1>3. \A a \in garbage : b <= a /\ a \notin mark /\ Object(a) /\ a \in Tenured /\ a \in Nat
    BY <1>0, <1>1, SizeNat DEF Inv, PhaseOK, TypeOK
  <1>4. /\ \A x \in Addr : x # b => cls'[x] = cls[x] /\ field'[x] = field[x]
        /\ \A x : x # b => (x \in garbage' <=> x \in garbage)
        /\ b \notin garbage' /\ garbage' \subseteq garbage
        /\ cls' \in [Addr -> {"free", "blank", "inst"} \cup Strings]
        /\ field' \in [Addr -> Addr \cup {Null}]
        /\ Live(b) => cls'[b] = cls[b] /\ field'[b] = field[b]
        /\ ~ Live(b) => cls'[b] \in {"free", "blank"}
        /\ Object(b) \/ cls'[b] = cls[b]
        /\ (cls'[b] = cls[b] /\ field'[b] = field[b]) \/ (cls'[b] = "free" /\ field'[b] = Null)
    <2>1. CASE Object(b) /\ b \notin mark
      <3>1. /\ cls' = [cls EXCEPT ![b] = "free"]
            /\ field' = [field EXCEPT ![b] = Null]
            /\ garbage' = garbage \ {b}
        BY <1>0, <2>1 DEF SweepSlot
      <3>2. ~ Live(b)
        BY <1>0, <1>1, <1>2, <2>1 DEF Live
      <3> QED BY <3>1, <3>2, <2>1, <1>2 DEF Inv, TypeOK
    <2>2. CASE ~ (Object(b) /\ b \notin mark)
      <3>1. UNCHANGED <<cls, field, garbage>>
        BY <1>0, <2>2 DEF SweepSlot
      <3>2. b \notin garbage
        BY <1>3, <2>2
      <3>3. Live(b) <=> Object(b)
        BY <1>0, <1>1, <2>2, <3>2 DEF Live
      <3>4. ~ Object(b) => cls[b] \in {"free", "blank"}
        BY <1>2 DEF Object
      <3> QED BY <3>1, <3>2, <3>3, <3>4 DEF Inv, TypeOK
    <2> QED BY <2>1, <2>2
  <1>5. \A x : Live(x)' <=> Live(x)
    <2>1. ASSUME NEW x, x # b PROVE Live(x)' <=> Live(x)
      <3>1. x \in Tenured => (at' <= x <=> at <= x)
        BY <1>0, <1>1, <1>2, <2>1 DEF Tenured
      <3>2. Object(x)' <=> Object(x)
        BY <1>4, <2>1 DEF Object
      <3> QED BY <1>1, <1>4, <2>1, <3>1, <3>2 DEF Live
    <2>2. Live(b) => Live(b)'
      BY <1>1, <1>2, <1>4 DEF Live, Object
    <2>3. Live(b)' => Live(b)
      BY <1>4 DEF Live, Object
    <2> QED BY <2>1, <2>2, <2>3
  <1>6. HeapOK' /\ StringsOK'
    BY <1>1, <1>4, <1>5, HeapFrame
  <1>7. TypeOK'
    <2>1. at' \in 0..(NumTenured + NumYoung + CardSize)
      BY <1>1, <1>2, SpaceAssumption DEF Tenured
    <2> QED BY <2>1, <1>1, <1>4, <1>12 DEF Inv, TypeOK
  <1>8. FieldsOK'
    <2>1. \A x : Pending(x)' <=> Pending(x)
      BY <1>1 DEF Pending
    <2>2. \A x \in Addr : (cls'[x] = cls[x] /\ field'[x] = field[x]) \/ (cls'[x] = "free" /\ field'[x] = Null)
      BY <1>4
    <2>3. \A x \in Addr : cls'[x] # "inst" => field'[x] = Null
      BY <2>2 DEF Inv, FieldsOK
    <2>4. \A x \in Addr : card'[CardOf(x)] = card[CardOf(x)] \/ field'[x] = Null
      BY <1>12, <2>3
    <2>5. \A x \in Addr : field'[x] = field[x] \/ field'[x] = Null
      BY <2>2
    <2>6. Null \notin Young
      BY SizeNat DEF Null
    <2> QED BY <2>1, <2>3, <2>4, <2>5, <2>6, SizeNat DEF Inv, FieldsOK
  <1>9. OpsOK'
    <2>1. ASSUME NEW t \in Threads PROVE OpOK(t)'
      <3>1. OpOK(t) /\ op'[t] = op[t]
        BY <1>1 DEF Inv, OpsOK
      <3>2. op[t].pc \in Initialising => cls'[op[t].addr] = "blank"
        <4> SUFFICES ASSUME op[t].pc \in Initialising PROVE cls'[op[t].addr] = "blank"
          OBVIOUS
        <4>1. op[t].addr \in Addr /\ cls[op[t].addr] = "blank"
          BY <3>1, SizeNat DEF OpOK
        <4>2. ~ Object(op[t].addr)
          BY <4>1 DEF Object
        <4> QED BY <1>4, <4>1, <4>2
      <3>3. \A x : Live(x) => x \in Addr /\ cls'[x] = cls[x]
        BY <1>4 DEF Live, Object
      <3>4. op[t].pc \in {"barrier", "weakInsert", "internalInsert", "record"} => Live(op[t].addr)'
        BY <1>5, <3>1 DEF OpOK, Live, Object
      <3> QED BY <1>1, <1>5, <3>1, <3>2, <3>3, <3>4 DEF OpOK
    <2> QED BY <1>1, <2>1 DEF Inv, OpsOK
  <1>10. MarksOK' /\ YoungMarksOK'
    BY <1>1 DEF Inv, MarksOK, YoungMarksOK, Marking
  <1>11. PhaseOK'
    <2>1. at' \in 1..(NumTenured + 1)
      BY <1>1, SpaceAssumption DEF Tenured
    <2>2. \A x \in garbage' : x # b /\ x \in garbage
      BY <1>4
    <2>3. \A x \in garbage' : at' <= x /\ x \notin mark'
      BY <2>2, <1>1, <1>2, <1>3
    <2>4. \A x \in garbage' : Object(x)'
      BY <2>2, <1>3, <1>4 DEF Object
    <2>5. gcpc' \notin {"initial", "drain2", "cards", "objects", "visitStrings"} \cup AfterStrings
      BY <1>1 DEF AfterStrings
    <2> QED BY <1>1, <2>1, <2>3, <2>4, <2>5 DEF PhaseOK
  <1> QED BY <1>6, <1>7, <1>8, <1>9, <1>10, <1>11 DEF Inv

(* After the sweep an object is live, whatever its mark. *)
LEMMA AfterSweep ==
  ASSUME Inv, UNCHANGED <<cls, field, card, stringVars, threadVars, stack, garbage>>,
         gcpc \in {"sweep", "unmark", "end"}, gcpc' \in {"unmark", "end", "idle"},
         gcpc = "sweep" => at \notin Tenured,
         mark' \subseteq mark,
         gcpc' = "idle" => Stopped,
         at' \in 0..(NumTenured + NumYoung + CardSize)
  PROVE  Inv'
  <1> USE DEF threadVars, stringVars
  <1>1. gcpc = "sweep" => at = NumTenured + 1
    BY SpaceAssumption DEF Inv, PhaseOK, Tenured
  <1>2. garbage = {}
    <2> SUFFICES ASSUME NEW a \in garbage PROVE FALSE
      OBVIOUS
    <2>1. gcpc = "sweep" /\ at <= a /\ a \in Tenured
      BY DEF Inv, PhaseOK, TypeOK, Marking
    <2> QED BY <1>1, <2>1, SpaceAssumption DEF Tenured
  <1>3. \A x : Live(x)' <=> Live(x)
    BY <1>1, <1>2, SpaceAssumption DEF Live, Object, Tenured
  <1>4. HeapOK' /\ StringsOK'
    BY <1>3, HeapFrame
  <1>5. TypeOK'
    BY SpaceAssumption DEF Inv, TypeOK, GcPcs
  <1>6. FieldsOK'
    BY DEF Inv, FieldsOK, Pending
  <1>7. OpsOK'
    <2>1. ASSUME NEW t \in Threads PROVE OpOK(t)'
      <3>1. OpOK(t) /\ op'[t] = op[t]
        BY DEF Inv, OpsOK
      <3>2. op[t].pc \in {"setMark", "recheck"} => gcpc' \in {"sweep", "unmark", "end"}
        BY DEF Stopped, AtSafepoint
      <3> QED BY <1>3, <3>1, <3>2 DEF OpOK
    <2> QED BY <2>1 DEF Inv, OpsOK
  <1>8. MarksOK' /\ YoungMarksOK'
    BY DEF Inv, MarksOK, YoungMarksOK, Marking
  <1>9. PhaseOK'
    BY <1>2 DEF PhaseOK, AfterStrings
  <1> QED BY <1>4, <1>5, <1>6, <1>7, <1>8, <1>9 DEF Inv

LEMMA SweepEndInv ==
  ASSUME Inv, SweepEnds \/ UnMark \/ CycleEnds
  PROVE  Inv'
  <1> USE DEF heapVars
  <1>1. CASE SweepEnds
    BY <1>1, AfterSweep, SpaceAssumption DEF SweepEnds, Collecting
  <1>2. CASE UnMark
    BY <1>2, AfterSweep DEF UnMark, Collecting, Inv, TypeOK
  <1>3. CASE CycleEnds
    BY <1>3, AfterSweep DEF CycleEnds, Inv, TypeOK
  <1> QED BY <1>1, <1>2, <1>3

(***************************************************************************)
(* The two pauses of a tenured collection.                                 *)
(***************************************************************************)
LEMMA RootsType ==
  ASSUME Inv
  PROVE  /\ LocalRoots \subseteq Addr
         /\ \A v \in LocalRoots : GoodRef(v) /\ v # Null /\ Live(v)
         /\ ClassObject \in Addr
  <1>1. \A v \in LocalRoots : \E t \in Threads, r \in Regs : v = reg[t][r] /\ v # Null
    BY DEF LocalRoots
  <1>2. \A v \in LocalRoots : GoodRef(v) /\ v # Null /\ Live(v) /\ v \in Addr
    BY <1>1 DEF Inv, HeapOK, GoodRef, Live, Object
  <1>3. ClassObject \in Addr
    BY DEF Inv, HeapOK, Live, Object
  <1> QED BY <1>2, <1>3

LEMMA ReachableClosed ==
  ASSUME Inv
  PROVE  /\ LocalRoots \cup {ClassObject} \cup internal \subseteq Reachable
         /\ Reachable \subseteq Addr
         /\ Targets(Reachable) \subseteq Reachable
  <1> DEFINE S == LocalRoots \cup {ClassObject} \cup internal
  <1>1. S \in SUBSET Addr /\ field \in [Addr -> Addr \cup {Null}]
    BY RootsType DEF Inv, TypeOK
  <1>2. Reachable = Closure(S, Addr, {})
    BY DEF Reachable, Roots
  <1> HIDE DEF S
  <1>3. S \subseteq Closure(S, Addr, {})
    BY ClosureBase
  <1>4. /\ Closure(S, Addr, {}) \subseteq Addr
        /\ Targets(Closure(S, Addr, {}) \cap Addr) \ {} \subseteq Closure(S, Addr, {})
    BY <1>1, ClosureClosed
  <1>5. Closure(S, Addr, {}) \cap Addr = Closure(S, Addr, {})
    BY <1>4
  <1>6. Targets(Closure(S, Addr, {})) \subseteq Closure(S, Addr, {})
    BY <1>4, <1>5
  <1> QED BY <1>2, <1>3, <1>4, <1>6 DEF S

LEMMA InitialMarkInv ==
  ASSUME Inv, InitialMark
  PROVE  Inv'
  <1> USE DEF threadVars, stringVars
  <1> DEFINE Y == {y \in Young : Object(y)}
             D == Closure(Reachable \cup Y, Addr, {})
  <1>1. /\ gcpc = "initial" /\ gcpc' = "class" /\ mark' = LocalRoots /\ stack' = LocalRoots
        /\ garbage' = {a \in Tenured : Object(a)} \ (D \cup table)
        /\ UNCHANGED <<cls, field, card, stringVars, threadVars, at>>
    BY DEF InitialMark
  <1>2. garbage = {} /\ Stopped
    BY <1>1 DEF Inv, PhaseOK, Marking
  <1>3. Reachable \cup Y \in SUBSET Addr /\ field \in [Addr -> Addr \cup {Null}]
    BY ReachableClosed, SizeNat DEF Inv, TypeOK
  <1>4. Reachable \cup Y \subseteq D /\ D \subseteq Addr /\ Targets(D) \subseteq D
    <2>1. D \subseteq Addr /\ Targets(D \cap Addr) \ {} \subseteq D
      BY <1>3, ClosureClosed, Zenon
    <2>2. D \cap Addr = D
      BY <2>1
    <2>3. Targets(D) \subseteq D
      BY <2>1, <2>2
    <2>4. Reachable \cup Y \subseteq D
      BY ClosureBase, Zenon
    <2> QED BY <2>1, <2>3, <2>4
  <1> HIDE DEF D
  <1>5. \A x : Live(x) <=> Object(x)
    BY <1>1, <1>2 DEF Live
  <1>6. \A x : (Object(x)' <=> Object(x)) /\ (Live(x)' <=> Object(x) /\ x \notin garbage')
    BY <1>1 DEF Live, Object
  <1>7. \A x : x \in D \cup table \cup Young => x \notin garbage'
    BY <1>1, SpaceAssumption DEF Tenured, Young
  <1>8. LocalRoots \cup {ClassObject} \cup internal \subseteq D
    BY <1>4, ReachableClosed
  <1>9. \A v \in D : GoodRef(v) => GoodRef(v)'
    BY <1>1, <1>5, <1>6, <1>7 DEF GoodRef, Interned
  <1>10. HeapOK'
    <2>1. Live(ClassObject)'
      BY <1>5, <1>6, <1>7, <1>8 DEF Inv, HeapOK
    <2>2. ASSUME NEW t \in Threads, NEW r \in Regs PROVE GoodRef(reg[t][r])'
      <3>1. reg'[t][r] = reg[t][r]
        BY <1>1
      <3>2. GoodRef(reg[t][r])
        BY DEF Inv, HeapOK
      <3>3. reg[t][r] # Null => reg[t][r] \in D
        BY <1>8 DEF LocalRoots
      <3> QED BY <1>1, <1>5, <1>6, <1>7, <3>1, <3>2, <3>3 DEF GoodRef, Interned
    <2>3. ASSUME NEW a \in Addr, Live(a)' PROVE GoodRef(field[a])'
      <3>1. Object(a) /\ a \notin garbage' /\ GoodRef(field[a]) /\ field'[a] = field[a]
        BY <1>1, <1>5, <1>6, <2>3 DEF Inv, HeapOK
      <3>2. a \in D \cup table
        BY <1>1, <1>4, <3>1 DEF Addr
      <3>3. CASE a \in D
        <4>1. field[a] # Null => field[a] \in D
          BY <1>4, <3>3 DEF Targets
        <4> QED BY <1>1, <1>5, <1>6, <1>7, <3>1, <4>1 DEF GoodRef, Interned
      <3>4. CASE a \in table
        <4>1. cls[a] # "inst"
          BY <3>4, ThreadAssumption DEF Inv, StringsOK, Interned
        <4>2. field[a] = Null
          BY <4>1 DEF Inv, FieldsOK
        <4> QED BY <3>1, <4>2 DEF GoodRef
      <3> QED BY <3>2, <3>3, <3>4
    <2>4. GoodRef(ClassObject)'
      BY <1>8, <1>9 DEF Inv, HeapOK, ClassObject
    <2> QED BY <2>1, <2>2, <2>3, <2>4 DEF HeapOK
  <1>11. StringsOK'
    <2>1. \A a \in Interned : Live(a)'
      BY <1>5, <1>6, <1>7, <1>8 DEF Inv, StringsOK, Interned
    <2> QED BY <1>1, <2>1 DEF Inv, StringsOK, Interned
  <1>12. TypeOK'
    BY <1>1, RootsType DEF Inv, TypeOK, GcPcs
  <1>13. FieldsOK'
    BY <1>1 DEF Inv, FieldsOK, Pending
  <1>14. OpsOK'
    <2>1. ASSUME NEW t \in Threads PROVE OpOK(t)'
      <3>1. OpOK(t) /\ op'[t] = op[t] /\ op[t].pc \in {"run", "weakNew", "internalNew"}
        BY <1>1, <1>2 DEF Inv, OpsOK, Stopped, AtSafepoint
      <3> QED BY <3>1 DEF OpOK, Initialising
    <2> QED BY <1>1, <2>1 DEF Inv, OpsOK
  <1>15. MarksOK'
    <2>1. \A v \in LocalRoots : Live(v)'
      BY <1>5, <1>6, <1>7, <1>8, RootsType
    <2> QED BY <1>1, <2>1 DEF MarksOK, AfterStrings
  <1>16. YoungMarksOK'
    BY <1>1 DEF YoungMarksOK
  <1>17. PhaseOK'
    BY <1>1, <1>6 DEF PhaseOK, AfterStrings, Marking
  <1> QED BY <1>10, <1>11, <1>12, <1>13, <1>14, <1>15, <1>16, <1>17 DEF Inv

(* What ReMark marks: nothing dead; the local roots, the class and the     *)
(* internal strings; and what marked and young objects refer to.           *)
LEMMA ReMarkedFacts ==
  ASSUME Inv, gcpc = "drain3", stack = {}, Stopped
  PROVE  /\ \A v \in ReMarked : Live(v)
         /\ LocalRoots \cup {ClassObject} \cup internal \subseteq ReMarked
         /\ \A a \in Addr : Live(a) /\ (a \in Young \/ a \in ReMarked) =>
               (field[a] # Null => field[a] \in Young \/ field[a] \in ReMarked)
  <1> DEFINE m1 == mark \cup LocalRoots
             from == {a \in Addr : Object(a) /\ card[CardOf(a)] = "marked" /\ (a \in Young \/ a \in m1)}
             pushed == LocalRoots \cup (Targets(from) \cap Tenured)
             C == Closure(pushed, Addr, mark)
             L == {a \in Addr : Live(a)}
  <1>1. ReMarked = mark \cup C \cup newStrings
    BY DEF ReMarked
  <1>2. /\ gcpc \in Marking /\ gcpc \in AfterStrings /\ stack = {}
        /\ \A x : ~ Unvisited(x) /\ ~ Pending(x)
        /\ \A t \in Threads : op[t].pc # "record"
    BY DEF Inv, PhaseOK, Marking, AfterStrings, Unvisited, BeforeCards, Pending, Stopped, AtSafepoint
  <1>3. mark \subseteq L /\ ClassObject \in mark /\ \A x \in internal : x \in mark \cup newStrings
    BY <1>2 DEF Inv, MarksOK, Live, Object
  <1>4. LocalRoots \subseteq L
    BY RootsType
  <1>5. \A a \in Young : Object(a) => a \in L
    <2>1. \A a \in Young : a \notin Tenured /\ a \in Addr
      BY SpaceAssumption DEF Young, Tenured, Addr
    <2>2. garbage \subseteq Tenured
      BY DEF Inv, TypeOK
    <2> QED BY <2>1, <2>2 DEF Live
  <1>6. from \subseteq L
    BY <1>3, <1>4, <1>5
  <1>7. \A a \in L : field[a] # Null => field[a] \in L
    BY DEF Inv, HeapOK, GoodRef, Live, Object
  <1>8. Targets(L) \subseteq L
    BY <1>7 DEF Targets
  <1>9. Targets(from) \subseteq L
    BY <1>6, <1>7 DEF Targets
  <1>10. pushed \subseteq L /\ pushed \in SUBSET Addr /\ LocalRoots \subseteq pushed
    BY <1>4, <1>9
  <1>11. newStrings \subseteq L
    BY DEF Inv, StringsOK, Interned, Live, Object
  <1>12. \A a \in from : field[a] \in Tenured => field[a] \in pushed
    BY SizeNat DEF Targets, Null, Tenured
  <1>13. \A a \in Addr : a \in from <=> Object(a) /\ card[CardOf(a)] = "marked" /\ (a \in Young \/ a \in m1)
    OBVIOUS
  <1> HIDE DEF pushed, from
  <1>14. C \subseteq L
    <2>1. Targets(L \cap Addr) \ mark \subseteq L
      <3>1. L \cap Addr = L
        OBVIOUS
      <3> QED BY <3>1, <1>8
    <2> HIDE DEF L
    <2> QED BY <1>10, <2>1, ClosureLeast
  <1>15. pushed \subseteq C
    BY ClosureBase
  <1>16. Targets(C \cap Addr) \ mark \subseteq C
    <2>1. field \in [Addr -> Addr \cup {Null}]
      BY DEF Inv, TypeOK
    <2> QED BY <1>10, <2>1, ClosureClosed
  <1> HIDE DEF C
  <1>17. \A v \in ReMarked : Live(v)
    BY <1>1, <1>3, <1>11, <1>14
  <1>18. LocalRoots \cup {ClassObject} \cup internal \subseteq ReMarked
    BY <1>1, <1>3, <1>10, <1>15
  <1>19. ASSUME NEW a \in Addr, Live(a), a \in Young \/ a \in ReMarked, field[a] # Null
         PROVE  field[a] \in Young \/ field[a] \in ReMarked
    <2>1. Object(a) /\ field[a] \in Addr
      BY <1>19 DEF Live, Inv, TypeOK
    <2> SUFFICES ASSUME field[a] \in Tenured PROVE field[a] \in ReMarked
      BY <2>1 DEF Addr
    <2>2. CASE a \in from
      BY <2>2, <1>1, <1>12, <1>15
    <2>3. CASE a \in Young
      <3>1. card[CardOf(a)] = "marked"
        BY <2>3, <1>2, <1>19 DEF Inv, FieldsOK
      <3> QED BY <2>1, <2>2, <2>3, <3>1, <1>13
    <2>4. CASE a \in C
      BY <2>4, <1>1, <1>16, <1>19 DEF Targets
    <2>5. CASE a \in newStrings
      <3>1. cls[a] # "inst"
        BY <2>5, ThreadAssumption DEF Inv, StringsOK, Interned
      <3> QED BY <3>1, <1>19 DEF Inv, FieldsOK
    <2>6. CASE a \in mark /\ a \notin Young
      <3>1. a \in (mark \ stack) \cap Tenured
        BY <2>6, <1>2 DEF Addr
      <3>2. field[a] \in mark \/ card[CardOf(a)] = "marked"
        BY <3>1, <1>2 DEF Inv, MarksOK
      <3> QED BY <3>2, <2>1, <2>2, <2>6, <1>1, <1>13
    <2> QED BY <2>3, <2>4, <2>5, <2>6, <1>1, <1>19
  <1> QED BY <1>17, <1>18, <1>19

LEMMA ReMarkInv ==
  ASSUME Inv, ReMark
  PROVE  Inv'
  <1> USE DEF threadVars, stringVars
  <1>0. PICK R : R = ReMarked
    OBVIOUS
  <1>1. /\ gcpc = "drain3" /\ stack = {} /\ Stopped /\ gcpc' = "sweep" /\ at' = 1
        /\ mark' = R \ Young /\ table' = {a \in table : a \in Young \/ a \in R \/ ~ Object(a)}
        /\ newStrings' = {} /\ recording' = FALSE
        /\ UNCHANGED <<cls, field, card, internal, threadVars, stack, garbage>>
    BY <1>0 DEF ReMark, SweepStringTable
  <1>2. /\ \A v \in R : Live(v)
        /\ LocalRoots \cup {ClassObject} \cup internal \subseteq R
        /\ \A a \in Addr : Live(a) /\ (a \in Young \/ a \in R) =>
              (field[a] # Null => field[a] \in Young \/ field[a] \in R)
    BY <1>0, <1>1, ReMarkedFacts
  <1>3. \A x : Object(x)' <=> Object(x)
    BY <1>1 DEF Object
  <1>4. \A x : Live(x)' <=> Live(x) /\ (x \in Young \/ x \in R)
    <2>1. \A x \in Tenured : x \notin Young /\ 1 <= x
      BY SpaceAssumption DEF Tenured, Young
    <2>2. \A x : Object(x) => x \in Tenured \/ x \in Young
      BY DEF Object, Addr
    <2> QED BY <1>1, <1>3, <2>1, <2>2 DEF Live
  <1>5. \A v : GoodRef(v) /\ (v \in Young \/ v \in R) => GoodRef(v)'
    BY <1>1, <1>4 DEF GoodRef, Interned
  <1>6. HeapOK'
    <2>1. Live(ClassObject)'
      BY <1>2, <1>4 DEF Inv, HeapOK
    <2>2. ASSUME NEW t \in Threads, NEW r \in Regs PROVE GoodRef(reg[t][r])'
      <3>1. reg'[t][r] = reg[t][r]
        BY <1>1
      <3>2. GoodRef(reg[t][r])
        BY DEF Inv, HeapOK
      <3>3. reg[t][r] # Null => reg[t][r] \in R
        BY <1>2 DEF LocalRoots
      <3> QED BY <1>1, <1>4, <3>1, <3>2, <3>3 DEF GoodRef, Interned
    <2>3. ASSUME NEW a \in Addr, Live(a)' PROVE GoodRef(field[a])'
      <3>1. Live(a) /\ (a \in Young \/ a \in R) /\ field'[a] = field[a]
        BY <1>1, <1>4, <2>3
      <3>2. GoodRef(field[a])
        BY <3>1 DEF Inv, HeapOK
      <3>3. field[a] # Null => field[a] \in Young \/ field[a] \in R
        BY <3>1, <1>2
      <3> QED BY <1>1, <1>4, <3>1, <3>2, <3>3 DEF GoodRef, Interned
    <2>4. GoodRef(ClassObject)'
      BY <1>2, <1>5 DEF Inv, HeapOK, ClassObject
    <2> QED BY <2>1, <2>2, <2>3, <2>4 DEF HeapOK
  <1>7. StringsOK'
    <2>1. \A a \in table' \cup internal' : Live(a)' /\ cls'[a] \in Strings
      BY <1>1, <1>2, <1>4 DEF Inv, StringsOK, Interned, Live
    <2> QED BY <1>1, <2>1 DEF Inv, StringsOK, Interned
  <1>8. TypeOK'
    <2>1. R \subseteq Addr
      BY <1>2 DEF Live, Object
    <2>2. mark' \subseteq Addr /\ table' \subseteq Addr
      BY <1>1, <2>1 DEF Inv, TypeOK
    <2>3. at' \in 0..(NumTenured + NumYoung + CardSize)
      BY <1>1, SpaceAssumption
    <2> QED BY <1>1, <2>2, <2>3 DEF Inv, TypeOK, GcPcs
  <1>9. FieldsOK'
    BY <1>1 DEF Inv, FieldsOK, Pending
  <1>10. OpsOK'
    <2>1. ASSUME NEW t \in Threads PROVE OpOK(t)'
      <3>1. OpOK(t) /\ op'[t] = op[t] /\ op[t].pc \in {"run", "weakNew", "internalNew"}
        BY <1>1 DEF Inv, OpsOK, Stopped, AtSafepoint
      <3> QED BY <3>1 DEF OpOK, Initialising
    <2> QED BY <1>1, <2>1 DEF Inv, OpsOK
  <1>11. MarksOK' /\ YoungMarksOK'
    BY <1>1 DEF MarksOK, YoungMarksOK, Marking
  <1>12. PhaseOK'
    <2>1. \A a \in garbage : 1 <= a /\ a \notin R /\ Object(a)
      BY <1>2, SpaceAssumption DEF Live, Inv, PhaseOK, TypeOK, Tenured
    <2> QED BY <1>1, <1>3, <2>1, SpaceAssumption DEF PhaseOK, AfterStrings
  <1> QED BY <1>6, <1>7, <1>8, <1>9, <1>10, <1>11, <1>12 DEF Inv

(***************************************************************************)
(* The young collection.                                                   *)
(***************************************************************************)
\* A reference after the move of the objects of A to the slots dst gives.
Fwd(A, dst, a) == IF a \in A THEN dst[a] ELSE a

\* The move as the invariant sees it: the objects of A, which are all the young
\* ones that are referred to, are now where dst says, and every reference that
\* is kept has been redirected.
MoveView(A, dst) ==
  /\ \A a, b \in A : dst[a] = dst[b] => a = b
  /\ \A a \in A : Object(a)
  /\ \A v \in LocalRoots \cap Young : v \in A
  /\ \A a \in Tenured : field[a] \in Young => field[a] \in A
  /\ \A a \in A : field[a] \in Young => field[a] \in A
  /\ cls' \in [Addr -> {"free", "blank", "inst"} \cup Strings]
  /\ field' \in [Addr -> Addr \cup {Null}]
  /\ \A x \in Young : cls'[x] = "free" /\ field'[x] = Null
  /\ \A a \in A : cls'[dst[a]] = cls[a] /\ field'[dst[a]] = Fwd(A, dst, field[a])
  /\ \A x \in Tenured : (\A a \in A : dst[a] # x) => cls'[x] = cls[x] /\ field'[x] = Fwd(A, dst, field[x])
  /\ mark' \subseteq Addr /\ mark' \cap Young = {}
  /\ card' = [c \in Cards |-> "clear"]
  /\ table' = {Fwd(A, dst, a) : a \in table} \ Young
  /\ reg' = [t \in Threads |-> [r \in Regs |-> Fwd(A, dst, reg[t][r])]]

(* What the marking of a young collection that can move has found. *)
LEMMA YoungMarked ==
  ASSUME Inv, gcpc = "idle", Stopped, Cardinality(Free(Tenured)) >= MoveReserve
  PROVE  /\ mark \cap Young = {}
         /\ MarkYoung \subseteq Addr
         /\ \A v \in LocalRoots \cap Young : v \in MarkYoung
         /\ \A a \in Tenured : field[a] \in Young => field[a] \in MarkYoung /\ a \in OnCards({"marked", "processed"})
         /\ \A a \in Young : a \in MarkYoung /\ field[a] \in Young => field[a] \in MarkYoung
  <1> DEFINE roots == (LocalRoots \cup Targets(OnCards({"marked", "processed"}))) \cap Young
             C == Closure(roots \ mark, Young, mark)
  <1>1. mark \cap Young = {}
    <2>1. IsFiniteSet(Tenured)
      BY FS_Interval, SpaceAssumption DEF Tenured
    <2>2. Cardinality(Free(Tenured)) \in Nat
      <3>1. Free(Tenured) \in SUBSET Tenured
        BY DEF Free
      <3> QED BY <2>1, <3>1, FS_Subset, FS_CardinalityType
    <2> QED BY <2>2, SpaceAssumption DEF Inv, YoungMarksOK
  <1>2. MarkYoung = mark \cup C
    BY DEF MarkYoung
  <1>3. roots \ mark \in SUBSET Addr /\ field \in [Addr -> Addr \cup {Null}] /\ roots \ mark = roots
    BY <1>1, SizeNat DEF Inv, TypeOK
  <1>4. \A a \in Tenured : field[a] \in Young => a \in OnCards({"marked", "processed"}) /\ field[a] \in roots
    <2> SUFFICES ASSUME NEW a \in Tenured, field[a] \in Young
                 PROVE  a \in OnCards({"marked", "processed"}) /\ field[a] \in roots
      OBVIOUS
    <2>1. field[a] # Null /\ a \in Addr
      BY SizeNat DEF Null
    <2>2. cls[a] = "inst" /\ ~ Pending(a)
      BY <2>1 DEF Inv, FieldsOK, Pending, Stopped, AtSafepoint
    <2>3. card[CardOf(a)] \in {"marked", "processed"}
      <3>1. card[CardOf(a)] \in {"clear", "marked", "processed"}
        BY <2>1, CardOfType DEF Inv, TypeOK
      <3> QED BY <2>2, <3>1 DEF Inv, FieldsOK
    <2>4. a \in OnCards({"marked", "processed"})
      BY <2>1, <2>2, <2>3 DEF OnCards, Object
    <2> QED BY <2>1, <2>4 DEF Targets
  <1>5. LocalRoots \cap Young \subseteq roots
    OBVIOUS
  <1> HIDE DEF roots
  <1>6. roots \subseteq C
    <2>1. roots \ mark \subseteq C
      BY ClosureBase, Zenon
    <2> QED BY <2>1, <1>3
  <1>7. C \subseteq Addr /\ Targets(C \cap Young) \ mark \subseteq C
    <2> HIDE DEF C
    <2> QED BY <1>3, ClosureClosed, Zenon DEF C
  <1> HIDE DEF C
  <1>8. \A a \in Young : a \in MarkYoung /\ field[a] \in Young => field[a] \in MarkYoung
    <2> SUFFICES ASSUME NEW a \in Young, a \in MarkYoung, field[a] \in Young PROVE field[a] \in MarkYoung
      OBVIOUS
    <2>1. a \in C /\ field[a] # Null
      BY <1>1, <1>2, SizeNat DEF Null
    <2> QED BY <2>1, <1>2, <1>7 DEF Targets
  <1>9. MarkYoung \subseteq Addr
    BY <1>2, <1>7 DEF Inv, TypeOK
  <1> QED BY <1>1, <1>2, <1>4, <1>5, <1>6, <1>8, <1>9

(* The survivors fit, and the move as the invariant sees it. *)
LEMMA MoveFacts ==
  ASSUME Inv, gcpc = "idle", Stopped, Cardinality(Free(Tenured)) >= MoveReserve, MoveSurvivors(MarkYoung)
  PROVE  \E A \in SUBSET Young : \E dst \in [A -> Free(Tenured)] : MoveView(A, dst)
  <1> DEFINE A0 == {a \in Young : Object(a) /\ a \in MarkYoung}
             dst0 == CHOOSE f \in [A0 -> Free(Tenured)] : \A a, b \in A0 : a < b => f[a] < f[b]
             moved == {dst0[a] : a \in A0}
             src(b) == CHOOSE a \in A0 : dst0[a] = b
             fwd(a) == IF a \in A0 THEN dst0[a] ELSE a
             On == OnCards({"marked", "processed"})
  <1>1. /\ cls' = [a \in Addr |-> IF a \in Young THEN "free"
                                  ELSE IF a \in moved THEN cls[src(a)] ELSE cls[a]]
        /\ field' = [a \in Addr |-> IF a \in Young THEN Null
                                    ELSE IF a \in moved THEN fwd(field[src(a)])
                                    ELSE IF a \in On THEN fwd(field[a])
                                    ELSE field[a]]
        /\ mark' = MarkYoung \ (Young \cup moved)
        /\ card' = [c \in Cards |-> "clear"]
        /\ table' = {fwd(a) : a \in table} \ Young
        /\ reg' = [t \in Threads |-> [r \in Regs |-> fwd(reg[t][r])]]
    BY DEF MoveSurvivors
  <1>2. A0 \in SUBSET (1..Size) /\ A0 \in SUBSET Young /\ Free(Tenured) \in SUBSET (1..Size) /\ Size \in Nat
    BY SizeNat DEF Free
  <1>3. Cardinality(A0) <= Cardinality(Free(Tenured))
    <2>1. IsFiniteSet(Young) /\ Cardinality(Young) <= NumYoung /\ Cardinality(Young) \in Nat
      <3>1. IsFiniteSet(Young) /\ Cardinality(Young) = IF NumTenured + 1 > NumTenured + NumYoung THEN 0 ELSE NumTenured + NumYoung - (NumTenured + 1) + 1
        BY FS_Interval, SpaceAssumption DEF Young
      <3> QED BY <3>1, SpaceAssumption
    <2>2. Cardinality(A0) <= Cardinality(Young) /\ IsFiniteSet(A0)
      BY <1>2, <2>1, FS_Subset
    <2>3. Cardinality(A0) \in Nat
      BY <2>2, FS_CardinalityType
    <2>4. IsFiniteSet(Free(Tenured))
      <3>1. IsFiniteSet(1..Size)
        BY <1>2, FS_Interval
      <3> QED BY <1>2, <3>1, FS_Subset
    <2>5. Cardinality(Free(Tenured)) \in Nat
      BY <2>4, FS_CardinalityType
    <2> HIDE DEF A0
    <2> QED BY <2>1, <2>2, <2>3, <2>5, SpaceAssumption
  <1>4. \E f \in [A0 -> Free(Tenured)] : \A a, b \in A0 : a < b => f[a] < f[b]
    <2> HIDE DEF A0
    <2> QED BY <1>2, <1>3, Placement
  <1>5. dst0 \in [A0 -> Free(Tenured)] /\ \A a, b \in A0 : a < b => dst0[a] < dst0[b]
    <2> HIDE DEF A0
    <2> QED BY <1>4, Zenon
  <1> HIDE DEF dst0
  <1>6. \A a, b \in A0 : dst0[a] = dst0[b] => a = b
    <2> SUFFICES ASSUME NEW a \in A0, NEW b \in A0, dst0[a] = dst0[b], a # b PROVE FALSE
      OBVIOUS
    <2>1. a \in Nat /\ b \in Nat /\ dst0[a] \in Nat /\ dst0[b] \in Nat
      BY <1>2, <1>5
    <2>2. a < b \/ b < a
      BY <2>1
    <2> QED BY <1>5, <2>1, <2>2
  <1>7. \A a \in A0 : dst0[a] \in moved /\ src(dst0[a]) = a /\ dst0[a] \in Tenured /\ dst0[a] \in Addr /\ dst0[a] \notin Young
    <2> SUFFICES ASSUME NEW a \in A0
                 PROVE  dst0[a] \in moved /\ src(dst0[a]) = a /\ dst0[a] \in Tenured /\ dst0[a] \in Addr /\ dst0[a] \notin Young
      OBVIOUS
    <2>1. dst0[a] \in moved
      OBVIOUS
    <2>2. src(dst0[a]) = a
      <3> HIDE DEF A0
      <3> QED BY <1>6
    <2>3. dst0[a] \in Tenured
      BY <1>5 DEF Free
    <2> QED BY <2>1, <2>2, <2>3, SpaceAssumption DEF Tenured, Young, Addr
  <1> HIDE DEF src
  <1>8. /\ MarkYoung \subseteq Addr
        /\ \A v \in LocalRoots \cap Young : v \in MarkYoung
        /\ \A a \in Tenured : field[a] \in Young => field[a] \in MarkYoung /\ a \in On
        /\ \A a \in Young : a \in MarkYoung /\ field[a] \in Young => field[a] \in MarkYoung
    BY YoungMarked
  <1> HIDE DEF On
  <1>9. garbage = {} /\ \A x : Live(x) <=> Object(x)
    BY DEF Inv, PhaseOK, Marking, Live
  <1>10. \A v \in LocalRoots \cap Young : v \in A0
    BY <1>8, <1>9, RootsType
  <1>11. \A a \in Addr : field[a] \in Young => Object(field[a]) /\ Object(a)
    <2> SUFFICES ASSUME NEW a \in Addr, field[a] \in Young PROVE Object(field[a]) /\ Object(a)
      OBVIOUS
    <2>1. field[a] # Null
      BY SizeNat DEF Null
    <2>2. cls[a] = "inst"
      BY <2>1 DEF Inv, FieldsOK
    <2>3. Object(a)
      BY <2>2 DEF Object
    <2> QED BY <1>9, <2>1, <2>3 DEF Inv, HeapOK, GoodRef
  <1>12. \A a \in Tenured : field[a] \in Young => field[a] \in A0
    BY <1>8, <1>11, SizeNat
  <1>13. \A a \in A0 : field[a] \in Young => field[a] \in A0
    BY <1>8, <1>11, SizeNat
  <1>14. \A a : fwd(a) = Fwd(A0, dst0, a)
    BY DEF Fwd
  <1>15. \A a \in A0 : Object(a) /\ a \in Young /\ a \in Addr
    BY SizeNat
  <1> HIDE DEF A0
  <1>16. \A v \in Addr \cup {Null} : fwd(v) \in Addr \cup {Null}
    BY <1>7
  <1>17. \A x \in moved : \E a \in A0 : x = dst0[a]
    OBVIOUS
  <1> HIDE DEF fwd, moved
  <1>18. cls' \in [Addr -> {"free", "blank", "inst"} \cup Strings]
    <2>1. ASSUME NEW x \in moved PROVE cls[src(x)] \in {"free", "blank", "inst"} \cup Strings
      BY <1>7, <1>15, <1>17 DEF Inv, TypeOK
    <2> QED BY <1>1, <2>1 DEF Inv, TypeOK
  <1>19. field' \in [Addr -> Addr \cup {Null}]
    <2>1. ASSUME NEW x \in moved PROVE fwd(field[src(x)]) \in Addr \cup {Null}
      BY <1>7, <1>15, <1>16, <1>17 DEF Inv, TypeOK
    <2>2. ASSUME NEW x \in Addr PROVE fwd(field[x]) \in Addr \cup {Null} /\ field[x] \in Addr \cup {Null}
      BY <1>16 DEF Inv, TypeOK
    <2> QED BY <1>1, <2>1, <2>2
  <1>20. \A x \in Young : cls'[x] = "free" /\ field'[x] = Null
    BY <1>1, SizeNat
  <1>21. \A a \in A0 : cls'[dst0[a]] = cls[a] /\ field'[dst0[a]] = Fwd(A0, dst0, field[a])
    BY <1>1, <1>7, <1>14
  <1>22. \A x \in Tenured : (\A a \in A0 : dst0[a] # x) => cls'[x] = cls[x] /\ field'[x] = Fwd(A0, dst0, field[x])
    <2> SUFFICES ASSUME NEW x \in Tenured, \A a \in A0 : dst0[a] # x
                 PROVE  cls'[x] = cls[x] /\ field'[x] = Fwd(A0, dst0, field[x])
      OBVIOUS
    <2>1. x \in Addr /\ x \notin Young /\ x \notin moved
      BY <1>17, SpaceAssumption DEF Tenured, Young, Addr
    <2>2. x \notin On => field[x] \notin A0
      BY <1>8, <1>15
    <2>3. x \notin On => fwd(field[x]) = field[x]
      BY <2>2, <1>14 DEF Fwd
    <2> QED BY <1>1, <1>14, <2>1, <2>3
  <1>23. mark' \subseteq Addr /\ mark' \cap Young = {}
    BY <1>1, <1>8
  <1>24. table' = {Fwd(A0, dst0, a) : a \in table} \ Young
    BY <1>1, <1>14
  <1>25. reg' = [t \in Threads |-> [r \in Regs |-> Fwd(A0, dst0, reg[t][r])]]
    BY <1>1, <1>14
  <1>26. card' = [c \in Cards |-> "clear"]
    BY <1>1
  <1>27. MoveView(A0, dst0)
    BY <1>6, <1>10, <1>12, <1>13, <1>15, <1>18, <1>19, <1>20, <1>21, <1>22,
       <1>23, <1>24, <1>25, <1>26, Zenon DEF MoveView
  <1> QED BY <1>2, <1>5, <1>27, Zenon

(* The pause leaves everything else as it is. *)
LEMMA YoungFrame ==
  ASSUME Inv, RunYoungGC
  PROVE  /\ gcpc = "idle" /\ Stopped /\ gcpc' \in {"idle", "initial"} /\ garbage = {} /\ garbage' = {}
         /\ UNCHANGED <<internal, newStrings, recording, op, ops, stack, at>>
         /\ \A x : (Live(x) <=> Object(x)) /\ (Live(x)' <=> Object(x)')
         /\ OpsOK'
         /\ MarksOK' /\ PhaseOK'
  <1>1. /\ gcpc = "idle" /\ Stopped /\ gcpc' \in {"idle", "initial"}
        /\ UNCHANGED <<internal, newStrings, recording, op, ops, stack, at, garbage>>
    BY DEF RunYoungGC
  <1>2. garbage = {}
    BY <1>1 DEF Inv, PhaseOK, Marking
  <1>3. \A x : (Live(x) <=> Object(x)) /\ (Live(x)' <=> Object(x)')
    BY <1>1, <1>2 DEF Live
  <1>4. OpsOK'
    <2>1. ASSUME NEW t \in Threads PROVE OpOK(t)'
      <3>1. OpOK(t) /\ op'[t] = op[t] /\ op[t].pc \in {"run", "weakNew", "internalNew"}
        BY <1>1 DEF Inv, OpsOK, Stopped, AtSafepoint
      <3> QED BY <3>1 DEF OpOK, Initialising
    <2> QED BY <1>1, <2>1 DEF Inv, OpsOK
  <1>5. MarksOK'
    BY <1>1 DEF MarksOK, Marking
  <1>6. PhaseOK'
    BY <1>1, <1>2 DEF PhaseOK, AfterStrings, Stopped, AtSafepoint
  <1> QED BY <1>1, <1>2, <1>3, <1>4, <1>5, <1>6

LEMMA MoveInv ==
  ASSUME Inv, RunYoungGC, Cardinality(Free(Tenured)) >= MoveReserve
  PROVE  Inv'
  <1>1. /\ gcpc = "idle" /\ Stopped /\ gcpc' \in {"idle", "initial"} /\ garbage = {} /\ garbage' = {}
        /\ UNCHANGED <<internal, newStrings, recording, op, ops, stack, at>>
        /\ \A x : (Live(x) <=> Object(x)) /\ (Live(x)' <=> Object(x)')
    BY YoungFrame
  <1>2. MoveSurvivors(MarkYoung)
    BY DEF RunYoungGC
  <1>3. PICK A \in SUBSET Young : \E dst \in [A -> Free(Tenured)] : MoveView(A, dst)
    BY <1>1, <1>2, MoveFacts
  <1>30. PICK dst \in [A -> Free(Tenured)] : MoveView(A, dst)
    BY <1>3
  <1>31. A \subseteq Young
    OBVIOUS
  <1>4. /\ dst \in [A -> Free(Tenured)]
        /\ \A a, b \in A : dst[a] = dst[b] => a = b
        /\ \A a \in A : Object(a)
        /\ \A v \in LocalRoots \cap Young : v \in A
        /\ \A a \in Tenured : field[a] \in Young => field[a] \in A
        /\ \A a \in A : field[a] \in Young => field[a] \in A
        /\ cls' \in [Addr -> {"free", "blank", "inst"} \cup Strings]
        /\ field' \in [Addr -> Addr \cup {Null}]
        /\ \A x \in Young : cls'[x] = "free" /\ field'[x] = Null
        /\ \A a \in A : cls'[dst[a]] = cls[a] /\ field'[dst[a]] = Fwd(A, dst, field[a])
        /\ \A x \in Tenured : (\A a \in A : dst[a] # x) => cls'[x] = cls[x] /\ field'[x] = Fwd(A, dst, field[x])
        /\ mark' \subseteq Addr /\ mark' \cap Young = {}
        /\ card' = [c \in Cards |-> "clear"]
        /\ table' = {Fwd(A, dst, a) : a \in table} \ Young
        /\ reg' = [t \in Threads |-> [r \in Regs |-> Fwd(A, dst, reg[t][r])]]
    BY <1>30 DEF MoveView
  <1>5. \A a \in A : dst[a] \in Tenured /\ cls[dst[a]] = "free" /\ ~ Object(dst[a])
    BY <1>4 DEF Free, Object
  <1>6. \A x \in Tenured : x \in Addr /\ x \notin Young /\ x \notin A /\ x # Null
    BY <1>31, SpaceAssumption DEF Tenured, Young, Addr, Null
  <1>7. \A x \in Addr : x \in Tenured \/ x \in Young
    BY DEF Addr
  <1>8. Null \notin Addr /\ Null \notin A /\ A \subseteq Addr
    BY <1>31, SizeNat DEF Null
  \* What a kept object becomes.
  <1>9. ASSUME NEW v, Object(v), v \in Young => v \in A
        PROVE  LET w == Fwd(A, dst, v)
               IN  w \in Tenured /\ cls'[w] = cls[v] /\ Object(w)' /\ w # Null
    <2>1. v \in Addr /\ cls[v] \notin {"free", "blank"}
      BY <1>9 DEF Object
    <2>2. CASE v \in A
      BY <2>1, <2>2, <1>4, <1>5, <1>6 DEF Fwd, Object
    <2>3. CASE v \notin A
      <3>1. v \in Tenured /\ Fwd(A, dst, v) = v
        BY <2>1, <2>3, <1>7, <1>9 DEF Fwd
      <3>2. \A a \in A : dst[a] # v
        BY <1>5, <1>9
      <3> QED BY <3>1, <3>2, <2>1, <1>4, <1>6 DEF Object
    <2> QED BY <2>2, <2>3
  <1>10. Fwd(A, dst, Null) = Null
    BY <1>8 DEF Fwd
  <1>11. ASSUME NEW v, GoodRef(v), v \in Young => v \in A
         PROVE  GoodRef(Fwd(A, dst, v))'
    <2>1. CASE v = Null
      BY <2>1, <1>10 DEF GoodRef
    <2>2. CASE v # Null
      <3>1. PICK w : w = Fwd(A, dst, v)
        OBVIOUS
      <3>2. Object(v) /\ (cls[v] \in Strings => v \in Interned)
        BY <2>2, <1>1, <1>11 DEF GoodRef
      <3>3. w \in Tenured /\ cls'[w] = cls[v] /\ Object(w)' /\ w # Null
        BY <1>9, <1>11, <3>1, <3>2
      <3>4. v \in table => w \in table'
        BY <1>4, <1>6, <3>1, <3>3
      <3>5. v \in internal => w \in internal'
        <4>1. v \in internal => v \in Tenured
          BY DEF Inv, StringsOK
        <4> QED BY <1>1, <1>6, <3>1, <4>1 DEF Fwd
      <3>6. GoodRef(w)'
        BY <1>1, <3>2, <3>3, <3>4, <3>5 DEF GoodRef, Interned
      <3> QED BY <3>1, <3>6
    <2> QED BY <2>1, <2>2
  \* Where the objects are after the move.
  <1>12. ASSUME NEW x \in Addr, Object(x)'
         PROVE  \/ \E a \in A : x = dst[a] /\ field'[x] = Fwd(A, dst, field[a])
                \/ x \in Tenured /\ Object(x) /\ field'[x] = Fwd(A, dst, field[x])
    <2>1. x \in Tenured
      BY <1>4, <1>7, <1>12 DEF Object
    <2>2. CASE \E a \in A : dst[a] = x
      BY <2>2, <1>4
    <2>3. CASE \A a \in A : dst[a] # x
      BY <2>1, <2>3, <1>4, <1>12 DEF Object
    <2> QED BY <2>2, <2>3
  <1>13. HeapOK'
    <2>1. Live(ClassObject)' /\ GoodRef(ClassObject)'
      <3>1. Object(ClassObject) /\ ClassObject \in Tenured
        BY <1>1, SpaceAssumption DEF Inv, HeapOK, ClassObject, Tenured
      <3>2. Fwd(A, dst, ClassObject) = ClassObject
        BY <3>1, <1>6 DEF Fwd
      <3>3. GoodRef(ClassObject) /\ ClassObject \notin Young
        BY <3>1, <1>6 DEF Inv, HeapOK
      <3>4. GoodRef(Fwd(A, dst, ClassObject))'
        BY <3>3, <1>11
      <3>5. GoodRef(ClassObject)'
        BY <3>2, <3>4 DEF GoodRef, Live, Object, Interned, Fwd
      <3>6. Live(ClassObject)'
        BY <3>1, <3>2, <1>1, <1>6, <1>9
      <3> QED BY <3>5, <3>6
    <2>2. ASSUME NEW t \in Threads, NEW r \in Regs PROVE GoodRef(reg[t][r])'
      <3>1. PICK v : v = reg[t][r]
        OBVIOUS
      <3>2. reg'[t][r] = Fwd(A, dst, v)
        BY <1>4, <3>1
      <3>3. GoodRef(v) /\ (v \in Young => v \in A)
        <4>1. v \in Young => v \in LocalRoots
          BY <3>1, SizeNat DEF LocalRoots, Null
        <4> QED BY <3>1, <4>1, <1>4 DEF Inv, HeapOK
      <3>4. GoodRef(Fwd(A, dst, v))'
        BY <1>11, <3>3
      <3> QED BY <3>2, <3>4 DEF GoodRef, Live, Object, Interned, Fwd
    <2>3. ASSUME NEW x \in Addr, Live(x)' PROVE GoodRef(field[x])'
      <3>1. PICK v : field'[x] = Fwd(A, dst, v) /\ GoodRef(v) /\ (v \in Young => v \in A)
        <4>1. Object(x)'
          BY <2>3, <1>1
        <4>2. CASE \E a \in A : x = dst[a] /\ field'[x] = Fwd(A, dst, field[a])
          BY <4>2, <1>1, <1>4, <1>8 DEF Inv, HeapOK
        <4>3. CASE x \in Tenured /\ Object(x) /\ field'[x] = Fwd(A, dst, field[x])
          BY <4>3, <1>1, <1>4 DEF Inv, HeapOK
        <4> QED BY <4>1, <4>2, <4>3, <1>12
      <3>2. GoodRef(Fwd(A, dst, v))'
        BY <1>11, <3>1
      <3> QED BY <3>1, <3>2 DEF GoodRef, Live, Object, Interned, Fwd
    <2> QED BY <2>1, <2>2, <2>3 DEF HeapOK
  <1>14. StringsOK'
    <2>1. ASSUME NEW w \in table'
          PROVE  \E a \in table : w = Fwd(A, dst, a) /\ cls'[w] = cls[a] /\ Object(w)' /\ cls[a] \in Strings
      <3>1. PICK a \in table : w = Fwd(A, dst, a) /\ w \notin Young
        BY <2>1, <1>4
      <3>2. Object(a) /\ cls[a] \in Strings
        BY <1>1 DEF Inv, StringsOK, Interned
      <3>3. a \in Young => a \in A
        BY <3>1 DEF Fwd
      <3> QED BY <3>1, <3>2, <3>3, <1>9
    <2>2. ASSUME NEW w \in internal
          PROVE  cls'[w] = cls[w] /\ Object(w)' /\ cls[w] \in Strings /\ w \in Tenured
      <3>1. Object(w) /\ cls[w] \in Strings /\ w \in Tenured
        BY <1>1 DEF Inv, StringsOK, Interned
      <3>2. Fwd(A, dst, w) = w
        BY <3>1, <1>6 DEF Fwd
      <3> QED BY <3>1, <3>2, <1>6, <1>9
    <2>3. \A a, b \in table : cls[a] = cls[b] => a = b
      BY DEF Inv, StringsOK
    <2>4. \A a, b \in table' : cls'[a] = cls'[b] => a = b
      BY <2>1, <2>3
    <2>5. \A a, b \in internal' : cls'[a] = cls'[b] => a = b
      BY <1>1, <2>2 DEF Inv, StringsOK
    <2>6. \A a \in table' \cup internal' : Live(a)' /\ cls'[a] \in Strings
      BY <1>1, <2>1, <2>2
    <2>7. internal' \subseteq Tenured /\ newStrings' \subseteq internal'
      BY <1>1 DEF Inv, StringsOK
    <2> QED BY <2>4, <2>5, <2>6, <2>7 DEF StringsOK, Interned
  <1>15. \A v \in Addr \cup {Null} : Fwd(A, dst, v) \in Addr \cup {Null}
    BY <1>5, <1>6 DEF Fwd
  <1>16. TypeOK'
    <2>1. table' \subseteq Addr
      <3>1. \A a \in table : Fwd(A, dst, a) \in Addr
        BY <1>5, <1>6 DEF Fwd, Inv, TypeOK
      <3> QED BY <3>1, <1>4
    <2>2. reg' \in [Threads -> [Regs -> Addr \cup {Null}]]
      BY <1>4, <1>15 DEF Inv, TypeOK
    <2>3. card' \in [Cards -> {"clear", "marked", "processed"}] /\ gcpc' \in GcPcs
      BY <1>1, <1>4 DEF GcPcs
    <2> QED BY <1>1, <1>4, <2>1, <2>2, <2>3 DEF Inv, TypeOK
  <1>17. FieldsOK'
    <2>1. ASSUME NEW x \in Addr, cls'[x] # "inst" PROVE field'[x] = Null
      <3>1. CASE x \in Young
        BY <3>1, <1>4
      <3>2. CASE x \in Tenured /\ \E a \in A : dst[a] = x
        <4>1. PICK a \in A : dst[a] = x
          BY <3>2
        <4>2. cls[a] # "inst" /\ field'[x] = Fwd(A, dst, field[a]) /\ a \in Addr
          BY <2>1, <4>1, <1>4, <1>8
        <4> QED BY <4>2, <1>10 DEF Inv, FieldsOK
      <3>3. CASE x \in Tenured /\ \A a \in A : dst[a] # x
        <4>1. cls[x] # "inst" /\ field'[x] = Fwd(A, dst, field[x])
          BY <2>1, <3>3, <1>4
        <4> QED BY <4>1, <1>10 DEF Inv, FieldsOK
      <3> QED BY <3>1, <3>2, <3>3, <1>7
    <2>2. ASSUME NEW x \in Tenured PROVE field'[x] \notin Young
      <3>1. PICK v : field'[x] = Fwd(A, dst, v) /\ (v \in Young => v \in A)
        <4>1. CASE \E a \in A : dst[a] = x
          BY <4>1, <1>4
        <4>2. CASE \A a \in A : dst[a] # x
          BY <4>2, <1>4
        <4> QED BY <4>1, <4>2
      <3> QED BY <3>1, <1>5, <1>6 DEF Fwd
    <2> QED BY <2>1, <2>2, <1>4 DEF FieldsOK
  <1>18. YoungMarksOK'
    BY <1>1, <1>4 DEF YoungMarksOK
  <1> QED BY <1>13, <1>14, <1>16, <1>17, <1>18, YoungFrame DEF Inv

LEMMA NoRoomInv ==
  ASSUME Inv, RunYoungGC, ~ (Cardinality(Free(Tenured)) >= MoveReserve)
  PROVE  Inv'
  <1> DEFINE roots == (LocalRoots \cup Targets(OnCards({"marked", "processed"}))) \cap Young
             C == Closure(roots \ mark, Young, mark)
  <1>1. /\ gcpc = "idle" /\ gcpc' \in {"idle", "initial"} /\ garbage = {} /\ garbage' = {}
        /\ UNCHANGED <<internal, newStrings, recording, op, ops, stack, at>>
        /\ \A x : (Live(x) <=> Object(x)) /\ (Live(x)' <=> Object(x)')
    BY YoungFrame
  <1>2. mark' = MarkYoung /\ UNCHANGED <<cls, field, card, table, reg>>
    BY DEF RunYoungGC
  <1>3. mark' \subseteq Addr
    <2>1. roots \ mark \in SUBSET Addr /\ field \in [Addr -> Addr \cup {Null}]
      BY SizeNat DEF Inv, TypeOK
    <2>2. MarkYoung = mark \cup C
      BY DEF MarkYoung
    <2> HIDE DEF roots
    <2>3. C \subseteq Addr
      <3> QED BY <2>1, ClosureClosed, Zenon
    <2> QED BY <1>2, <2>2, <2>3 DEF Inv, TypeOK
  <1>4. TypeOK'
    BY <1>1, <1>2, <1>3 DEF Inv, TypeOK, GcPcs
  <1>5. HeapOK' /\ StringsOK'
    <2>1. \A x : Live(x)' <=> Live(x)
      BY <1>1, <1>2 DEF Object
    <2> QED BY <1>1, <1>2, <2>1, HeapFrame
  <1>6. FieldsOK'
    BY <1>1, <1>2 DEF Inv, FieldsOK, Pending
  <1>7. YoungMarksOK'
    <2>1. Cardinality(Free(Tenured)) < MoveReserve
      <3>1. IsFiniteSet(Tenured) /\ Free(Tenured) \in SUBSET Tenured
        <4>1. IsFiniteSet(Tenured)
          BY FS_Interval, SpaceAssumption DEF Tenured
        <4>2. Free(Tenured) \in SUBSET Tenured
          BY DEF Free
        <4> QED BY <4>1, <4>2
      <3>2. Cardinality(Free(Tenured)) \in Nat
        BY <3>1, FS_Subset, FS_CardinalityType
      <3> QED BY <3>2, SpaceAssumption
    <2> QED BY <1>1, <1>2, <2>1 DEF YoungMarksOK, Free
  <1> QED BY <1>4, <1>5, <1>6, <1>7, YoungFrame DEF Inv

(***************************************************************************)
(* The theorems.                                                           *)
(***************************************************************************)
LEMMA InitInv ==
  ASSUME Init
  PROVE  Inv
  <1>1. PICK n \in 0..MaxChain :
          /\ cls = [a \in Addr |-> IF a <= n + 1 THEN "inst" ELSE "free"]
          /\ field = [a \in Addr |-> IF a <= n THEN a + 1 ELSE Null]
    BY DEF Init
  <1>2. /\ mark = {} /\ card = [c \in Cards |-> "clear"]
        /\ table = {} /\ internal = {} /\ newStrings = {} /\ recording = FALSE
        /\ reg = [t \in Threads |-> [r \in Regs |-> Null]]
        /\ op = [t \in Threads |-> Idle] /\ ops = 0
        /\ gcpc = "idle" /\ stack = {} /\ at = 0 /\ garbage = {}
    BY DEF Init
  <1>3. n \in Nat /\ n + 1 <= NumTenured
    BY SpaceAssumption
  <1>4. \A a \in Addr : a \in Nat /\ 1 <= a /\ (a <= n => a + 1 \in Tenured /\ a + 1 \in Addr)
    BY <1>3, SpaceAssumption DEF Addr, Tenured, Young
  <1>5. \A a \in Addr : Object(a) <=> a <= n + 1
    BY <1>1 DEF Object
  <1>6. \A a : Live(a) <=> Object(a)
    BY <1>2 DEF Live
  <1>7. \A t \in Threads : op[t].pc = "run"
    BY <1>2 DEF Idle
  <1>8. TypeOK
    <2>1. field \in [Addr -> Addr \cup {Null}]
      BY <1>1, <1>4
    <2>2. cls \in [Addr -> {"free", "blank", "inst"} \cup Strings]
      BY <1>1
    <2>3. reg \in [Threads -> [Regs -> Addr \cup {Null}]]
      BY <1>2
    <2>4. op \in [Threads -> [pc : OpPcs, addr : Addr \cup {Null}, str : {"inst"} \cup Strings]]
      BY <1>2 DEF Idle, OpPcs
    <2>5. at \in 0..(NumTenured + NumYoung + CardSize) /\ ops \in 0..MaxOps
      BY <1>2, SpaceAssumption, ThreadAssumption
    <2> QED BY <1>2, <2>1, <2>2, <2>3, <2>4, <2>5 DEF TypeOK, GcPcs
  <1>9. FieldsOK
    <2>1. \A a \in Addr : field[a] \notin Young /\ (a \in Young => field[a] = Null)
      <3> SUFFICES ASSUME NEW a \in Addr PROVE field[a] \notin Young /\ (a \in Young => field[a] = Null)
        OBVIOUS
      <3>1. field[a] = IF a <= n THEN a + 1 ELSE Null
        BY <1>1
      <3> QED BY <3>1, <1>3, <1>4, SpaceAssumption DEF Young, Tenured, Null
    <2>2. \A a \in Addr : cls[a] # "inst" => field[a] = Null
      BY <1>1, <1>3, <1>4
    <2> QED BY <2>1, <2>2, SizeNat DEF FieldsOK
  <1>10. OpsOK
    BY <1>7 DEF OpsOK, OpOK, Initialising
  <1>11. HeapOK
    <2>1. Live(ClassObject)
      <3>1. ClassObject \in Addr /\ ClassObject <= n + 1
        BY <1>3, SpaceAssumption DEF ClassObject, Addr, Tenured
      <3> QED BY <3>1, <1>5, <1>6
    <2>2. ASSUME NEW a \in Addr, Live(a) PROVE GoodRef(field[a])
      <3>1. CASE a <= n
        <4>1. field[a] = a + 1 /\ a + 1 \in Addr /\ a + 1 <= n + 1
          BY <3>1, <1>1, <1>3, <1>4
        <4>2. cls[a + 1] = "inst"
          BY <4>1, <1>1
        <4> QED BY <4>1, <4>2, <1>5, <1>6, ThreadAssumption DEF GoodRef
      <3>2. CASE ~ (a <= n)
        BY <3>2, <1>1 DEF GoodRef
      <3> QED BY <3>1, <3>2
    <2>3. GoodRef(ClassObject)
      <3>1. cls[ClassObject] = "inst"
        BY <1>1, <1>3, SpaceAssumption DEF ClassObject, Addr, Tenured
      <3> QED BY <3>1, <2>1, ThreadAssumption DEF GoodRef
    <2>4. \A t \in Threads, r \in Regs : GoodRef(reg[t][r])
      BY <1>2 DEF GoodRef
    <2> QED BY <2>1, <2>2, <2>3, <2>4 DEF HeapOK
  <1>12. StringsOK
    BY <1>2 DEF StringsOK, Interned
  <1>13. MarksOK /\ YoungMarksOK /\ PhaseOK
    BY <1>2 DEF MarksOK, YoungMarksOK, PhaseOK, Marking, AfterStrings
  <1> QED BY <1>8, <1>9, <1>10, <1>11, <1>12, <1>13 DEF Inv

LEMMA StutterInv ==
  ASSUME Inv, UNCHANGED vars
  PROVE  Inv'
  <1> USE DEF vars
  <1>1. \A a : (Object(a)' <=> Object(a)) /\ (Live(a)' <=> Live(a)) /\ (Pending(a)' <=> Pending(a)) /\ (Unvisited(a)' <=> Unvisited(a))
    BY DEF Object, Live, Pending, Unvisited
  <1>2. HeapOK' /\ StringsOK'
    BY <1>1, HeapFrame
  <1>3. TypeOK' /\ FieldsOK'
    BY <1>1 DEF Inv, TypeOK, FieldsOK
  <1>4. OpsOK'
    BY <1>1 DEF Inv, OpsOK, OpOK
  <1>5. MarksOK'
    BY <1>1 DEF Inv, MarksOK
  <1>6. YoungMarksOK' /\ PhaseOK'
    BY <1>1 DEF Inv, YoungMarksOK, PhaseOK, Free, Stopped, AtSafepoint
  <1> QED BY <1>2, <1>3, <1>4, <1>5, <1>6 DEF Inv

LEMMA NextInv ==
  ASSUME Inv, Next
  PROVE  Inv'
  <1>1. ASSUME NEW t \in Threads, ThreadStep(t) PROVE Inv'
    BY <1>1, LoadInv, DropInv, StoreInv, PostBarrierInv, AllocateYoungInv, TakeInv, BitsInv,
       SetClassInv, LookUpsInv, WeakNewInv, WeakInsertInv, InternalInsertInv, RecordInv,
       OutOfMemoryInv DEF ThreadStep
  <1>2. CASE GCStep
    <2>1. CASE RunYoungGC
      BY <2>1, MoveInv, NoRoomInv
    <2> QED BY <1>2, <2>1, InitialMarkInv, VisitClassRootsInv, MarkStackInv, StartRecordingInv,
               VisitInternalStringsInv, VisitCardInv, VisitCardObjectInv,
               ReMarkInv, SweepSlotInv, SweepEndInv DEF GCStep
  <1>3. CASE Ended
    BY <1>3, StutterInv DEF Ended
  <1> QED BY <1>1, <1>2, <1>3 DEF Next

(* The inductive invariant holds in every behaviour of the collector and   *)
(* the threads it runs beside (gen-gc.cpp, string_table.cpp,               *)
(* heap_manager.cpp).                                                      *)
THEOREM Invariance == Spec => []Inv
  <1>1. Init => Inv
    BY InitInv
  <1>2. Inv /\ [Next]_vars => Inv'
    BY NextInv, StutterInv
  <1> QED BY <1>1, <1>2, PTL DEF Spec

(* Every variable keeps its type: addresses, cards, phases of the code. *)
THEOREM TypeCorrectness == Spec => []TypeOK
  <1>1. Inv => TypeOK
    BY DEF Inv
  <1> QED BY <1>1, Invariance, PTL

(* What is reachable from live objects is live. *)
LEMMA ClosureLive ==
  ASSUME Inv, NEW S, \A a \in S : Live(a)
  PROVE  \A a \in Closure(S, Addr, {}) : Live(a)
  <1> DEFINE L == {a \in Addr : Live(a)}
  <1>1. S \subseteq L
    BY DEF Live, Object
  <1>2. \A a \in L : field[a] # Null => field[a] \in L
    BY DEF Inv, HeapOK, GoodRef, Live, Object
  <1>3. Targets(L \cap Addr) \ {} \subseteq L
    BY <1>2 DEF Targets
  <1>4. Closure(S, Addr, {}) \subseteq L
    <2> HIDE DEF L
    <2> QED BY <1>1, <1>3, ClosureLeast
  <1> QED BY <1>4

(* No object the program can reach is ever freed or left behind by a move: *)
(* not by a young collection that redirects only what the cards lead to,   *)
(* nor by a sweep beside threads that store, allocate and intern.          *)
THEOREM NoDangling == Spec => []NoDanglingReference
  <1>1. ASSUME Inv PROVE NoDanglingReference
    <2>1. \A a \in Roots : Live(a)
      BY <1>1, RootsType DEF Inv, HeapOK, StringsOK, Interned, Roots
    <2>3. \A a \in Held : Live(a)
      <3> SUFFICES ASSUME NEW t \in Threads, op[t].pc \in {"barrier", "weakInsert", "internalInsert", "record"}
                   PROVE  Live(op[t].addr)
        BY DEF Held
      <3> QED BY <1>1 DEF Inv, OpsOK, OpOK
    <2>4. \A a \in Closure(Roots \cup Held, Addr, {}) : Live(a)
      BY <1>1, <2>1, <2>3, ClosureLive
    <2>5. \A a \in table : Live(a)
      BY <1>1 DEF Inv, StringsOK, Interned
    <2>6. \A t \in Threads : op[t].pc \in Initialising => cls[op[t].addr] = "blank"
      BY <1>1 DEF Inv, OpsOK, OpOK
    <2> QED BY <2>4, <2>5, <2>6 DEF NoDanglingReference, Live, Initialising
  <1> QED BY <1>1, Invariance, PTL

(* A string the program can reach is the one string of its content in its  *)
(* table: neither two threads that intern it at once, nor a move, nor the  *)
(* sweep of the weak table makes a second one.                             *)
THEOREM Interning == Spec => []InternedOnce
  <1>1. ASSUME Inv PROVE InternedOnce
    <2> DEFINE G == {a \in Addr : Live(a) /\ (cls[a] \in Strings => a \in Interned)}
    <2>1. Roots \subseteq G
      <3>1. LocalRoots \subseteq G
        BY <1>1, RootsType DEF GoodRef
      <3>2. internal \subseteq G
        BY <1>1 DEF Inv, StringsOK, Interned, Live, Object
      <3>3. ClassObject \in G
        <4>1. ClassObject # Null
          BY DEF ClassObject, Null
        <4> QED BY <1>1, <4>1, RootsType DEF Inv, HeapOK, GoodRef
      <3> QED BY <3>1, <3>2, <3>3 DEF Roots
    <2>2. \A a \in G : field[a] # Null => field[a] \in G
      BY <1>1 DEF Inv, HeapOK, GoodRef, Live, Object
    <2>3. Targets(G \cap Addr) \ {} \subseteq G
      BY <2>2 DEF Targets
    <2>4. Reachable \subseteq G
      <3> HIDE DEF G
      <3> QED BY <2>1, <2>3, ClosureLeast DEF Reachable
    <2>5. \A a \in Addr : cls[a] \in Strings /\ a \notin table \cup internal => a \notin Reachable
      BY <2>4 DEF Interned
    <2>6. \A tab \in {table, internal} : \A a, b \in tab : cls[a] = cls[b] => a = b
      BY <1>1 DEF Inv, StringsOK
    <2> QED BY <2>5, <2>6 DEF InternedOnce
  <1> QED BY <1>1, Invariance, PTL

(* What was garbage when a tenured collection began to mark is freed when  *)
(* it ends.                                                                *)
THEOREM Collected == Spec => []GarbageCollected
  <1>1. Inv => GarbageCollected
    BY DEF Inv, PhaseOK, GarbageCollected, Marking
  <1> QED BY <1>1, Invariance, PTL

=============================================================================
