-------------------------- MODULE CalculationsProofs --------------------------
(***************************************************************************)
(* Proofs about what is calculated whenever somebody asks: the minutes of a  *)
(* month and its coverage, for any bookings, corrections, absences, rosters  *)
(* and rules, and the annual leave of an appointment, for any terms, leave,  *)
(* adjustments and calendar.  They begin with what the library does not say  *)
(* of finite sets, sums, orders and folds.                                   *)
(***************************************************************************)
EXTENDS LeaveHistory, MonthReview, FiniteSetTheorems, WellFoundedInduction, TLAPS

-----------------------------------------------------------------------------
(* Finite sets.  The induction theorems of the library take a predicate as  *)
(* their parameter; here the predicate is the set of what fulfils it.       *)

LEMMA SmallestSet ==
  ASSUME NEW S, IsFiniteSet(S), NEW T \in SUBSET (SUBSET S), T # {}
  PROVE  \E t \in T : \A c \in T : c \subseteq t => c = t
  <1>1. T \subseteq FiniteSubsetsOf(S) BY FS_Subset DEF FiniteSubsetsOf
  <1>2. IsWellFoundedOn(StrictSubsetOrdering(S), FiniteSubsetsOf(S))
    BY FS_StrictSubsetOrderingWellFounded, Zenon
  <1>3. PICK t \in T : \A c \in T : <<c, t>> \notin StrictSubsetOrdering(S) BY <1>1, <1>2, WFMin, Zenon
  <1> QED BY <1>3, Zenon DEF StrictSubsetOrdering

LEMMA GrowingSets ==
  ASSUME NEW S, IsFiniteSet(S), NEW T, {} \in T,
         \A t \in T, x \in S : t \subseteq S /\ x \notin t => t \cup {x} \in T
  PROVE  \A s \in SUBSET S : s \in T
  <1>1. PICK B : B = {t \in SUBSET S : t \notin T} OBVIOUS
  <1>2. ASSUME B # {} PROVE FALSE
    <2>1. PICK t \in B : \A c \in B : c \subseteq t => c = t BY <1>1, <1>2, SmallestSet
    <2>2. t \in SUBSET S /\ t \notin T /\ t # {} BY <1>1, <2>1
    <2>3. PICK x \in t : TRUE BY <2>2
    <2>4. t \ {x} \in T BY <1>1, <2>1, <2>2, <2>3
    <2>5. (t \ {x}) \cup {x} = t /\ t \ {x} \subseteq S /\ x \notin t \ {x} /\ x \in S BY <2>2, <2>3
    <2>6. t \in T BY <2>4, <2>5
    <2> QED BY <2>2, <2>6
  <1> QED BY <1>1, <1>2

LEMMA CountingUp ==
  ASSUME NEW n \in Nat, NEW T, 0 \in T, \A k \in 0 .. n - 1 : k \in T => k + 1 \in T
  PROVE  0 .. n \subseteq T
  <1>1. IsFiniteSet(0 .. n) BY FS_Interval
  <1>2. PICK B : B = {0 .. k : k \in {m \in 0 .. n : m \notin T}} OBVIOUS
  <1>3. ASSUME B # {} PROVE FALSE
    <2>1. B \in SUBSET (SUBSET (0 .. n)) BY <1>2
    <2>2. PICK t \in B : \A c \in B : c \subseteq t => c = t
      <3>1. PICK S : S = 0 .. n OBVIOUS
      <3>2. IsFiniteSet(S) /\ B \in SUBSET (SUBSET S) /\ B # {} BY <1>1, <1>3, <2>1, <3>1
      <3> QED BY <3>2, SmallestSet
    <2>3. PICK k \in 0 .. n : k \notin T /\ t = 0 .. k BY <1>2, <2>2
    <2>4. k # 0 /\ k - 1 \in 0 .. n - 1 /\ (k - 1) + 1 = k BY <2>3
    <2>5. k - 1 \notin T BY <2>3, <2>4
    <2>6. 0 .. k - 1 \in B BY <1>2, <2>4, <2>5
    <2>7. 0 .. k - 1 \subseteq 0 .. k /\ k \in 0 .. k /\ k \notin 0 .. k - 1 BY <2>3
    <2> QED BY <2>2, <2>3, <2>6, <2>7
  <1> QED BY <1>2, <1>3

LEMMA Smaller ==
  ASSUME NEW S, NEW T, IsFiniteSet(T), NEW f \in [S -> T],
         \A x, y \in S : f[x] = f[y] => x = y
  PROVE  IsFiniteSet(S) /\ Cardinality(S) <= Cardinality(T)
         /\ Cardinality(S) \in Nat /\ Cardinality(T) \in Nat
  <1>1. f \in Injection(S, T) BY DEF Injection, IsInjective
  <1> QED BY <1>1, FS_Injection, FS_CardinalityType

LEMMA Image ==
  ASSUME NEW S, IsFiniteSet(S), NEW f
  PROVE  IsFiniteSet({f[x] : x \in S})
  <1>1. PICK T : T = {f[x] : x \in S} OBVIOUS
  <1>2. PICK g : g = [x \in S |-> f[x]] OBVIOUS
  <1>3. g \in [S -> T] /\ \A t \in T : \E x \in S : g[x] = t BY <1>1, <1>2
  <1>4. g \in Surjection(S, T) BY <1>3 DEF Surjection
  <1> QED BY <1>1, <1>4, FS_Surjection

LEMMA CardinalityOfUnion ==
  ASSUME NEW S, NEW T, IsFiniteSet(S), IsFiniteSet(T)
  PROVE  /\ IsFiniteSet(S \cup T)
         /\ Cardinality(S) \in Nat /\ Cardinality(T) \in Nat /\ Cardinality(S \cup T) \in Nat
         /\ Cardinality(S \cup T) <= Cardinality(S) + Cardinality(T)
         /\ S \cap T = {} => Cardinality(S \cup T) = Cardinality(S) + Cardinality(T)
  <1>1. IsFiniteSet(S \cup T) /\ IsFiniteSet(S \cap T) BY FS_Union, FS_Intersection
  <1>2. /\ Cardinality(S) \in Nat /\ Cardinality(T) \in Nat
        /\ Cardinality(S \cup T) \in Nat /\ Cardinality(S \cap T) \in Nat
    BY <1>1, FS_CardinalityType
  <1>3. Cardinality(S \cup T) = Cardinality(S) + Cardinality(T) - Cardinality(S \cap T) BY FS_Union
  <1>4. S \cap T = {} => Cardinality(S \cap T) = 0 BY FS_EmptySet
  <1> QED BY <1>1, <1>2, <1>3, <1>4

LEMMA SubsetOfInterval ==
  ASSUME NEW a \in Int, NEW b \in Int, NEW S, S \subseteq a .. b
  PROVE  IsFiniteSet(S) /\ Cardinality(S) \in Nat
  <1>1. IsFiniteSet(a .. b) /\ S \in SUBSET (a .. b) BY FS_Interval
  <1> QED BY <1>1, FS_Subset, FS_CardinalityType, Zenon

-----------------------------------------------------------------------------
(* Sets in order.                                                           *)

Orders(S, rel) ==
  /\ \A u \in S : <<u, u>> \notin rel
  /\ \A u, v \in S : u # v => <<u, v>> \in rel \/ <<v, u>> \in rel
  /\ \A u, v, w \in S : <<u, v>> \in rel /\ <<v, w>> \in rel => <<u, w>> \in rel

InOrderOf(S, rel, f) ==
  /\ Cardinality(S) \in Nat
  /\ f \in [1 .. Cardinality(S) -> S]
  /\ f \in Seq(S) /\ Len(f) = Cardinality(S) /\ DOMAIN f = 1 .. Cardinality(S)
  /\ \A u \in S : \E i \in 1 .. Cardinality(S) : f[i] = u
  /\ \A i, j \in 1 .. Cardinality(S) : <<f[i], f[j]>> \in rel <=> i < j
  /\ \A i, j \in 1 .. Cardinality(S) : f[i] = f[j] => i = j

LEMMA InOrderIs ==
  ASSUME NEW S, IsFiniteSet(S), NEW rel, Orders(S, rel)
  PROVE  InOrderOf(S, rel, InOrder(S, rel))
  <1> DEFINE n == Cardinality(S)
             behind(u) == {v \in S : <<v, u>> \in rel}
  <1>1. n \in Nat /\ \A u \in S : IsFiniteSet(behind(u)) /\ Cardinality(behind(u)) \in Nat
    BY FS_Subset, FS_CardinalityType
  <1>0. PICK f : f = InOrder(S, rel) OBVIOUS
  <1>2. PICK rank : rank = [u \in S |-> Cardinality(behind(u))] OBVIOUS
  <1>3. f = [i \in 1 .. n |-> CHOOSE u \in S : rank[u] = i - 1] BY <1>0, <1>2 DEF InOrder
  <1>4. ASSUME NEW u \in S PROVE rank[u] \in 0 .. n - 1
    <2>1. behind(u) \subseteq S /\ u \in S /\ u \notin behind(u) BY DEF Orders
    <2>2. behind(u) \subseteq S \ {u} BY <2>1
    <2>3. IsFiniteSet(S \ {u}) /\ Cardinality(S \ {u}) = n - 1 BY FS_RemoveElement
    <2>4. Cardinality(behind(u)) <= n - 1
      <3>1. PICK R : R = S \ {u} OBVIOUS
      <3>2. PICK W : W = behind(u) OBVIOUS
      <3>3. W \in SUBSET R /\ IsFiniteSet(R) /\ Cardinality(R) = n - 1 BY <2>2, <2>3, <3>1, <3>2
      <3>4. Cardinality(W) <= Cardinality(R) BY <3>3, FS_Subset, Zenon
      <3> QED BY <3>2, <3>3, <3>4
    <2> QED BY <1>1, <1>2, <2>4
  <1>5. ASSUME NEW u \in S, NEW v \in S, <<u, v>> \in rel PROVE rank[u] < rank[v]
    <2>1. behind(u) \subseteq behind(v) BY <1>5 DEF Orders
    <2>2. u \in behind(v) /\ u \notin behind(u) BY <1>5 DEF Orders
    <2>3. Cardinality(behind(u)) <= Cardinality(behind(v)) /\ Cardinality(behind(u)) # Cardinality(behind(v))
      BY <1>1, <2>1, <2>2, FS_Subset
    <2>4. Cardinality(behind(u)) < Cardinality(behind(v)) BY <1>1, <2>3
    <2> QED BY <1>2, <2>4
  <1>6. ASSUME NEW u \in S, NEW v \in S PROVE <<u, v>> \in rel <=> rank[u] < rank[v]
    <2>1. rank[u] \in Int /\ rank[v] \in Int BY <1>4
    <2>2. CASE u = v BY <2>1, <2>2 DEF Orders
    <2>3. CASE u # v
      <3>1. <<u, v>> \in rel \/ <<v, u>> \in rel BY <2>3 DEF Orders
      <3>2. <<u, v>> \in rel /\ <<v, u>> \in rel => <<u, u>> \in rel BY DEF Orders
      <3>3. <<u, u>> \notin rel BY DEF Orders
      <3> QED BY <2>1, <3>1, <3>2, <3>3, <1>5
    <2> QED BY <2>2, <2>3
  <1>7. ASSUME NEW u \in S, NEW v \in S, rank[u] = rank[v] PROVE u = v
    <2>1. rank[u] \in Int /\ rank[v] \in Int BY <1>4
    <2>2. <<u, v>> \notin rel /\ <<v, u>> \notin rel BY <1>6, <1>7, <2>1
    <2> QED BY <2>2 DEF Orders
  <1>8. \A i \in 0 .. n - 1 : \E u \in S : rank[u] = i
    <2>1. IsFiniteSet(0 .. n - 1) /\ Cardinality(0 .. n - 1) = n BY <1>1, FS_Interval
    <2>2. rank \in [S -> 0 .. n - 1] BY <1>2, <1>4
    <2>3. rank \in Injection(S, 0 .. n - 1) BY <1>7, <2>2 DEF Injection, IsInjective
    <2>4. rank \in Surjection(S, 0 .. n - 1) BY <2>1, <2>3, FS_Injection
    <2> QED BY <2>4 DEF Surjection
  <1>9. ASSUME NEW i \in 1 .. n PROVE f[i] \in S /\ rank[f[i]] = i - 1
    <2>1. i - 1 \in 0 .. n - 1 BY <1>1
    <2>2. \E u \in S : rank[u] = i - 1 BY <1>8, <2>1
    <2>3. f[i] = CHOOSE u \in S : rank[u] = i - 1 BY <1>3
    <2> QED BY <2>2, <2>3
  <1>10. f \in [1 .. n -> S] BY <1>3, <1>9
  <1>11. f \in Seq(S) /\ Len(f) = n /\ DOMAIN f = 1 .. n BY <1>1, <1>10
  <1>12. ASSUME NEW u \in S PROVE \E i \in 1 .. n : f[i] = u
    <2>1. rank[u] + 1 \in 1 .. n /\ (rank[u] + 1) - 1 = rank[u] BY <1>1, <1>4
    <2>2. f[rank[u] + 1] \in S /\ rank[f[rank[u] + 1]] = rank[u] BY <1>9, <2>1
    <2> QED BY <1>7, <2>1, <2>2
  <1>13. ASSUME NEW i \in 1 .. n, NEW j \in 1 .. n PROVE <<f[i], f[j]>> \in rel <=> i < j BY <1>1, <1>6, <1>9
  <1>14. ASSUME NEW i \in 1 .. n, NEW j \in 1 .. n, f[i] = f[j] PROVE i = j BY <1>1, <1>9, <1>14
  <1> QED BY <1>0, <1>1, <1>10, <1>11, <1>12, <1>13, <1>14 DEF InOrderOf

-----------------------------------------------------------------------------
(* Folds.  A fold of the library is a recursive function on the sets of     *)
(* positions of a sequence that takes out the last position.  That there is *)
(* such a function is shown here for every step G that keeps to a type.     *)

LEMMA MaxIs ==
  ASSUME NEW S, IsFiniteSet(S), S \subseteq Int, S # {}
  PROVE  Max(S) \in S /\ \A x \in S : Max(S) >= x
  <1>1. PICK T : T = {s \in SUBSET S : s # {} => \E m \in s : \A x \in s : m >= x} OBVIOUS
  <1>2. {} \in T BY <1>1
  <1>3. ASSUME NEW t \in T, NEW x \in S PROVE t \cup {x} \in T
    <2>1. t \cup {x} \in SUBSET S /\ x \in Int BY <1>1
    <2>2. CASE t = {}
      <3>1. t \cup {x} = {x} /\ x >= x BY <2>1, <2>2
      <3> QED BY <1>1, <2>1, <3>1
    <2>3. CASE t # {}
      <3>1. PICK m \in t : \A y \in t : m >= y BY <1>1, <2>3
      <3>2. m \in Int /\ \A y \in t : y \in Int BY <1>1
      <3>3. CASE x >= m
        <4>1. \A y \in t \cup {x} : x >= y BY <2>1, <3>1, <3>2, <3>3
        <4> QED BY <1>1, <2>1, <4>1
      <3>4. CASE ~ (x >= m)
        <4>1. \A y \in t \cup {x} : m >= y BY <2>1, <3>1, <3>2, <3>4
        <4> QED BY <1>1, <2>1, <3>1, <4>1
      <3> QED BY <3>3, <3>4
    <2> QED BY <2>2, <2>3
  <1>4. S \in T
    <2>1. \A t \in T, x \in S : t \subseteq S /\ x \notin t => t \cup {x} \in T BY <1>3
    <2>2. \A s \in SUBSET S : s \in T BY <1>2, <2>1, GrowingSets, Zenon
    <2> QED BY <2>2
  <1>5. \E m \in S : \A x \in S : m >= x BY <1>1, <1>4
  <1> QED BY <1>5 DEF Max

LEMMA MaxOfTwo ==
  ASSUME NEW a \in Int, NEW b \in Int
  PROVE  /\ Max({a, b}) = IF a >= b THEN a ELSE b
         /\ Max({a, b}) \in Int /\ Max({a, b}) >= a /\ Max({a, b}) >= b
         /\ Min({a, b}) = IF a <= b THEN a ELSE b
         /\ Min({a, b}) \in Int /\ Min({a, b}) <= a /\ Min({a, b}) <= b
  <1>1. Max({a, b}) = IF a >= b THEN a ELSE b
    <2>1. \E m \in {a, b} : \A x \in {a, b} : m >= x OBVIOUS
    <2>2. Max({a, b}) \in {a, b} /\ \A x \in {a, b} : Max({a, b}) >= x BY <2>1 DEF Max
    <2> QED BY <2>2
  <1>2. Min({a, b}) = IF a <= b THEN a ELSE b
    <2>1. \E m \in {a, b} : \A x \in {a, b} : m <= x OBVIOUS
    <2>2. Min({a, b}) \in {a, b} /\ \A x \in {a, b} : Min({a, b}) <= x BY <2>1 DEF Min
    <2> QED BY <2>2
  <1> QED BY <1>1, <1>2

LEMMA LastPosition ==
  ASSUME NEW k \in Nat, NEW t \in SUBSET (1 .. k + 1), k + 1 \in t
  PROVE  Max(t) = k + 1 /\ t \ {k + 1} \in SUBSET (1 .. k)
  <1>1. \A x \in t : k + 1 >= x /\ x \in Int OBVIOUS
  <1>2. \A m \in t : (\A x \in t : m >= x) => m = k + 1 BY <1>1
  <1>3. Max(t) \in t /\ \A x \in t : Max(t) >= x
    <2>1. \E m \in t : \A x \in t : m >= x BY <1>1
    <2> QED BY <2>1 DEF Max
  <1>4. Max(t) = k + 1 BY <1>2, <1>3
  <1>5. t \ {k + 1} \in SUBSET (1 .. k) OBVIOUS
  <1> QED BY <1>4, <1>5

FoldRule(D, G, a, seq, g) ==
  [t \in SUBSET D |-> IF t = {} THEN a ELSE LET x == Max(t) IN G[<<g[t \ {x}], seq[x]>>]]

FoldFound(n, G, A, a, seq) ==
  \E g \in [SUBSET (1 .. n) -> A] : g = FoldRule(1 .. n, G, a, seq, g)

LEMMA FoldExists ==
  ASSUME NEW A, NEW X, NEW G \in [A \X X -> A], NEW a \in A, NEW n \in Nat, NEW seq \in [1 .. n -> X]
  PROVE  FoldFound(n, G, A, a, seq)
  <1> DEFINE Found(k) == \E g \in [SUBSET (1 .. k) -> A] : g = FoldRule(1 .. k, G, a, seq, g)
  <1>1. PICK T : T = {k \in 0 .. n : Found(k)} OBVIOUS
  <1>2. 0 \in T
    <2>1. PICK g : g = [t \in SUBSET (1 .. 0) |-> a] OBVIOUS
    <2>2. \A t \in SUBSET (1 .. 0) : t = {} OBVIOUS
    <2>3. g \in [SUBSET (1 .. 0) -> A] BY <2>1
    <2>4. g = [t \in SUBSET (1 .. 0) |->
                 IF t = {} THEN a ELSE LET x == Max(t) IN G[<<g[t \ {x}], seq[x]>>]]
      BY <2>1, <2>2
    <2>5. g = FoldRule(1 .. 0, G, a, seq, g) BY <2>4, Zenon DEF FoldRule
    <2>6. Found(0) BY <2>3, <2>5, Zenon
    <2>7. 0 \in 0 .. n OBVIOUS
    <2> QED BY <1>1, <2>6, <2>7, Zenon
  <1>3. ASSUME NEW k \in 0 .. n - 1, k \in T PROVE k + 1 \in T
    <2>1. PICK g \in [SUBSET (1 .. k) -> A] : g = FoldRule(1 .. k, G, a, seq, g) BY <1>1, <1>3
    <2>2. k \in Nat /\ k + 1 \in 0 .. n /\ k + 1 \in 1 .. n /\ 1 .. k \subseteq 1 .. k + 1 OBVIOUS
    <2>3. PICK h : h = [t \in SUBSET (1 .. k + 1) |->
                          IF k + 1 \notin t THEN g[t] ELSE G[<<g[t \ {k + 1}], seq[k + 1]>>]]
      OBVIOUS
    <2>4. ASSUME NEW t \in SUBSET (1 .. k + 1), k + 1 \notin t
          PROVE  t \in SUBSET (1 .. k) /\ h[t] = g[t] /\ h[t] \in A
      <3>1. t \in SUBSET (1 .. k) BY <2>2, <2>4
      <3> QED BY <2>1, <2>3, <2>4, <3>1
    <2>5. ASSUME NEW t \in SUBSET (1 .. k + 1), k + 1 \in t
          PROVE  /\ Max(t) = k + 1 /\ t \ {k + 1} \in SUBSET (1 .. k)
                 /\ h[t] = G[<<g[t \ {k + 1}], seq[k + 1]>>] /\ h[t] \in A
      <3>1. Max(t) = k + 1 /\ t \ {k + 1} \in SUBSET (1 .. k) BY <2>2, <2>5, LastPosition
      <3>2. g[t \ {k + 1}] \in A /\ seq[k + 1] \in X BY <2>1, <2>2, <3>1
      <3>3. h[t] = G[<<g[t \ {k + 1}], seq[k + 1]>>] BY <2>3, <2>5
      <3> QED BY <3>1, <3>2, <3>3
    <2>6. h \in [SUBSET (1 .. k + 1) -> A] BY <2>3, <2>4, <2>5
    <2>7. ASSUME NEW t \in SUBSET (1 .. k + 1)
          PROVE  h[t] = IF t = {} THEN a ELSE LET x == Max(t) IN G[<<h[t \ {x}], seq[x]>>]
      <3>1. CASE k + 1 \notin t
        <4>1. t \in SUBSET (1 .. k) /\ h[t] = g[t] BY <2>4, <3>1
        <4>2. g[t] = IF t = {} THEN a ELSE G[<<g[t \ {Max(t)}], seq[Max(t)]>>]
          BY <2>1, <4>1, Zenon DEF FoldRule
        <4>3. t \ {Max(t)} \in SUBSET (1 .. k + 1) /\ k + 1 \notin t \ {Max(t)} BY <3>1
        <4>4. h[t \ {Max(t)}] = g[t \ {Max(t)}] BY <2>4, <4>3
        <4> QED BY <4>1, <4>2, <4>4
      <3>2. CASE k + 1 \in t
        <4>1. /\ Max(t) = k + 1 /\ t \ {k + 1} \in SUBSET (1 .. k)
              /\ h[t] = G[<<g[t \ {k + 1}], seq[k + 1]>>]
          BY <2>5, <3>2
        <4>2. t \ {k + 1} \in SUBSET (1 .. k + 1) /\ k + 1 \notin t \ {k + 1} OBVIOUS
        <4>3. h[t \ {k + 1}] = g[t \ {k + 1}] BY <2>4, <4>2
        <4> QED BY <3>2, <4>1, <4>3
      <3> QED BY <3>1, <3>2
    <2>8. h = FoldRule(1 .. k + 1, G, a, seq, h)
      <3>1. h = [t \in SUBSET (1 .. k + 1) |-> h[t]] BY <2>6
      <3>2. h = [t \in SUBSET (1 .. k + 1) |->
                   IF t = {} THEN a ELSE LET x == Max(t) IN G[<<h[t \ {x}], seq[x]>>]]
        BY <2>7, <3>1
      <3> QED BY <3>2 DEF FoldRule
    <2>9. Found(k + 1) BY <2>6, <2>8
    <2> QED BY <1>1, <2>2, <2>9
  <1>4. n \in T
    <2>1. 0 .. n \subseteq T BY <1>2, <1>3, CountingUp
    <2> QED BY <2>1
  <1> QED BY <1>1, <1>4, Zenon DEF FoldFound

LEMMA Positions ==
  ASSUME NEW n \in Nat
  PROVE  /\ \A k \in 1 .. n : /\ Max(1 .. k) = k /\ (1 .. k) \ {k} = 1 .. k - 1
                              /\ 1 .. k \in SUBSET (1 .. n) /\ 1 .. k # {}
         /\ 1 .. 0 = {} /\ {} \in SUBSET (1 .. n)
         /\ \A t \in SUBSET (1 .. n) : t # {} => Max(t) \in 1 .. n
  <1>1. ASSUME NEW k \in 1 .. n PROVE Max(1 .. k) = k
    <2>1. PICK j \in Nat : j + 1 = k
      <3>1. k - 1 \in Nat /\ (k - 1) + 1 = k OBVIOUS
      <3> QED BY <3>1
    <2>2. 1 .. k \in SUBSET (1 .. j + 1) /\ j + 1 \in 1 .. k BY <2>1
    <2> QED BY <2>1, <2>2, LastPosition
  <1>2. ASSUME NEW t \in SUBSET (1 .. n), t # {} PROVE Max(t) \in 1 .. n
    <2>1. IsFiniteSet(1 .. n) BY FS_Interval
    <2>2. IsFiniteSet(t) /\ t \subseteq Int
      <3>1. t \subseteq Int OBVIOUS
      <3> QED BY <2>1, <3>1, FS_Subset, Zenon
    <2>3. Max(t) \in t BY <1>2, <2>2, MaxIs
    <2> QED BY <2>3
  <1>3. ASSUME NEW k \in 1 .. n
        PROVE  (1 .. k) \ {k} = 1 .. k - 1 /\ 1 .. k \in SUBSET (1 .. n) /\ 1 .. k # {}
    OBVIOUS
  <1> QED BY <1>1, <1>2, <1>3

-----------------------------------------------------------------------------
(* Sums.  The sum of the library takes out one chosen element of a set      *)
(* after the other; the choice does not matter.                             *)

Sum(S, w) == MapThenSumSet(LAMBDA x : w[x], S)
First(s) == CHOOSE x \in s : TRUE
SumRule(S, w, g) ==
  [s \in SUBSET S |-> IF s = {} THEN 0 ELSE LET x == First(s) IN w[x] + g[s \ {x}]]
Weighs(S, w) == \A x \in S : w[x] \in Int

LEMMA SumIs ==
  ASSUME NEW S, NEW w
  PROVE  Sum(S, w) = (CHOOSE g : g = SumRule(S, w, g))[S]
  BY DEF Sum, MapThenSumSet, MapThenFoldSet, SumRule, First

LEMMA SumRuleAt ==
  ASSUME NEW S, NEW w, NEW g, g = SumRule(S, w, g), NEW s \in SUBSET S
  PROVE  /\ s = {} => g[s] = 0
         /\ s # {} => First(s) \in s /\ g[s] = w[First(s)] + g[s \ {First(s)}]
  <1>1. g[s] = IF s = {} THEN 0 ELSE w[First(s)] + g[s \ {First(s)}] BY Zenon DEF SumRule
  <1>2. s # {} => First(s) \in s BY DEF First
  <1> QED BY <1>1, <1>2

LEMMA SumRulesAgree ==
  ASSUME NEW A, NEW B, NEW v, NEW w, NEW g, NEW h, g = SumRule(A, v, g), h = SumRule(B, w, h),
         NEW s, s \subseteq A, s \subseteq B, IsFiniteSet(s), \A x \in s : v[x] = w[x]
  PROVE  g[s] = h[s]
  <1>3. \A t \in SUBSET A : /\ t = {} => g[t] = 0
                            /\ t # {} => First(t) \in t /\ g[t] = v[First(t)] + g[t \ {First(t)}]
    BY SumRuleAt
  <1>4. \A t \in SUBSET B : /\ t = {} => h[t] = 0
                            /\ t # {} => First(t) \in t /\ h[t] = w[First(t)] + h[t \ {First(t)}]
    BY SumRuleAt
  <1>1. PICK T : T = {t \in SUBSET s : g[t] # h[t]} OBVIOUS
  <1>2. ASSUME T # {} PROVE FALSE
    <2>1. PICK t \in T : \A c \in T : c \subseteq t => c = t BY <1>1, <1>2, SmallestSet
    <2>2. t \subseteq s /\ g[t] # h[t] /\ t \in SUBSET A /\ t \in SUBSET B BY <1>1, <2>1
    <2>3. /\ t = {} => g[t] = 0
          /\ t # {} => First(t) \in t /\ g[t] = v[First(t)] + g[t \ {First(t)}]
      BY <1>3, <2>2
    <2>7. /\ t = {} => h[t] = 0
          /\ t # {} => h[t] = w[First(t)] + h[t \ {First(t)}]
      BY <1>4, <2>2
    <2>4. /\ First(t) \in t /\ g[t] = v[First(t)] + g[t \ {First(t)}]
          /\ h[t] = w[First(t)] + h[t \ {First(t)}]
      BY <2>2, <2>3, <2>7
    <2>5. g[t \ {First(t)}] = h[t \ {First(t)}] BY <1>1, <2>1, <2>2, <2>4
    <2>6. v[First(t)] = w[First(t)] BY <2>2, <2>4
    <2> QED BY <2>2, <2>4, <2>5, <2>6
  <1> QED BY <1>1, <1>2

SumSolved(S, w) == \E g : g = SumRule(S, w, g)

LEMMA SolvedSum ==
  ASSUME NEW S, NEW w, NEW s \in SUBSET S, IsFiniteSet(S), NEW g, g = SumRule(S, w, g), SumSolved(s, w)
  PROVE  Sum(s, w) = g[s]
  <1>1. PICK h : h = CHOOSE f : f = SumRule(s, w, f) OBVIOUS
  <1>2. h = SumRule(s, w, h) BY <1>1, Zenon DEF SumSolved
  <1>3. IsFiniteSet(s) BY FS_Subset
  <1>4. g[s] = h[s] BY <1>2, <1>3, SumRulesAgree
  <1> QED BY <1>1, <1>4, SumIs

LEMMA SumsAreSolved ==
  ASSUME NEW S, NEW w, IsFiniteSet(S)
  PROVE  \A s \in SUBSET S : SumSolved(s, w)
  <1>1. PICK T : T = {t \in SUBSET S : ~ SumSolved(t, w)} OBVIOUS
  <1>2. ASSUME T # {} PROVE FALSE
    <2>1. PICK t \in T : \A c \in T : c \subseteq t => c = t BY <1>1, <1>2, SmallestSet
    <2>2. t \in SUBSET S /\ ~ SumSolved(t, w) /\ IsFiniteSet(t) BY <1>1, <2>1, FS_Subset
    <2>3. \A c \in SUBSET t : c # t => SumSolved(c, w) /\ IsFiniteSet(c) BY <1>1, <2>1, <2>2, FS_Subset
    <2>4. PICK g : g = [c \in SUBSET t |-> IF c = {} THEN 0
                                         ELSE w[First(c)] + Sum(c \ {First(c)}, w)]
      OBVIOUS
    <2>5. \A c \in SUBSET t : c # {} => First(c) \in c BY DEF First
    <2>6. ASSUME NEW c \in SUBSET t, c # t PROVE Sum(c, w) = g[c]
      <3>1. PICK h : h = CHOOSE f : f = SumRule(c, w, f) OBVIOUS
      <3>2. h = SumRule(c, w, h) /\ IsFiniteSet(c) /\ Sum(c, w) = h[c]
        BY <2>3, <2>6, <3>1, SumIs, Zenon DEF SumSolved
      <3>3. CASE c = {} BY <2>4, <3>2, <3>3, SumRuleAt
      <3>4. CASE c # {}
        <4>1. First(c) \in c /\ h[c] = w[First(c)] + h[c \ {First(c)}] BY <3>2, <3>4, SumRuleAt
        <4>2. c \ {First(c)} \in SUBSET c /\ c \ {First(c)} \in SUBSET t /\ c \ {First(c)} # t BY <2>6, <4>1
        <4>3. Sum(c \ {First(c)}, w) = h[c \ {First(c)}] BY <2>3, <3>2, <4>2, SolvedSum
        <4> QED BY <2>4, <3>2, <3>4, <4>1, <4>3
      <3> QED BY <3>3, <3>4
    <2>7. ASSUME NEW c \in SUBSET t, c # {} PROVE Sum(c \ {First(c)}, w) = g[c \ {First(c)}]
      <3>1. c \ {First(c)} \in SUBSET t /\ c \ {First(c)} # t BY <2>5, <2>7
      <3> QED BY <2>6, <3>1
    <2>8. g = SumRule(t, w, g)
      <3>1. \A c \in SUBSET t : g[c] = IF c = {} THEN 0 ELSE w[First(c)] + g[c \ {First(c)}] BY <2>4, <2>7
      <3>2. g = [c \in SUBSET t |-> g[c]] BY <2>4
      <3>3. g = [c \in SUBSET t |-> IF c = {} THEN 0 ELSE w[First(c)] + g[c \ {First(c)}]] BY <3>1, <3>2
      <3> QED BY <3>3 DEF SumRule
    <2> QED BY <2>2, <2>8 DEF SumSolved
  <1> QED BY <1>1, <1>2

LEMMA SumStep ==
  ASSUME NEW S, NEW w, IsFiniteSet(S)
  PROVE  /\ S = {} => Sum(S, w) = 0
         /\ S # {} => First(S) \in S /\ Sum(S, w) = w[First(S)] + Sum(S \ {First(S)}, w)
  <1>1. S \in SUBSET S /\ SumSolved(S, w) /\ \A s \in SUBSET S : SumSolved(s, w) BY SumsAreSolved
  <1>2. PICK g : g = SumRule(S, w, g) BY <1>1 DEF SumSolved
  <1>3. \A s \in SUBSET S : Sum(s, w) = g[s] BY <1>1, <1>2, SolvedSum
  <1>4. \A s \in SUBSET S : /\ s = {} => g[s] = 0
                            /\ s # {} => First(s) \in s /\ g[s] = w[First(s)] + g[s \ {First(s)}]
    BY <1>2, SumRuleAt
  <1>5. S \ {First(S)} \in SUBSET S OBVIOUS
  <1> QED BY <1>1, <1>3, <1>4, <1>5

LEMMA SumIsInt ==
  ASSUME NEW S, NEW w, IsFiniteSet(S), Weighs(S, w)
  PROVE  Sum(S, w) \in Int
  <1>1. PICK T : T = {t \in SUBSET S : Sum(t, w) \notin Int} OBVIOUS
  <1>2. ASSUME T # {} PROVE FALSE
    <2>1. PICK t \in T : \A c \in T : c \subseteq t => c = t BY <1>1, <1>2, SmallestSet
    <2>2. t \in SUBSET S /\ Sum(t, w) \notin Int /\ IsFiniteSet(t) BY <1>1, <2>1, FS_Subset
    <2>6. /\ t = {} => Sum(t, w) = 0
          /\ t # {} => First(t) \in t /\ Sum(t, w) = w[First(t)] + Sum(t \ {First(t)}, w)
      BY <2>2, SumStep, Zenon
    <2>3. t # {} /\ First(t) \in t /\ Sum(t, w) = w[First(t)] + Sum(t \ {First(t)}, w) BY <2>2, <2>6
    <2>4. w[First(t)] \in Int BY <2>2, <2>3 DEF Weighs
    <2>5. Sum(t \ {First(t)}, w) \in Int BY <1>1, <2>1, <2>2, <2>3
    <2> QED BY <2>2, <2>3, <2>4, <2>5
  <1> QED BY <1>1, <1>2

LEMMA SumWithout ==
  ASSUME NEW S, NEW w, IsFiniteSet(S), Weighs(S, w), NEW e \in S
  PROVE  /\ Sum(S, w) = w[e] + Sum(S \ {e}, w)
         /\ w[e] \in Int /\ Sum(S, w) \in Int /\ Sum(S \ {e}, w) \in Int
  <1>1. \A t \in SUBSET S : IsFiniteSet(t) /\ Weighs(t, w) /\ Sum(t, w) \in Int
    BY FS_Subset, SumIsInt DEF Weighs
  <1>2. PICK T : T = {t \in SUBSET S : \E x \in t : Sum(t, w) # w[x] + Sum(t \ {x}, w)} OBVIOUS
  <1>3. ASSUME T # {} PROVE FALSE
    <2>1. PICK t \in T : \A c \in T : c \subseteq t => c = t
      <3>1. T \in SUBSET (SUBSET S) BY <1>2
      <3> QED BY <1>3, <3>1, SmallestSet
    <2>2. PICK x \in t : Sum(t, w) # w[x] + Sum(t \ {x}, w) BY <1>2, <2>1
    <2>3. t \in SUBSET S /\ IsFiniteSet(t) BY <1>1, <1>2, <2>1
    <2>4. PICK y : y = First(t) OBVIOUS
    <2>5. y \in t /\ Sum(t, w) = w[y] + Sum(t \ {y}, w) /\ y # x BY <2>2, <2>3, <2>4, SumStep
    <2>6. Sum(t \ {y}, w) = w[x] + Sum((t \ {y}) \ {x}, w)
      <3>1. t \ {y} \notin T /\ x \in t \ {y} /\ t \ {y} \in SUBSET S BY <2>1, <2>2, <2>3, <2>5
      <3> QED BY <1>2, <3>1
    <2>7. Sum(t \ {x}, w) = w[y] + Sum((t \ {x}) \ {y}, w)
      <3>1. t \ {x} \notin T /\ y \in t \ {x} /\ t \ {x} \in SUBSET S BY <2>1, <2>2, <2>3, <2>5
      <3> QED BY <1>2, <3>1
    <2>8. (t \ {x}) \ {y} = (t \ {y}) \ {x} OBVIOUS
    <2>9. w[x] \in Int /\ w[y] \in Int /\ Sum((t \ {y}) \ {x}, w) \in Int BY <1>1, <2>2, <2>3, <2>5 DEF Weighs
    <2>10. PICK n \in Int : n = Sum((t \ {y}) \ {x}, w) BY <2>9
    <2>11. Sum(t \ {y}, w) = w[x] + n /\ Sum(t \ {x}, w) = w[y] + n BY <2>6, <2>7, <2>8, <2>10
    <2>12. w[y] + (w[x] + n) = w[x] + (w[y] + n) BY <2>9
    <2> QED BY <2>2, <2>5, <2>11, <2>12
  <1>4. S \notin T /\ S \in SUBSET S /\ S \ {e} \in SUBSET S BY <1>3
  <1> QED BY <1>1, <1>2, <1>4 DEF Weighs

LEMMA SameWeights ==
  ASSUME NEW S, NEW v, NEW w, IsFiniteSet(S), \A x \in S : v[x] = w[x]
  PROVE  Sum(S, v) = Sum(S, w)
  <1>1. S \in SUBSET S /\ SumSolved(S, v) /\ SumSolved(S, w) BY SumsAreSolved
  <1>2. PICK g, h : g = SumRule(S, v, g) /\ h = SumRule(S, w, h) BY <1>1 DEF SumSolved
  <1>3. g[S] = h[S] BY <1>2, SumRulesAgree
  <1> QED BY <1>1, <1>2, <1>3, SolvedSum

LEMMA SumAdded ==
  ASSUME NEW S, NEW w, IsFiniteSet(S), NEW e, e \notin S, Weighs(S \cup {e}, w)
  PROVE  /\ Sum(S \cup {e}, w) = Sum(S, w) + w[e]
         /\ IsFiniteSet(S \cup {e}) /\ Sum(S, w) \in Int /\ w[e] \in Int
  <1>1. IsFiniteSet(S \cup {e}) /\ e \in S \cup {e} /\ (S \cup {e}) \ {e} = S BY FS_AddElement
  <1>2. /\ Sum(S \cup {e}, w) = w[e] + Sum(S, w)
        /\ w[e] \in Int /\ Sum(S, w) \in Int
    BY <1>1, SumWithout
  <1> QED BY <1>1, <1>2

LEMMA NaturalSum ==
  ASSUME NEW S, NEW w, IsFiniteSet(S), \A x \in S : w[x] \in Nat
  PROVE  /\ Sum(S, w) \in Nat
         /\ \A x \in S : w[x] <= Sum(S, w)
  <1>1. PICK T : T = {t \in SUBSET S : Sum(t, w) \in Nat} OBVIOUS
  <1>2. {} \in T
    <2>1. Sum({}, w) = 0 BY FS_EmptySet, SumStep
    <2> QED BY <1>1, <2>1
  <1>3. \A t \in T, x \in S : t \subseteq S /\ x \notin t => t \cup {x} \in T
    <2>1. SUFFICES ASSUME NEW t \in T, NEW x \in S, x \notin t PROVE t \cup {x} \in T OBVIOUS
    <2>2. t \cup {x} \in SUBSET S /\ IsFiniteSet(t) /\ Sum(t, w) \in Nat /\ w[x] \in Nat BY <1>1, FS_Subset
    <2>3. Weighs(t \cup {x}, w) BY <2>2 DEF Weighs
    <2>4. Sum(t \cup {x}, w) = Sum(t, w) + w[x] BY <2>1, <2>2, <2>3, SumAdded
    <2> QED BY <1>1, <2>2, <2>4
  <1>4. \A s \in SUBSET S : Sum(s, w) \in Nat
    <2>1. \A s \in SUBSET S : s \in T BY <1>2, <1>3, GrowingSets, Zenon
    <2> QED BY <1>1, <2>1
  <1>5. ASSUME NEW x \in S PROVE w[x] <= Sum(S, w)
    <2>1. Weighs(S, w) BY DEF Weighs
    <2>2. Sum(S, w) = w[x] + Sum(S \ {x}, w) /\ Sum(S \ {x}, w) \in Nat BY <1>4, <2>1, SumWithout
    <2> QED BY <2>2
  <1> QED BY <1>4, <1>5

-----------------------------------------------------------------------------
(* The intervals of a sheet.                                                *)

Spans(X) ==
  \A x \in X : /\ x.from \in Int /\ x.to \in Int
               /\ \A t \in Int : /\ [x EXCEPT !.to = t] \in X
                                 /\ [x EXCEPT !.to = t].from = x.from /\ [x EXCEPT !.to = t].to = t
Mine(sheet, kinds) == {k \in DOMAIN sheet : Valid(sheet[k]) /\ sheet[k].kind \in kinds}

SortedBy(sheet, kinds, n, order) ==
  /\ order \in [1 .. n -> Mine(sheet, kinds)]
  /\ Sorted(sheet, kinds) = [i \in 1 .. n |-> sheet[order[i]]]
  /\ \A k \in Mine(sheet, kinds) : \E i \in 1 .. n : order[i] = k
  /\ \A i, j \in 1 .. n : order[i] = order[j] => i = j
  /\ \A i, j \in 1 .. n : i <= j => sheet[order[i]].from <= sheet[order[j]].from

LEMMA SortedIs ==
  ASSUME NEW X, Spans(X), NEW sheet \in Seq(X), NEW kinds
  PROVE  /\ IsFiniteSet(Mine(sheet, kinds)) /\ Cardinality(Mine(sheet, kinds)) \in Nat
         /\ \E order : SortedBy(sheet, kinds, Cardinality(Mine(sheet, kinds)), order)
  <1>1. PICK mine : mine = Mine(sheet, kinds) OBVIOUS
  <1>2. mine \subseteq 1 .. Len(sheet) /\ Len(sheet) \in Nat /\ DOMAIN sheet = 1 .. Len(sheet)
        /\ 1 \in Int /\ Len(sheet) \in Int
    BY <1>1 DEF Mine
  <1>3. IsFiniteSet(mine) /\ Cardinality(mine) \in Nat BY <1>2, SubsetOfInterval, Zenon
  <1>4. PICK rel : rel = {p \in mine \X mine : \/ sheet[p[1]].from < sheet[p[2]].from
                                               \/ sheet[p[1]].from = sheet[p[2]].from /\ p[1] < p[2]}
    OBVIOUS
  <1>5. \A j, k \in mine : <<j, k>> \in rel <=> \/ sheet[j].from < sheet[k].from
                                                \/ sheet[j].from = sheet[k].from /\ j < k
    BY <1>4
  <1>6. \A k \in mine : k \in Int /\ sheet[k].from \in Int BY <1>2 DEF Spans
  <1>7. Orders(mine, rel)
    <2>1. \A u \in mine : <<u, u>> \notin rel BY <1>5, <1>6
    <2>2. ASSUME NEW u \in mine, NEW v \in mine, u # v
          PROVE  <<u, v>> \in rel \/ <<v, u>> \in rel
      <3>1. /\ u \in Int /\ sheet[u].from \in Int
            /\ v \in Int /\ sheet[v].from \in Int
        BY <1>6
      <3>2. \/ sheet[u].from < sheet[v].from \/ (sheet[u].from = sheet[v].from /\ u < v)
            \/ sheet[v].from < sheet[u].from \/ (sheet[v].from = sheet[u].from /\ v < u)
        BY <2>2, <3>1
      <3> QED BY <1>5, <3>2, Zenon
    <2>3. ASSUME NEW u \in mine, NEW v \in mine, NEW w \in mine,
                 <<u, v>> \in rel, <<v, w>> \in rel
          PROVE  <<u, w>> \in rel
      <3>1. /\ u \in Int /\ sheet[u].from \in Int
            /\ v \in Int /\ sheet[v].from \in Int
            /\ w \in Int /\ sheet[w].from \in Int
        BY <1>6
      <3>2. /\ (sheet[u].from < sheet[v].from \/ (sheet[u].from = sheet[v].from /\ u < v))
            /\ (sheet[v].from < sheet[w].from \/ (sheet[v].from = sheet[w].from /\ v < w))
        BY <1>5, <2>3, Zenon
      <3>3. sheet[u].from < sheet[w].from \/ (sheet[u].from = sheet[w].from /\ u < w) BY <3>1, <3>2
      <3> QED BY <1>5, <3>3, Zenon
    <2> QED BY <2>1, <2>2, <2>3 DEF Orders
  <1>8. PICK order : order = InOrder(mine, rel) OBVIOUS
  <1>9. InOrderOf(mine, rel, order) BY <1>3, <1>7, <1>8, InOrderIs
  <1>12. /\ order \in [1 .. Cardinality(mine) -> mine] /\ DOMAIN order = 1 .. Cardinality(mine)
         /\ \A u \in mine : \E i \in 1 .. Cardinality(mine) : order[i] = u
         /\ \A i, j \in 1 .. Cardinality(mine) : <<order[i], order[j]>> \in rel <=> i < j
         /\ \A i, j \in 1 .. Cardinality(mine) : order[i] = order[j] => i = j
    BY <1>9, Zenon DEF InOrderOf
  <1>10. Sorted(sheet, kinds) = [i \in DOMAIN order |-> sheet[order[i]]] BY <1>1, <1>4, <1>8 DEF Sorted, Mine
  <1>11. ASSUME NEW i \in 1 .. Cardinality(mine), NEW j \in 1 .. Cardinality(mine), i <= j
         PROVE  sheet[order[i]].from <= sheet[order[j]].from
    <2>1. order[i] \in mine /\ order[j] \in mine /\ (i < j \/ i = j) BY <1>3, <1>12, <1>11
    <2>2. i < j => <<order[i], order[j]>> \in rel BY <1>12
    <2>3. i = j => sheet[order[i]].from <= sheet[order[j]].from BY <1>6, <2>1
    <2>4. ASSUME <<order[i], order[j]>> \in rel PROVE sheet[order[i]].from <= sheet[order[j]].from
      <3>1. PICK u \in mine, v \in mine : u = order[i] /\ v = order[j] BY <2>1
      <3>2. sheet[u].from < sheet[v].from \/ sheet[u].from = sheet[v].from BY <1>5, <2>4, <3>1, Zenon
      <3>3. sheet[u].from \in Int /\ sheet[v].from \in Int BY <1>6
      <3> QED BY <3>1, <3>2, <3>3
    <2> QED BY <2>1, <2>2, <2>3, <2>4
  <1>13. SortedBy(sheet, kinds, Cardinality(mine), order) BY <1>1, <1>12, <1>10, <1>11 DEF SortedBy
  <1> QED BY <1>1, <1>3, <1>13

Merge(done, i) ==
  IF done = <<>> \/ Last(done).to <= i.from THEN Append(done, i)
  ELSE [done EXCEPT ![Len(done)].to = Max({@, i.to})]

Appends(d, x, e) ==
  /\ Len(e) = Len(d) + 1 /\ e[Len(d) + 1] = x
  /\ \A k \in 1 .. Len(d) : e[k] = d[k]
Extends(d, x, e) ==
  /\ Len(d) > 0 /\ Len(e) = Len(d)
  /\ e[Len(d)].from = d[Len(d)].from /\ e[Len(d)].to = Max({d[Len(d)].to, x.to})
  /\ \A k \in 1 .. Len(d) - 1 : e[k] = d[k]

LEMMA MergeIs ==
  ASSUME NEW X, Spans(X), NEW done \in Seq(X), NEW i \in X
  PROVE  /\ Merge(done, i) \in Seq(X)
         /\ done = <<>> \/ Last(done).to <= i.from => Appends(done, i, Merge(done, i))
         /\ ~ (done = <<>> \/ Last(done).to <= i.from) => Extends(done, i, Merge(done, i))
  <1>1. CASE done = <<>> \/ Last(done).to <= i.from
    <2>1. Merge(done, i) = Append(done, i) BY <1>1 DEF Merge
    <2> QED BY <1>1, <2>1 DEF Appends
  <1>2. CASE ~ (done = <<>> \/ Last(done).to <= i.from)
    <2>1. Merge(done, i) = [done EXCEPT ![Len(done)].to = Max({@, i.to})] BY <1>2 DEF Merge
    <2>2. Len(done) \in Nat /\ Len(done) # 0 /\ Len(done) \in DOMAIN done /\ done[Len(done)] \in X BY <1>2
    <2>3. done[Len(done)].to \in Int /\ i.to \in Int BY <2>2 DEF Spans
    <2>4. PICK t \in Int : t = Max({done[Len(done)].to, i.to}) BY <2>3, MaxOfTwo
    <2>5. PICK x : x = [done[Len(done)] EXCEPT !.to = t] OBVIOUS
    <2>6. x \in X /\ x.from = done[Len(done)].from /\ x.to = t BY <2>2, <2>4, <2>5 DEF Spans
    <2>7. Merge(done, i) = [done EXCEPT ![Len(done)] = x] BY <2>1, <2>4, <2>5
    <2>8. /\ Merge(done, i) \in Seq(X) /\ Len(Merge(done, i)) = Len(done)
          /\ Merge(done, i)[Len(done)] = x
          /\ \A k \in 1 .. Len(done) - 1 : Merge(done, i)[k] = done[k]
      BY <2>2, <2>6, <2>7
    <2> QED BY <1>2, <2>2, <2>4, <2>6, <2>8 DEF Extends
  <1> QED BY <1>1, <1>2

MergesBy(X, n, s, f) ==
  /\ f \in [0 .. n -> Seq(X)] /\ f[0] = <<>> /\ Merged(s) = f[n]
  /\ \A k \in 1 .. n : f[k] = Merge(f[k - 1], s[k])

LEMMA MergedSteps ==
  ASSUME NEW X, Spans(X), NEW n \in Nat, NEW s \in [1 .. n -> X]
  PROVE  \E f : MergesBy(X, n, s, f)
  <1>1. PICK G : G = [p \in Seq(X) \X X |-> Merge(p[1], p[2])] OBVIOUS
  <1>2. \A done \in Seq(X), i \in X : Merge(done, i) \in Seq(X) /\ G[<<done, i>>] = Merge(done, i)
    BY <1>1, MergeIs
  <1>3. G \in [Seq(X) \X X -> Seq(X)] /\ <<>> \in Seq(X)
    <2>1. \A p \in Seq(X) \X X : Merge(p[1], p[2]) \in Seq(X) BY <1>2
    <2> QED BY <1>1, <2>1
  <1>4. PICK g \in [SUBSET (1 .. n) -> Seq(X)] : g = FoldRule(1 .. n, G, <<>>, s, g)
    <2>1. PICK A, a : A = Seq(X) /\ a = <<>> OBVIOUS
    <2>2. G \in [A \X X -> A] /\ a \in A BY <1>3, <2>1
    <2>3. FoldFound(n, G, A, a, s) BY <2>2, FoldExists
    <2> QED BY <2>1, <2>3 DEF FoldFound
  <1>5. ASSUME NEW t \in SUBSET (1 .. n)
        PROVE  g[t] = IF t = {} THEN <<>> ELSE Merge(g[t \ {Max(t)}], s[Max(t)])
    <2>1. g[t] = IF t = {} THEN <<>> ELSE G[<<g[t \ {Max(t)}], s[Max(t)]>>] BY <1>4, Zenon DEF FoldRule
    <2>2. CASE t # {}
      <3>1. Max(t) \in 1 .. n /\ t \ {Max(t)} \in SUBSET (1 .. n) BY <2>2, Positions
      <3>2. s[Max(t)] \in X /\ g[t \ {Max(t)}] \in Seq(X) BY <3>1
      <3> QED BY <1>2, <2>1, <2>2, <3>2
    <2> QED BY <2>1, <2>2
  <1>6. g = [t \in SUBSET (1 .. n) |-> IF t = {} THEN <<>>
                                       ELSE LET x == Max(t) IN Merge(g[t \ {x}], s[x])]
    BY <1>5
  <1>7. DOMAIN s = 1 .. n OBVIOUS
  <1>8. PICK h : h = CHOOSE e : e = [t \in SUBSET (1 .. n) |-> IF t = {} THEN <<>>
                                       ELSE LET x == Max(t) IN Merge(e[t \ {x}], s[x])]
    OBVIOUS
  <1>9. h = [t \in SUBSET (1 .. n) |-> IF t = {} THEN <<>>
                                       ELSE LET x == Max(t) IN Merge(h[t \ {x}], s[x])]
    BY <1>6, <1>8, Zenon
  <1>10. Merged(s) = h[1 .. n] BY <1>7, <1>8 DEF Merged, FoldLeft, MapThenFoldSet, Merge
  <1>11. h[1 .. 0] = <<>> /\ \A k \in 1 .. n : h[1 .. k] = Merge(h[1 .. k - 1], s[k])
    <2>1. \A t \in SUBSET (1 .. n) : h[t] = IF t = {} THEN <<>> ELSE Merge(h[t \ {Max(t)}], s[Max(t)])
      BY <1>9, Zenon
    <2>2. h[1 .. 0] = <<>> BY <2>1, Positions
    <2>3. ASSUME NEW k \in 1 .. n PROVE h[1 .. k] = Merge(h[1 .. k - 1], s[k])
      <3>1. Max(1 .. k) = k /\ (1 .. k) \ {k} = 1 .. k - 1 /\ 1 .. k \in SUBSET (1 .. n) /\ 1 .. k # {}
        BY Positions
      <3>2. h[1 .. k] = Merge(h[(1 .. k) \ {Max(1 .. k)}], s[Max(1 .. k)]) BY <2>1, <3>1, Zenon
      <3> QED BY <3>1, <3>2, Zenon
    <2> QED BY <2>2, <2>3
  <1>12. PICK T : T = {k \in 0 .. n : h[1 .. k] \in Seq(X)} OBVIOUS
  <1>13. 0 .. n \subseteq T
    <2>1. 0 \in T
      <3>1. 0 \in 0 .. n /\ h[1 .. 0] \in Seq(X) BY <1>3, <1>11
      <3> QED BY <1>12, <3>1
    <2>2. ASSUME NEW k \in 0 .. n - 1, k \in T PROVE k + 1 \in T
      <3>1. k + 1 \in 1 .. n /\ (k + 1) - 1 = k /\ k + 1 \in 0 .. n OBVIOUS
      <3>2. h[1 .. k + 1] = Merge(h[1 .. k], s[k + 1]) /\ h[1 .. k] \in Seq(X) /\ s[k + 1] \in X
        BY <1>11, <1>12, <2>2, <3>1
      <3> QED BY <1>2, <1>12, <3>1, <3>2
    <2> QED BY <2>1, <2>2, CountingUp
  <1>14. PICK f : f = [k \in 0 .. n |-> h[1 .. k]] OBVIOUS
  <1>15. f \in [0 .. n -> Seq(X)] BY <1>12, <1>13, <1>14
  <1>16. f[0] = <<>> /\ Merged(s) = f[n] BY <1>10, <1>11, <1>14
  <1>17. ASSUME NEW k \in 1 .. n PROVE f[k] = Merge(f[k - 1], s[k])
    <2>1. k \in 0 .. n /\ k - 1 \in 0 .. n OBVIOUS
    <2> QED BY <1>11, <1>14, <2>1
  <1> QED BY <1>15, <1>16, <1>17 DEF MergesBy

(* What merging leaves of the first k intervals: as many or fewer, apart    *)
(* from each other, with the instants of all of them.                       *)
In(x, t) == x.from <= t /\ t < x.to
Proper(n, s) == \A i \in 1 .. n : s[i].from < s[i].to
Ascending(n, s) == \A i, j \in 1 .. n : i <= j => s[i].from <= s[j].from
Apart(n, s) == \A i, j \in 1 .. n : i < j => s[i].to <= s[j].from
Outline(k, s, d) ==
  /\ Len(d) <= k /\ (k > 0 => Len(d) > 0 /\ d[Len(d)].from <= s[k].from)
  /\ Proper(Len(d), d) /\ Apart(Len(d), d)
  /\ \A i \in 1 .. Len(d) : /\ \E j \in 1 .. k : d[i].from = s[j].from
                            /\ \E j \in 1 .. k : d[i].to = s[j].to
  /\ \A t \in Int : (\E i \in 1 .. Len(d) : In(d[i], t)) <=> (\E j \in 1 .. k : In(s[j], t))

LEMMA OutlineGrows ==
  ASSUME NEW X, Spans(X), NEW n \in Nat, NEW s \in [1 .. n -> X], Proper(n, s), Ascending(n, s),
         NEW k \in 1 .. n, NEW d \in Seq(X), Outline(k - 1, s, d)
  PROVE  Outline(k, s, Merge(d, s[k]))
  <1>1. PICK x \in X : x = s[k] OBVIOUS
  <1>2. PICK e \in Seq(X) : e = Merge(d, x) BY MergeIs
  <1>3. Len(d) \in Nat /\ Len(e) \in Nat /\ k - 1 \in Nat /\ k \in Nat OBVIOUS
  <1>4. x.from \in Int /\ x.to \in Int /\ x.from < x.to BY <1>1 DEF Spans, Proper
  <1>5. \A i \in 1 .. Len(d) : d[i] \in X /\ d[i].from \in Int /\ d[i].to \in Int BY DEF Spans
  <1>6. \A i \in 1 .. Len(d) : d[i].from < d[i].to BY DEF Outline, Proper
  <1>7. \A i, j \in 1 .. Len(d) : i < j => d[i].to <= d[j].from BY DEF Outline, Apart
  <1>8. \A j \in 1 .. k - 1 : j \in 1 .. k /\ j \in 1 .. n OBVIOUS
  <1>9. \A j \in 1 .. k : j = k \/ j \in 1 .. k - 1 OBVIOUS
  <1>10. \A t \in Int : (\E i \in 1 .. Len(d) : In(d[i], t)) <=> (\E j \in 1 .. k - 1 : In(s[j], t))
    BY DEF Outline
  <1>11. \A i \in 1 .. Len(d) : /\ \E j \in 1 .. k : d[i].from = s[j].from
                                /\ \E j \in 1 .. k : d[i].to = s[j].to
    BY <1>8 DEF Outline
  <1>12. d # <<>> => Len(d) > 0 /\ Len(d) \in 1 .. Len(d) /\ d[Len(d)].from <= x.from
    <2>1. SUFFICES ASSUME d # <<>> PROVE Len(d) > 0 /\ d[Len(d)].from <= x.from BY <1>3
    <2>2. Len(d) > 0 /\ Len(d) \in 1 .. Len(d) BY <1>3, <2>1
    <2>3. PICK j \in 1 .. k - 1 : d[Len(d)].from = s[j].from BY <2>2 DEF Outline
    <2>4. s[j].from <= s[k].from BY <1>8, <2>3 DEF Ascending
    <2> QED BY <1>1, <2>2, <2>3, <2>4
  <1>13. Len(d) <= k - 1 BY DEF Outline
  <1>14. CASE d = <<>> \/ Last(d).to <= x.from
    <2>1. /\ Len(e) = Len(d) + 1 /\ e[Len(d) + 1] = x
          /\ \A i \in 1 .. Len(d) : e[i] = d[i]
      <3>1. Appends(d, x, e) BY <1>2, <1>14, MergeIs
      <3> QED BY <3>1 DEF Appends
    <2>2. \A i \in 1 .. Len(e) : i \in 1 .. Len(d) \/ i = Len(d) + 1 BY <1>3, <2>1
    <2>3. \A i \in 1 .. Len(d) : d[i].to <= x.from
      <3>1. SUFFICES ASSUME NEW i \in 1 .. Len(d) PROVE d[i].to <= x.from OBVIOUS
      <3>2. d # <<>> /\ Len(d) \in 1 .. Len(d) BY <1>3
      <3>3. d[Len(d)].to <= x.from /\ d[Len(d)].from < d[Len(d)].to BY <1>6, <1>14, <3>2 DEF Last
      <3>4. i = Len(d) \/ (i < Len(d) /\ d[i].to <= d[Len(d)].from) BY <1>3, <1>7, <3>2
      <3> QED BY <1>4, <1>5, <3>2, <3>3, <3>4
    <2>4. Proper(Len(e), e) BY <1>4, <1>6, <2>1, <2>2 DEF Proper
    <2>5. Apart(Len(e), e)
      <3>1. SUFFICES ASSUME NEW i \in 1 .. Len(e), NEW j \in 1 .. Len(e), i < j PROVE e[i].to <= e[j].from
        BY DEF Apart
      <3>2. i \in 1 .. Len(d) BY <1>3, <2>1, <3>1
      <3>3. CASE j \in 1 .. Len(d) BY <1>7, <2>1, <3>1, <3>2, <3>3
      <3>4. CASE j = Len(d) + 1 BY <2>1, <2>3, <3>2, <3>4
      <3> QED BY <2>2, <3>3, <3>4
    <2>6. \A i \in 1 .. Len(e) : /\ \E j \in 1 .. k : e[i].from = s[j].from
                                 /\ \E j \in 1 .. k : e[i].to = s[j].to
      <3>1. k \in 1 .. k BY <1>3
      <3> QED BY <1>1, <1>11, <2>1, <2>2, <3>1
    <2>7. ASSUME NEW t \in Int
          PROVE  (\E i \in 1 .. Len(e) : In(e[i], t)) <=> (\E j \in 1 .. k : In(s[j], t))
      <3>1. (\E i \in 1 .. Len(e) : In(e[i], t)) <=> (\E i \in 1 .. Len(d) : In(d[i], t)) \/ In(x, t)
        <4>1. Len(d) + 1 \in 1 .. Len(e) /\ \A i \in 1 .. Len(d) : i \in 1 .. Len(e) BY <1>3, <2>1
        <4> QED BY <2>1, <2>2, <4>1
      <3>2. (\E j \in 1 .. k : In(s[j], t)) <=> (\E j \in 1 .. k - 1 : In(s[j], t)) \/ In(x, t)
        BY <1>1, <1>8, <1>9
      <3> QED BY <1>10, <3>1, <3>2
    <2>8. Len(e) <= k /\ Len(e) > 0 /\ e[Len(e)].from <= s[k].from BY <1>1, <1>3, <1>4, <1>13, <2>1
    <2> QED BY <1>1, <1>2, <2>4, <2>5, <2>6, <2>7, <2>8 DEF Outline
  <1>15. CASE ~ (d = <<>> \/ Last(d).to <= x.from)
    <2>1. /\ Len(d) > 0 /\ Len(e) = Len(d)
          /\ e[Len(d)].from = d[Len(d)].from /\ e[Len(d)].to = Max({d[Len(d)].to, x.to})
          /\ \A i \in 1 .. Len(d) - 1 : e[i] = d[i]
      <3>1. Extends(d, x, e) BY <1>2, <1>15, MergeIs
      <3> QED BY <3>1 DEF Extends
    <2>2. PICK m \in 1 .. Len(d) : m = Len(d) BY <1>3, <2>1
    <2>3. d[m].from <= x.from /\ x.from < d[m].to BY <1>4, <1>5, <1>12, <1>15, <2>2 DEF Last
    <2>4. /\ e[m].from = d[m].from /\ e[m].from \in Int
          /\ e[m].to = (IF d[m].to >= x.to THEN d[m].to ELSE x.to) /\ e[m].to \in Int
      <3>1. d[m].to \in Int /\ d[m].from \in Int BY <1>5
      <3>2. Max({d[m].to, x.to}) = IF d[m].to >= x.to THEN d[m].to ELSE x.to BY <1>4, <3>1, MaxOfTwo
      <3> QED BY <1>4, <2>1, <2>2, <3>1, <3>2
    <2>5. \A i \in 1 .. Len(e) : i = m \/ (i < m /\ i \in 1 .. Len(d) /\ e[i] = d[i]) BY <1>3, <2>1, <2>2
    <2>6. Proper(Len(e), e) BY <1>4, <1>5, <1>6, <2>4, <2>5 DEF Proper
    <2>7. Apart(Len(e), e)
      <3>1. SUFFICES ASSUME NEW i \in 1 .. Len(e), NEW j \in 1 .. Len(e), i < j PROVE e[i].to <= e[j].from
        BY DEF Apart
      <3>2. i < m /\ i \in 1 .. Len(d) /\ e[i] = d[i] /\ j \in 1 .. Len(d) BY <2>1, <2>2, <2>5, <3>1
      <3>3. d[i].to <= d[j].from BY <1>7, <3>1, <3>2
      <3>4. e[j].from = d[j].from BY <2>4, <2>5
      <3> QED BY <3>2, <3>3, <3>4
    <2>8. \A i \in 1 .. Len(e) : /\ \E j \in 1 .. k : e[i].from = s[j].from
                                 /\ \E j \in 1 .. k : e[i].to = s[j].to
      <3>1. k \in 1 .. k BY <1>3
      <3>2. ASSUME NEW i \in 1 .. Len(e), i = m
            PROVE  (\E j \in 1 .. k : e[i].from = s[j].from) /\ (\E j \in 1 .. k : e[i].to = s[j].to)
        <4>1. m \in 1 .. Len(d) BY <2>1, <2>2, <3>2
        <4>2. \E j \in 1 .. k : d[m].from = s[j].from BY <1>11, <4>1
        <4>3. \E j \in 1 .. k : d[m].to = s[j].to BY <1>11, <4>1
        <4>4. e[m].from = d[m].from /\ (e[m].to = d[m].to \/ e[m].to = s[k].to) BY <1>1, <2>4
        <4>5. \E j \in 1 .. k : e[m].from = s[j].from BY <4>2, <4>4, Zenon
        <4>6. \E j \in 1 .. k : e[m].to = s[j].to BY <3>1, <4>3, <4>4, Zenon
        <4> QED BY <3>2, <4>5, <4>6, Zenon
      <3>3. ASSUME NEW i \in 1 .. Len(e), i < m /\ i \in 1 .. Len(d) /\ e[i] = d[i]
            PROVE  (\E j \in 1 .. k : e[i].from = s[j].from) /\ (\E j \in 1 .. k : e[i].to = s[j].to)
        BY <1>11, <3>3, Zenon
      <3> QED BY <2>5, <3>2, <3>3, Zenon
    <2>9. ASSUME NEW t \in Int
          PROVE  (\E i \in 1 .. Len(e) : In(e[i], t)) <=> (\E j \in 1 .. k : In(s[j], t))
      <3>1. In(e[m], t) <=> In(d[m], t) \/ In(x, t) BY <1>4, <1>5, <2>3, <2>4 DEF In
      <3>2. (\E i \in 1 .. Len(e) : In(e[i], t)) <=> (\E i \in 1 .. Len(d) : In(d[i], t)) \/ In(x, t)
        <4>1. m \in 1 .. Len(e) /\ \A i \in 1 .. Len(d) : i \in 1 .. Len(e) BY <2>1, <2>2
        <4> QED BY <2>5, <3>1, <4>1
      <3>3. (\E j \in 1 .. k : In(s[j], t)) <=> (\E j \in 1 .. k - 1 : In(s[j], t)) \/ In(x, t)
        BY <1>1, <1>8, <1>9
      <3> QED BY <1>10, <3>2, <3>3
    <2>10. Len(e) <= k /\ Len(e) > 0 /\ e[Len(e)].from <= s[k].from
      BY <1>1, <1>3, <1>13, <2>1, <2>2, <2>3, <2>4
    <2> QED BY <1>1, <1>2, <2>6, <2>7, <2>8, <2>9, <2>10 DEF Outline
  <1> QED BY <1>14, <1>15

LEMMA MergedIs ==
  ASSUME NEW X, Spans(X), NEW n \in Nat, NEW s \in [1 .. n -> X], Proper(n, s), Ascending(n, s)
  PROVE  Merged(s) \in Seq(X) /\ Outline(n, s, Merged(s))
  <1>7. PICK f : MergesBy(X, n, s, f) BY MergedSteps
  <1>1. /\ f \in [0 .. n -> Seq(X)] /\ f[0] = <<>> /\ Merged(s) = f[n]
        /\ \A k \in 1 .. n : f[k] = Merge(f[k - 1], s[k])
    BY <1>7 DEF MergesBy
  <1>2. PICK T : T = {k \in 0 .. n : Outline(k, s, f[k])} OBVIOUS
  <1>3. 0 \in T
    <2>1. Len(<<>>) = 0 /\ 1 .. 0 = {} OBVIOUS
    <2>2. Outline(0, s, <<>>) BY <2>1 DEF Outline, Proper, Apart
    <2> QED BY <1>1, <1>2, <2>2
  <1>4. ASSUME NEW k \in 0 .. n - 1, k \in T PROVE k + 1 \in T
    <2>1. k + 1 \in 1 .. n /\ (k + 1) - 1 = k /\ k + 1 \in 0 .. n OBVIOUS
    <2>2. f[k] \in Seq(X) /\ Outline((k + 1) - 1, s, f[k]) /\ f[k + 1] = Merge(f[k], s[k + 1])
      BY <1>1, <1>2, <1>4, <2>1
    <2>3. Outline(k + 1, s, f[k + 1]) BY <2>1, <2>2, OutlineGrows
    <2> QED BY <1>2, <2>1, <2>3
  <1>5. 0 .. n \subseteq T BY <1>3, <1>4, CountingUp
  <1>6. n \in 0 .. n OBVIOUS
  <1> QED BY <1>1, <1>2, <1>5, <1>6

\* Intervals that are apart are left as they are.
LEMMA MergedApart ==
  ASSUME NEW X, Spans(X), NEW n \in Nat, NEW s \in [1 .. n -> X], Apart(n, s)
  PROVE  Merged(s) = s
  <1>7. PICK f : MergesBy(X, n, s, f) BY MergedSteps
  <1>1. /\ f \in [0 .. n -> Seq(X)] /\ f[0] = <<>> /\ Merged(s) = f[n]
        /\ \A k \in 1 .. n : f[k] = Merge(f[k - 1], s[k])
    BY <1>7 DEF MergesBy
  <1>2. PICK T : T = {k \in 0 .. n : Len(f[k]) = k /\ \A i \in 1 .. k : f[k][i] = s[i]} OBVIOUS
  <1>3. 0 \in T BY <1>1, <1>2
  <1>4. ASSUME NEW k \in 0 .. n - 1, k \in T PROVE k + 1 \in T
    <2>1. k + 1 \in 1 .. n /\ (k + 1) - 1 = k /\ k + 1 \in 0 .. n /\ k \in 0 .. n /\ k \in Nat OBVIOUS
    <2>2. PICK d \in Seq(X) : d = f[k] /\ f[k + 1] = Merge(d, s[k + 1]) BY <1>1, <2>1
    <2>3. Len(d) = k /\ \A i \in 1 .. k : d[i] = s[i] BY <1>2, <1>4, <2>2
    <2>4. d = <<>> \/ Last(d).to <= s[k + 1].from
      <3>1. CASE k = 0 BY <2>3, <3>1
      <3>2. CASE k > 0
        <4>1. k \in 1 .. k /\ k \in 1 .. n /\ k < k + 1 BY <2>1, <3>2
        <4>2. s[k].to <= s[k + 1].from BY <2>1, <4>1 DEF Apart
        <4> QED BY <2>3, <4>1, <4>2 DEF Last
      <3> QED BY <2>1, <3>1, <3>2
    <2>5. /\ Len(f[k + 1]) = k + 1 /\ f[k + 1][k + 1] = s[k + 1]
          /\ \A i \in 1 .. k : f[k + 1][i] = d[i]
      <3>1. s[k + 1] \in X BY <2>1
      <3>2. Appends(d, s[k + 1], f[k + 1]) BY <2>2, <2>4, <3>1, MergeIs
      <3> QED BY <2>3, <3>2 DEF Appends
    <2>6. \A i \in 1 .. k + 1 : f[k + 1][i] = s[i]
      <3>1. \A i \in 1 .. k + 1 : i \in 1 .. k \/ i = k + 1 BY <2>1
      <3> QED BY <2>3, <2>5, <3>1
    <2> QED BY <1>2, <2>1, <2>5, <2>6
  <1>5. 0 .. n \subseteq T BY <1>3, <1>4, CountingUp
  <1>6. Len(f[n]) = n /\ (\A i \in 1 .. n : f[n][i] = s[i]) /\ f[n] \in Seq(X)
    <2>1. n \in 0 .. n OBVIOUS
    <2>2. n \in T BY <1>5, <2>1
    <2> QED BY <1>1, <1>2, <2>1, <2>2
  <1>9. f[n] = [i \in 1 .. n |-> f[n][i]] BY <1>6
  <1>8. f[n] = [i \in 1 .. n |-> s[i]] BY <1>6, <1>9
  <1> QED BY <1>1, <1>8

-----------------------------------------------------------------------------
(* Started minutes.                                                         *)

LEMMA Modulo ==
  ASSUME NEW a \in Int, NEW m \in Nat \ {0}
  PROVE  /\ a % m \in 0 .. m - 1 /\ (a - (a % m)) % m = 0
         /\ a >= 0 => a - (a % m) >= 0
         /\ a = m * (a \div m) + (a % m) /\ a \div m \in Int
         /\ \A q \in Int : m * q <= a /\ a < m * (q + 1) <=> a \div m = q
  <1>1. a % m \in 0 .. m - 1 /\ a = m * (a \div m) + (a % m) /\ a \div m \in Int OBVIOUS
  <1>2. PICK q \in Int : q = a \div m BY <1>1
  <1>3. a - (a % m) = m * q BY <1>1, <1>2
  <1>4. (m * q) % m = 0 OBVIOUS
  <1>5. a >= 0 => a - (a % m) >= 0 OBVIOUS
  <1>6. \A p \in Int : m * p <= a /\ a < m * (p + 1) <=> a \div m = p OBVIOUS
  <1> QED BY <1>1, <1>3, <1>4, <1>5, <1>6

Multiple(a, m) == a % m = 0

LEMMA SameMultiple ==
  ASSUME NEW a \in Int, NEW b \in Int, NEW m \in Nat \ {0}, Multiple(a, m), Multiple(b, m),
         NEW i \in 0 .. m - 1, NEW j \in 0 .. m - 1, a + i = b + j
  PROVE  a = b /\ i = j
  <1> USE DEF Multiple
  <1>1. PICK p \in Int, q \in Int : a = m * p /\ b = m * q
    <2>1. a \div m \in Int /\ b \div m \in Int OBVIOUS
    <2>2. a = m * (a \div m) /\ b = m * (b \div m) OBVIOUS
    <2> QED BY <2>1, <2>2
  <1>2. m * (p - q) = j - i BY <1>1
  <1>3. j - i < m /\ j - i > - m OBVIOUS
  <1>4. p - q < 1 /\ p - q > -1 BY <1>2, <1>3
  <1>5. p = q BY <1>4
  <1> QED BY <1>1, <1>5

\* An instant as one of a minute that was started at t or u, by a clock that started at c.
Placed(c, t, j, u, i) ==
  /\ t \in Int /\ u \in Int /\ c \in Int /\ j \in 0 .. Minute - 1 /\ i \in 0 .. Minute - 1
  /\ Multiple(t - c, Minute) /\ Multiple(u - c, Minute) /\ t + j = u + i

LEMMA SameMinute ==
  ASSUME NEW t, NEW u, NEW c, NEW j, NEW i, Placed(c, t, j, u, i)
  PROVE  t = u /\ j = i
  <1> USE DEF Placed
  <1>1. PICK a \in Int, b \in Int, m \in Nat \ {0} : a = t - c /\ b = u - c /\ m = Minute BY ClockTicks
  <1>2. Multiple(a, m) /\ Multiple(b, m) /\ j \in 0 .. m - 1 /\ i \in 0 .. m - 1 /\ a + j = b + i BY <1>1
  <1>3. a = b /\ j = i BY <1>2, SameMultiple
  <1> QED BY <1>1, <1>3

Filled(d) == UNION {d[k].from .. d[k].to - 1 : k \in DOMAIN d}
Begun(d, lo, hi) == {m \in Started(d) : lo <= m[2] /\ m[2] < hi}

LEMMA FilledIs ==
  ASSUME NEW X, Spans(X), NEW d \in Seq(X), NEW t
  PROVE  t \in Filled(d) <=> t \in Int /\ \E k \in 1 .. Len(d) : In(d[k], t)
  <1>1. \A k \in 1 .. Len(d) : d[k].from \in Int /\ d[k].to \in Int /\ k \in DOMAIN d BY DEF Spans
  <1>2. t \in Filled(d) <=> \E k \in 1 .. Len(d) : t \in d[k].from .. d[k].to - 1 BY DEF Filled
  <1>3. \A k \in 1 .. Len(d) : t \in d[k].from .. d[k].to - 1 <=> t \in Int /\ In(d[k], t) BY <1>1 DEF In
  <1> QED BY <1>2, <1>3

LEMMA StartedIs ==
  ASSUME NEW X, Spans(X), NEW d \in Seq(X), NEW m
  PROVE  m \in Started(d) <=> \E k \in 1 .. Len(d), t \in Int :
                                /\ m = <<k, t>> /\ In(d[k], t) /\ (t - d[k].from) % Minute = 0
  <1>1. \A k \in 1 .. Len(d) : d[k].from \in Int /\ d[k].to \in Int BY DEF Spans
  <1>2. m \in Started(d) <=> \E k \in 1 .. Len(d) : \E t \in d[k].from .. d[k].to - 1 :
                               m = <<k, t>> /\ (t - d[k].from) % Minute = 0
    <2>1. DOMAIN d = 1 .. Len(d) OBVIOUS
    <2>2. \A k \in 1 .. Len(d) :
            m \in {k} \X {t \in d[k].from .. d[k].to - 1 : (t - d[k].from) % Minute = 0}
              <=> \E t \in d[k].from .. d[k].to - 1 : m = <<k, t>> /\ (t - d[k].from) % Minute = 0
      OBVIOUS
    <2> QED BY <2>1, <2>2 DEF Started
  <1>3. \A k \in 1 .. Len(d) : \A t : t \in d[k].from .. d[k].to - 1 <=> t \in Int /\ In(d[k], t)
    BY <1>1 DEF In
  <1> QED BY <1>2, <1>3

LEMMA SheetsAreFinite ==
  ASSUME NEW X, Spans(X), NEW d \in Seq(X)
  PROVE  IsFiniteSet(Filled(d)) /\ IsFiniteSet(Started(d))
  <1>1. PICK S : S = {d[k].from .. d[k].to - 1 : k \in DOMAIN d} OBVIOUS
  <1>2. IsFiniteSet(DOMAIN d)
    <2>1. DOMAIN d = 1 .. Len(d) /\ Len(d) \in Int /\ 1 \in Int OBVIOUS
    <2> QED BY <2>1, FS_Interval
  <1>3. IsFiniteSet(S)
    <2>1. PICK f : f = [k \in DOMAIN d |-> d[k].from .. d[k].to - 1] OBVIOUS
    <2>2. S = {f[k] : k \in DOMAIN d} BY <1>1, <2>1
    <2> QED BY <1>2, <2>2, Image
  <1>4. \A s \in S : IsFiniteSet(s)
    <2>1. ASSUME NEW k \in DOMAIN d PROVE IsFiniteSet(d[k].from .. d[k].to - 1)
      <3>1. d[k].from \in Int /\ d[k].to - 1 \in Int BY DEF Spans
      <3> QED BY <3>1, FS_Interval
    <2> QED BY <1>1, <2>1
  <1>5. IsFiniteSet(Filled(d)) BY <1>1, <1>3, <1>4, FS_UNION DEF Filled
  <1>6. Started(d) \in SUBSET ((DOMAIN d) \X Filled(d)) BY StartedIs, FilledIs
  <1>7. IsFiniteSet((DOMAIN d) \X Filled(d)) BY <1>2, <1>5, FS_Product
  <1> QED BY <1>5, <1>6, <1>7, FS_Subset

\* The instants of a window that intervals fill are in the minutes they start there, but
\* for the rest of a minute that was started before.
LEMMA FilledByMinutes ==
  ASSUME NEW X, Spans(X), NEW d \in Seq(X), NEW lo \in Int, NEW hi \in Int
  PROVE  LET filled == Cardinality(Filled(d) \cap (lo .. hi - 1))
             begun == Cardinality(Begun(d, lo, hi)) IN
         /\ filled \in Nat /\ begun \in Nat
         /\ filled <= begun * Minute + (Minute - 1)
         /\ (\A k \in 1 .. Len(d) : ~ (d[k].from < lo /\ lo < d[k].to)) => filled <= begun * Minute
  <1>1. PICK W, B : W = Filled(d) \cap (lo .. hi - 1) /\ B = Begun(d, lo, hi) OBVIOUS
  <1>2. IsFiniteSet(W) /\ IsFiniteSet(B) /\ Cardinality(W) \in Nat /\ Cardinality(B) \in Nat
    <2>1. W \in SUBSET Filled(d) /\ B \in SUBSET Started(d) BY <1>1 DEF Begun
    <2>2. IsFiniteSet(Filled(d)) /\ IsFiniteSet(Started(d)) BY SheetsAreFinite
    <2> QED BY <2>1, <2>2, FS_Subset, FS_CardinalityType
  <1>3. Minute \in Nat \ {0} /\ Minute - 1 \in Nat BY ClockTicks
  <1>4. PICK M : M = 0 .. Minute - 1 OBVIOUS
  <1>5. IsFiniteSet(M) /\ Cardinality(M) = Minute BY <1>3, <1>4, FS_Interval
  <1>6. PICK T : T = B \X M OBVIOUS
  <1>7. IsFiniteSet(T) /\ Cardinality(T) = Cardinality(B) * Minute BY <1>2, <1>5, <1>6, FS_Product
  <1>8. \A t \in W : t \in Int /\ lo <= t /\ t < hi /\ \E k \in 1 .. Len(d) : In(d[k], t) BY <1>1, FilledIs
  <1>9. PICK at : at = [t \in W |-> CHOOSE k \in 1 .. Len(d) : In(d[k], t)] OBVIOUS
  <1>10. \A t \in W : at[t] \in 1 .. Len(d) /\ In(d[at[t]], t) BY <1>8, <1>9
  <1>11. PICK off : off = [t \in W |-> (t - d[at[t]].from) % Minute] OBVIOUS
  <1>12. ASSUME NEW t \in W
         PROVE  /\ off[t] \in M /\ t - off[t] \in Int /\ t \in Int /\ off[t] \in Int
                /\ d[at[t]].from <= t - off[t] /\ In(d[at[t]], t - off[t])
                /\ ((t - off[t]) - d[at[t]].from) % Minute = 0
    <2>1. PICK i \in Int, j \in Int : i = d[at[t]].from /\ j = d[at[t]].to BY <1>10 DEF Spans
    <2>2. t \in Int /\ i <= t /\ t < j BY <1>8, <1>10, <2>1 DEF In
    <2>3. PICK a \in Int : a = t - i BY <2>2
    <2>4. /\ a % Minute \in 0 .. Minute - 1 /\ (a - (a % Minute)) % Minute = 0
          /\ a - (a % Minute) >= 0
      <3>1. a >= 0 BY <2>2, <2>3
      <3>2. PICK m \in Nat \ {0} : m = Minute BY <1>3
      <3>3. a % m \in 0 .. m - 1 /\ (a - (a % m)) % m = 0 /\ a - (a % m) >= 0 BY <3>1, Modulo
      <3> QED BY <3>2, <3>3
    <2>5. off[t] = a % Minute BY <1>11, <2>1, <2>3
    <2>6. PICK o \in 0 .. Minute - 1 : o = a % Minute BY <2>4
    <2>7. (t - o) - i = a - o /\ i <= t - o /\ t - o < j BY <2>2, <2>3, <2>4, <2>6
    <2> QED BY <1>4, <2>1, <2>2, <2>4, <2>5, <2>6, <2>7 DEF In
  <1>13. ASSUME NEW t \in W, t - off[t] >= lo PROVE <<at[t], t - off[t]>> \in B
    <2>1. t - off[t] \in Int /\ t - off[t] < hi /\ lo <= t - off[t] BY <1>3, <1>4, <1>8, <1>12, <1>13
    <2>2. <<at[t], t - off[t]>> \in Started(d) BY <1>10, <1>12, StartedIs
    <2> QED BY <1>1, <2>1, <2>2 DEF Begun
  <1>14. PICK R : R = {<<0, 0>>} \X (0 .. Minute - 2) OBVIOUS
  <1>15. IsFiniteSet(R) /\ Cardinality(R) = Minute - 1
    <2>1. IsFiniteSet(0 .. Minute - 2) /\ Cardinality(0 .. Minute - 2) = Minute - 1 BY <1>3, FS_Interval
    <2>2. IsFiniteSet({<<0, 0>>}) /\ Cardinality({<<0, 0>>}) = 1 BY FS_Singleton
    <2>3. PICK A, Z : A = {<<0, 0>>} /\ Z = 0 .. Minute - 2 OBVIOUS
    <2>4. IsFiniteSet(A) /\ IsFiniteSet(Z) /\ Cardinality(A) = 1 /\ Cardinality(Z) = Minute - 1
      BY <2>1, <2>2, <2>3
    <2>5. IsFiniteSet(A \X Z) /\ Cardinality(A \X Z) = Cardinality(A) * Cardinality(Z)
      BY <2>4, FS_Product, Zenon
    <2>6. R = A \X Z BY <1>14, <2>3
    <2>7. IsFiniteSet(R) /\ Cardinality(R) = 1 * (Minute - 1) BY <2>4, <2>5, <2>6, Zenon
    <2> QED BY <1>3, <2>7
  <1>16. PICK f : f = [t \in W |-> IF t - off[t] >= lo THEN <<<<at[t], t - off[t]>>, off[t]>>
                                   ELSE <<<<0, 0>>, t - lo>>]
    OBVIOUS
  <1>17. ASSUME NEW t \in W
         PROVE  /\ t - off[t] >= lo => f[t] \in T /\ f[t] = <<<<at[t], t - off[t]>>, off[t]>>
                /\ ~ (t - off[t] >= lo) => f[t] \in R /\ f[t] = <<<<0, 0>>, t - lo>>
    <2>1. CASE t - off[t] >= lo BY <1>6, <1>12, <1>13, <1>16, <2>1
    <2>2. CASE ~ (t - off[t] >= lo)
      <3>1. t - lo \in 0 .. Minute - 2 BY <1>3, <1>4, <1>8, <1>12, <2>2
      <3> QED BY <1>14, <1>16, <2>2, <3>1
    <2> QED BY <2>1, <2>2
  <1>18. ASSUME NEW t \in W, NEW u \in W, f[t] = f[u] PROVE t = u
    <2>1. at[t] # 0 /\ at[u] # 0 BY <1>10
    <2>2. t \in Int /\ u \in Int /\ off[t] \in Int /\ off[u] \in Int BY <1>12
    <2>3. CASE t - off[t] >= lo /\ u - off[u] >= lo
      <3>1. f[t] = <<<<at[t], t - off[t]>>, off[t]>> /\ f[u] = <<<<at[u], u - off[u]>>, off[u]>>
        BY <1>17, <2>3
      <3>2. t - off[t] = u - off[u] /\ off[t] = off[u]
        <4>1. <<<<at[t], t - off[t]>>, off[t]>> = <<<<at[u], u - off[u]>>, off[u]>> BY <1>18, <3>1
        <4> QED BY <4>1, Zenon
      <3> QED BY <2>2, <3>2
    <2>4. CASE ~ (t - off[t] >= lo) /\ ~ (u - off[u] >= lo) BY <1>17, <1>18, <2>2, <2>4
    <2>5. CASE (t - off[t] >= lo) /\ ~ (u - off[u] >= lo) BY <1>17, <1>18, <2>1, <2>5
    <2>6. CASE ~ (t - off[t] >= lo) /\ (u - off[u] >= lo) BY <1>17, <1>18, <2>1, <2>6
    <2> QED BY <2>3, <2>4, <2>5, <2>6
  <1>19. Cardinality(W) <= Cardinality(B) * Minute + (Minute - 1)
    <2>1. /\ IsFiniteSet(T \cup R) /\ Cardinality(T \cup R) \in Nat
          /\ Cardinality(T \cup R) <= Cardinality(T) + Cardinality(R)
      BY <1>7, <1>15, CardinalityOfUnion
    <2>2. f \in [W -> T \cup R] BY <1>16, <1>17
    <2>3. Cardinality(W) <= Cardinality(T \cup R) BY <1>18, <2>1, <2>2, Smaller
    <2>4. Cardinality(B) * Minute \in Nat BY <1>2, <1>3
    <2> QED BY <1>2, <1>3, <1>7, <1>15, <2>1, <2>3, <2>4
  <1>20. ASSUME \A k \in 1 .. Len(d) : ~ (d[k].from < lo /\ lo < d[k].to)
         PROVE  Cardinality(W) <= Cardinality(B) * Minute
    <2>1. ASSUME NEW t \in W PROVE t - off[t] >= lo
      <3>1. at[t] \in 1 .. Len(d) /\ d[at[t]].from \in Int /\ d[at[t]].to \in Int BY <1>10 DEF Spans
      <3>2. d[at[t]].from <= t - off[t] /\ lo <= t /\ t < d[at[t]].to BY <1>8, <1>10, <1>12 DEF In
      <3>3. ~ (d[at[t]].from < lo /\ lo < d[at[t]].to) BY <1>20, <3>1
      <3> QED BY <1>12, <3>1, <3>2, <3>3
    <2>2. f \in [W -> T] BY <1>16, <1>17, <2>1
    <2>3. Cardinality(W) <= Cardinality(T) BY <1>7, <1>18, <2>2, Smaller
    <2> QED BY <1>7, <2>3
  <1> QED BY <1>1, <1>2, <1>19, <1>20

LEMMA OneInterval ==
  ASSUME NEW X, Spans(X), NEW d \in Seq(X), Proper(Len(d), d), Apart(Len(d), d), NEW t \in Int,
         NEW j \in 1 .. Len(d), NEW k \in 1 .. Len(d), In(d[j], t), In(d[k], t)
  PROVE  j = k
  <1>1. d[j].from \in Int /\ d[j].to \in Int /\ d[k].from \in Int /\ d[k].to \in Int BY DEF Spans
  <1>2. ~ (j < k) /\ ~ (k < j) BY <1>1 DEF In, Apart
  <1> QED BY <1>2

\* The minutes that intervals start in a window fill it, but for the rest of the last minute
\* of each interval.
LEMMA MinutesAreFilled ==
  ASSUME NEW X, Spans(X), NEW d \in Seq(X), Proper(Len(d), d), Apart(Len(d), d),
         NEW lo \in Int, NEW hi \in Int
  PROVE  LET filled == Cardinality(Filled(d) \cap (lo .. hi - 1))
             begun == Cardinality(Begun(d, lo, hi)) IN
         /\ begun * Minute <= filled + (Minute - 1) * Len(d)
         /\ (\A k \in 1 .. Len(d) : d[k].to <= hi /\ (d[k].to - d[k].from) % Minute = 0)
              => begun * Minute <= filled
  <1>1. PICK W, B : W = Filled(d) \cap (lo .. hi - 1) /\ B = Begun(d, lo, hi) OBVIOUS
  <1>2. IsFiniteSet(W) /\ IsFiniteSet(B) /\ Cardinality(W) \in Nat /\ Cardinality(B) \in Nat
    <2>1. W \in SUBSET Filled(d) /\ B \in SUBSET Started(d) BY <1>1 DEF Begun
    <2>2. IsFiniteSet(Filled(d)) /\ IsFiniteSet(Started(d)) BY SheetsAreFinite
    <2> QED BY <2>1, <2>2, FS_Subset, FS_CardinalityType
  <1>3. Minute \in Nat \ {0} /\ Minute - 1 \in Nat /\ Len(d) \in Nat BY ClockTicks
  <1>4. PICK M : M = 0 .. Minute - 1 OBVIOUS
  <1>5. IsFiniteSet(M) /\ Cardinality(M) = Minute BY <1>3, <1>4, FS_Interval
  <1>6. PICK P : P = B \X M OBVIOUS
  <1>7. IsFiniteSet(P) /\ Cardinality(P) = Cardinality(B) * Minute BY <1>2, <1>5, <1>6, FS_Product
  <1>8. PICK F, R : F = {0} \X W /\ R = (1 .. Len(d)) \X (0 .. Minute - 2) OBVIOUS
  <1>9. IsFiniteSet(F) /\ Cardinality(F) = Cardinality(W)
    <2>1. IsFiniteSet({0}) /\ Cardinality({0}) = 1 BY FS_Singleton
    <2>2. IsFiniteSet(F) /\ Cardinality(F) = 1 * Cardinality(W) BY <1>2, <1>8, <2>1, FS_Product
    <2> QED BY <1>2, <2>2
  <1>10. IsFiniteSet(R) /\ Cardinality(R) = (Minute - 1) * Len(d)
    <2>1. IsFiniteSet(0 .. Minute - 2) /\ Cardinality(0 .. Minute - 2) = Minute - 1 BY ClockTicks, FS_Interval
    <2>2. IsFiniteSet(1 .. Len(d)) /\ Cardinality(1 .. Len(d)) = Len(d) BY <1>3, FS_Interval
    <2>3. PICK A, Z : A = 1 .. Len(d) /\ Z = 0 .. Minute - 2 OBVIOUS
    <2>4. IsFiniteSet(A) /\ IsFiniteSet(Z) /\ Cardinality(A) = Len(d) /\ Cardinality(Z) = Minute - 1
      BY <2>1, <2>2, <2>3
    <2>5. IsFiniteSet(A \X Z) /\ Cardinality(A \X Z) = Cardinality(A) * Cardinality(Z)
      BY <2>4, FS_Product, Zenon
    <2>6. R = A \X Z BY <1>8, <2>3
    <2>7. IsFiniteSet(R) /\ Cardinality(R) = Len(d) * (Minute - 1) BY <2>4, <2>5, <2>6, Zenon
    <2> QED BY <1>3, <2>7
  <1>11. \A k \in 1 .. Len(d) : d[k].from \in Int /\ d[k].to \in Int /\ d[k].from < d[k].to
    BY DEF Spans, Proper
  <1>12. PICK end : end = [k \in 1 .. Len(d) |-> IF d[k].to <= hi THEN d[k].to ELSE hi] OBVIOUS
  <1>13. \A k \in 1 .. Len(d) : end[k] \in Int /\ end[k] <= d[k].to /\ end[k] <= hi BY <1>11, <1>12
  <1>14. ASSUME NEW m \in B
         PROVE  /\ m = <<m[1], m[2]>> /\ m[1] \in 1 .. Len(d) /\ m[2] \in Int
                /\ lo <= m[2] /\ m[2] < end[m[1]] /\ d[m[1]].from <= m[2]
                /\ m[2] - d[m[1]].from \in Int /\ (m[2] - d[m[1]].from) % Minute = 0
    <2>1. m \in Started(d) /\ lo <= m[2] /\ m[2] < hi BY <1>1 DEF Begun
    <2>2. PICK k \in 1 .. Len(d), t \in Int : m = <<k, t>> /\ In(d[k], t) /\ (t - d[k].from) % Minute = 0
      BY <2>1, StartedIs
    <2>3. m[1] = k /\ m[2] = t BY <2>2
    <2>4. d[k].from <= t /\ t < d[k].to /\ t < hi BY <2>1, <2>2, <2>3 DEF In
    <2>5. t < end[k] BY <1>11, <1>12, <2>4
    <2> QED BY <1>11, <2>1, <2>2, <2>3, <2>4, <2>5
  <1>15. \A p \in P : p = <<p[1], p[2]>> /\ p[1] \in B /\ p[2] \in M /\ p[2] \in Int /\ 0 <= p[2]
    BY <1>4, <1>6
  <1>16. PICK f : f = [p \in P |-> IF p[1][2] + p[2] < end[p[1][1]] THEN <<0, p[1][2] + p[2]>>
                                   ELSE <<p[1][1], p[1][2] + p[2] - end[p[1][1]]>>]
    OBVIOUS
  <1>17. ASSUME NEW p \in P
         PROVE  /\ p[1][2] + p[2] < end[p[1][1]] =>
                     f[p] = <<0, p[1][2] + p[2]>> /\ f[p] \in F /\ In(d[p[1][1]], p[1][2] + p[2])
                /\ ~ (p[1][2] + p[2] < end[p[1][1]]) =>
                     f[p] = <<p[1][1], p[1][2] + p[2] - end[p[1][1]]>> /\ f[p] \in R
    <2>1. PICK k \in 1 .. Len(d), t \in Int, j \in 0 .. Minute - 1 :
            /\ k = p[1][1] /\ t = p[1][2] /\ j = p[2]
            /\ lo <= t /\ t < end[k] /\ d[k].from <= t
      BY <1>4, <1>14, <1>15
    <2>2. CASE t + j < end[k]
      <3>1. In(d[k], t + j) /\ t + j \in Int /\ t + j \in lo .. hi - 1
        <4>1. PICK e \in Int : e = end[k] BY <1>13
        <4>2. e <= d[k].to /\ e <= hi BY <1>13, <4>1
        <4>3. j \in Int /\ 0 <= j /\ t + j < e /\ lo <= t /\ d[k].from <= t BY <1>3, <2>1, <2>2, <4>1
        <4> QED BY <1>11, <4>2, <4>3 DEF In
      <3>2. t + j \in W BY <1>1, <3>1, FilledIs
      <3>3. f[p] = <<0, t + j>> BY <1>16, <2>1, <2>2
      <3> QED BY <1>8, <2>1, <2>2, <3>1, <3>2, <3>3
    <2>3. CASE ~ (t + j < end[k])
      <3>1. t + j - end[k] \in 0 .. Minute - 2 BY <1>3, <1>13, <2>1, <2>3
      <3>2. f[p] = <<k, t + j - end[k]>> BY <1>16, <2>1, <2>3
      <3> QED BY <1>8, <2>1, <2>3, <3>1, <3>2
    <2> QED BY <2>1, <2>2, <2>3
  <1>18. ASSUME NEW p \in P, NEW q \in P, f[p] = f[q] PROVE p = q
    <2>1. PICK k \in 1 .. Len(d), t \in Int, j \in 0 .. Minute - 1 :
            /\ p = <<<<k, t>>, j>> /\ d[k].from <= t /\ t - d[k].from \in Int
            /\ (t - d[k].from) % Minute = 0
            /\ k = p[1][1] /\ t = p[1][2] /\ j = p[2]
      BY <1>4, <1>14, <1>15
    <2>2. PICK l \in 1 .. Len(d), u \in Int, i \in 0 .. Minute - 1 :
            /\ q = <<<<l, u>>, i>> /\ d[l].from <= u /\ u - d[l].from \in Int
            /\ (u - d[l].from) % Minute = 0
            /\ l = q[1][1] /\ u = q[1][2] /\ i = q[2]
      BY <1>4, <1>14, <1>15
    <2>3. ASSUME k = l, t + j = u + i PROVE p = q
      <3>1. PICK c \in Int : c = d[k].from BY <1>11
      <3>2. Multiple(t - c, Minute) /\ Multiple(u - c, Minute) BY <2>1, <2>2, <2>3, <3>1 DEF Multiple
      <3>3. t = u /\ j = i
        <4>1. Placed(c, t, j, u, i) BY <2>3, <3>2 DEF Placed
        <4> QED BY <4>1, SameMinute
      <3> QED BY <2>1, <2>2, <2>3, <3>3
    <2>4. CASE t + j < end[k] /\ u + i < end[l]
      <3>1. f[p] = <<0, t + j>> /\ In(d[k], t + j) BY <1>17, <2>1, <2>4
      <3>2. f[q] = <<0, u + i>> /\ In(d[l], u + i) BY <1>17, <2>2, <2>4
      <3>3. <<0, t + j>> = <<0, u + i>> BY <1>18, <3>1, <3>2
      <3>4. t + j = u + i BY <3>3, Zenon
      <3>5. k = l BY <3>1, <3>2, <3>4, OneInterval
      <3> QED BY <2>3, <3>4, <3>5
    <2>5. CASE ~ (t + j < end[k]) /\ ~ (u + i < end[l])
      <3>1. f[p] = <<k, t + j - end[k]>> BY <1>17, <2>1, <2>5
      <3>2. f[q] = <<l, u + i - end[l]>> BY <1>17, <2>2, <2>5
      <3>3. <<k, t + j - end[k]>> = <<l, u + i - end[l]>> BY <1>18, <3>1, <3>2
      <3>4. k = l /\ t + j - end[k] = u + i - end[l] BY <3>3, Zenon
      <3>5. t + j = u + i BY <1>13, <3>4
      <3> QED BY <2>3, <3>4, <3>5
    <2>6. CASE t + j < end[k] /\ ~ (u + i < end[l])
      <3>1. f[p] = <<0, t + j>> BY <1>17, <2>1, <2>6
      <3>2. f[q] = <<l, u + i - end[l]>> BY <1>17, <2>2, <2>6
      <3>3. <<0, t + j>> = <<l, u + i - end[l]>> BY <1>18, <3>1, <3>2
      <3>4. l = 0 BY <3>3, Zenon
      <3> QED BY <3>4
    <2>7. CASE ~ (t + j < end[k]) /\ u + i < end[l]
      <3>1. f[q] = <<0, u + i>> BY <1>17, <2>2, <2>7
      <3>2. f[p] = <<k, t + j - end[k]>> BY <1>17, <2>1, <2>7
      <3>3. <<0, u + i>> = <<k, t + j - end[k]>> BY <1>18, <3>1, <3>2
      <3>4. k = 0 BY <3>3, Zenon
      <3> QED BY <3>4
    <2> QED BY <2>4, <2>5, <2>6, <2>7
  <1>19. Cardinality(B) * Minute <= Cardinality(W) + (Minute - 1) * Len(d)
    <2>1. IsFiniteSet(F \cup R) /\ Cardinality(F \cup R) <= Cardinality(F) + Cardinality(R)
      BY <1>9, <1>10, CardinalityOfUnion
    <2>2. f \in [P -> F \cup R] BY <1>16, <1>17
    <2>3. Cardinality(P) <= Cardinality(F \cup R) /\ Cardinality(P) \in Nat /\ Cardinality(F \cup R) \in Nat
      BY <1>18, <2>1, <2>2, Smaller
    <2>4. (Minute - 1) * Len(d) \in Nat BY <1>3
    <2> QED BY <1>2, <1>7, <1>9, <1>10, <2>1, <2>3, <2>4
  <1>20. ASSUME \A k \in 1 .. Len(d) : d[k].to <= hi /\ (d[k].to - d[k].from) % Minute = 0
         PROVE  Cardinality(B) * Minute <= Cardinality(W)
    <2>1. ASSUME NEW p \in P PROVE p[1][2] + p[2] < end[p[1][1]]
      <3>1. PICK k \in 1 .. Len(d), t \in Int, j \in 0 .. Minute - 1 :
              /\ k = p[1][1] /\ t = p[1][2] /\ j = p[2]
              /\ t < end[k] /\ d[k].from <= t /\ (t - d[k].from) % Minute = 0
        BY <1>4, <1>14, <1>15
      <3>2. end[k] = d[k].to /\ (d[k].to - d[k].from) % Minute = 0 BY <1>12, <1>20
      <3>3. PICK a \in Int, b \in Int : a = t - d[k].from /\ b = d[k].to - d[k].from BY <1>11
      <3>4. PICK m \in Nat \ {0} : m = Minute BY <1>3
      <3>5. a % m = 0 /\ b % m = 0 /\ a < b
        <4>1. a % m = 0 BY <3>1, <3>3, <3>4
        <4>2. b % m = 0 BY <3>2, <3>3, <3>4
        <4>3. PICK x \in Int, y \in Int : x = d[k].from /\ y = d[k].to BY <1>11
        <4>4. a = t - x /\ b = y - x /\ t < y BY <3>1, <3>2, <3>3, <4>3
        <4>5. a < b BY <4>3, <4>4
        <4> QED BY <4>1, <4>2, <4>5
      <3>6. PICK v \in Int, w \in Int : a = m * v /\ b = m * w
        <4>1. a \div m \in Int /\ b \div m \in Int OBVIOUS
        <4>2. a = m * (a \div m) /\ b = m * (b \div m) BY <3>5
        <4> QED BY <4>1, <4>2
      <3>7. v < w BY <3>5, <3>6
      <3>8. a + m <= b
        <4>1. m * (v + 1) <= m * w BY <3>7
        <4> QED BY <3>6, <4>1
      <3> QED
        <4>1. d[k].from \in Int /\ d[k].to \in Int BY <1>11
        <4>2. j <= m - 1 /\ j \in Int BY <3>4
        <4>3. (t - d[k].from) + m <= d[k].to - d[k].from BY <3>3, <3>8
        <4>4. t + j < d[k].to BY <4>1, <4>2, <4>3
        <4> QED BY <3>1, <3>2, <4>4
    <2>2. f \in [P -> F] BY <1>16, <1>17, <2>1
    <2>3. Cardinality(P) <= Cardinality(F) BY <1>9, <1>18, <2>2, Smaller
    <2> QED BY <1>7, <1>9, <2>3
  <1> QED BY <1>1, <1>19, <1>20

-----------------------------------------------------------------------------
(* A sheet, sorted and merged.                                              *)

WorkOf(sheet, kinds) == Merged(Sorted(sheet, kinds))
MergedSheet(X, sheet, kinds, d) ==
  /\ d \in Seq(X) /\ Proper(Len(d), d) /\ Apart(Len(d), d)
  /\ Len(d) <= Cardinality(Mine(sheet, kinds)) /\ Cardinality(Mine(sheet, kinds)) \in Nat
  /\ Filled(d) = Instants(sheet, kinds)
  /\ \A i \in 1 .. Len(d) : /\ \E k \in Mine(sheet, kinds) : d[i].from = sheet[k].from
                            /\ \E k \in Mine(sheet, kinds) : d[i].to = sheet[k].to

LEMMA SheetIsMerged ==
  ASSUME NEW X, Spans(X), NEW sheet \in Seq(X), NEW kinds
  PROVE  MergedSheet(X, sheet, kinds, WorkOf(sheet, kinds))
  <1>1. PICK mine, n : mine = Mine(sheet, kinds) /\ n = Cardinality(mine) OBVIOUS
  <1>2. IsFiniteSet(mine) /\ n \in Nat BY <1>1, SortedIs, Zenon
  <1>14. PICK order : SortedBy(sheet, kinds, n, order) BY <1>1, SortedIs, Zenon
  <1>3. /\ order \in [1 .. n -> mine]
        /\ Sorted(sheet, kinds) = [i \in 1 .. n |-> sheet[order[i]]]
        /\ \A k \in mine : \E i \in 1 .. n : order[i] = k
        /\ \A i, j \in 1 .. n : order[i] = order[j] => i = j
        /\ \A i, j \in 1 .. n : i <= j => sheet[order[i]].from <= sheet[order[j]].from
    BY <1>1, <1>14 DEF SortedBy
  <1>4. PICK s : s = Sorted(sheet, kinds) OBVIOUS
  <1>5. \A k \in mine : k \in DOMAIN sheet /\ sheet[k] \in X /\ sheet[k].from < sheet[k].to /\ sheet[k].kind \in kinds
    BY <1>1 DEF Mine, Valid
  <1>6. \A i \in 1 .. n : order[i] \in mine /\ s[i] = sheet[order[i]] /\ s[i] \in X BY <1>3, <1>4, <1>5
  <1>7. s \in [1 .. n -> X] BY <1>3, <1>4, <1>6
  <1>8. Proper(n, s) /\ Ascending(n, s)
    <2>1. Proper(n, s) BY <1>5, <1>6 DEF Proper
    <2>2. Ascending(n, s) BY <1>3, <1>6 DEF Ascending
    <2> QED BY <2>1, <2>2
  <1>9. PICK d : d = Merged(s) OBVIOUS
  <1>10. d \in Seq(X) /\ Outline(n, s, d) BY <1>2, <1>7, <1>8, <1>9, MergedIs
  <1>11. Filled(d) = Instants(sheet, kinds)
    <2>1. ASSUME NEW t PROVE t \in Filled(d) <=> t \in Instants(sheet, kinds)
      <3>1. t \in Filled(d) <=> t \in Int /\ \E i \in 1 .. Len(d) : In(d[i], t) BY <1>10, FilledIs
      <3>2. t \in Int => ((\E i \in 1 .. Len(d) : In(d[i], t)) <=> (\E j \in 1 .. n : In(s[j], t)))
        BY <1>10 DEF Outline
      <3>3. (\E j \in 1 .. n : In(s[j], t)) <=> (\E k \in mine : In(sheet[k], t)) BY <1>3, <1>6
      <3>4. t \in Int => ((\E k \in mine : In(sheet[k], t)) <=>
                            (\E k \in DOMAIN sheet : sheet[k].kind \in kinds /\ In(sheet[k], t)))
        <4>1. SUFFICES ASSUME t \in Int, NEW k \in DOMAIN sheet, sheet[k].kind \in kinds, In(sheet[k], t)
                       PROVE  k \in mine
          BY <1>5
        <4>2. sheet[k].from \in Int /\ sheet[k].to \in Int BY DEF Spans
        <4>3. sheet[k].from < sheet[k].to BY <4>1, <4>2 DEF In
        <4> QED BY <1>1, <4>1, <4>3 DEF Mine, Valid
      <3>5. t \in Instants(sheet, kinds) <=>
              t \in Int /\ \E k \in DOMAIN sheet : sheet[k].kind \in kinds /\ In(sheet[k], t)
        <4>1. \A k \in DOMAIN sheet : sheet[k].from \in Int /\ sheet[k].to \in Int BY DEF Spans
        <4>2. \A k \in DOMAIN sheet : t \in sheet[k].from .. sheet[k].to - 1 <=> t \in Int /\ In(sheet[k], t)
          BY <4>1 DEF In
        <4>3. t \in Instants(sheet, kinds) <=>
                \E k \in DOMAIN sheet : sheet[k].kind \in kinds /\ t \in sheet[k].from .. sheet[k].to - 1
          BY DEF Instants
        <4> QED BY <4>2, <4>3
      <3> QED BY <3>1, <3>2, <3>3, <3>4, <3>5
    <2> QED BY <2>1
  <1>12. ASSUME NEW i \in 1 .. Len(d)
         PROVE  /\ \E k \in mine : d[i].from = sheet[k].from
                /\ \E k \in mine : d[i].to = sheet[k].to
    <2>1. (\E j \in 1 .. n : d[i].from = s[j].from) /\ (\E j \in 1 .. n : d[i].to = s[j].to)
      BY <1>10 DEF Outline
    <2> QED BY <1>6, <2>1
  <1>13. Proper(Len(d), d) /\ Apart(Len(d), d) /\ Len(d) <= n BY <1>10 DEF Outline
  <1> QED BY <1>1, <1>2, <1>4, <1>9, <1>10, <1>11, <1>12, <1>13 DEF MergedSheet, WorkOf

LEMMA WholeWindow ==
  ASSUME NEW X, Spans(X), NEW d \in Seq(X), Proper(Len(d), d), Apart(Len(d), d)
  PROVE  \E lo, hi \in Int :
           /\ Filled(d) \cap (lo .. hi - 1) = Filled(d) /\ Begun(d, lo, hi) = Started(d)
           /\ \A k \in 1 .. Len(d) : lo <= d[k].from /\ d[k].to <= hi
  <1>1. \A k \in 1 .. Len(d) : d[k].from \in Int /\ d[k].to \in Int /\ d[k].from < d[k].to
    BY DEF Spans, Proper
  <1>2. \E lo, hi \in Int : \A k \in 1 .. Len(d) : lo <= d[k].from /\ d[k].to <= hi
    <2>1. CASE Len(d) = 0 BY <2>1
    <2>2. CASE Len(d) # 0
      <3>1. 1 \in 1 .. Len(d) /\ Len(d) \in 1 .. Len(d) BY <2>2
      <3>2. ASSUME NEW k \in 1 .. Len(d) PROVE d[1].from <= d[k].from /\ d[k].to <= d[Len(d)].to
        <4>1. k = 1 \/ 1 < k OBVIOUS
        <4>2. k = Len(d) \/ k < Len(d) OBVIOUS
        <4>3. d[1].from <= d[k].from BY <1>1, <3>1, <4>1 DEF Apart
        <4>4. d[k].to <= d[Len(d)].to BY <1>1, <3>1, <4>2 DEF Apart
        <4> QED BY <4>3, <4>4
      <3> QED BY <1>1, <3>1, <3>2
    <2> QED BY <2>1, <2>2
  <1>3. PICK lo \in Int, hi \in Int : \A k \in 1 .. Len(d) : lo <= d[k].from /\ d[k].to <= hi BY <1>2
  <1>4. \A t \in Int, k \in 1 .. Len(d) : In(d[k], t) => lo <= t /\ t < hi BY <1>1, <1>3 DEF In
  <1>5. Filled(d) \cap (lo .. hi - 1) = Filled(d)
    <2>1. \A t \in Filled(d) : t \in lo .. hi - 1
      <3>1. \A t \in Filled(d) : t \in Int /\ \E k \in 1 .. Len(d) : In(d[k], t) BY FilledIs
      <3> QED BY <1>4, <3>1
    <2> QED BY <2>1
  <1>6. Begun(d, lo, hi) = Started(d)
    <2>1. \A m \in Started(d) : lo <= m[2] /\ m[2] < hi
      <3>1. \A m \in Started(d) : \E k \in 1 .. Len(d), t \in Int : m = <<k, t>> /\ In(d[k], t) BY StartedIs
      <3> QED BY <1>4, <3>1
    <2> QED BY <2>1 DEF Begun
  <1> QED BY <1>3, <1>5, <1>6

-----------------------------------------------------------------------------
(* An evaluation.                                                           *)

DaysSeen(sheet) ==
  {Day(m[2]) : m \in Started(WorkOf(sheet, WorkKinds)) \cup Started(WorkOf(sheet, {"PAUSE"}))}
HoursOn(sheet, d) == RoundToTwo(OnDay(Started(WorkOf(sheet, WorkKinds)), d), HourMinutes)
TooLong(sheet, limit, d) == HoursOn(sheet, d) * HourMinutes > 100 * limit.day
TooFewPauses(sheet, d) ==
  OnDay(Started(WorkOf(sheet, {"PAUSE"})), d) < RequiredBreak(HoursOn(sheet, d))

Found(sheet, limit, v) ==
  \/ \E k \in DOMAIN sheet : ~ Valid(sheet[k]) /\ v = <<"INVALID_INTERVAL", k>>
  \/ \E k \in Overlaps(Sorted(sheet, WorkKinds)) : v = <<"OVERLAP", k>>
  \/ \E k \in ShortRests(WorkOf(sheet, WorkKinds), limit) : v = <<"REST_HOURS_DEFICIT", k>>
  \/ \E d \in DaysSeen(sheet) : TooLong(sheet, limit, d) /\ v = <<"MAX_DAILY_HOURS_EXCEEDED", d>>
  \/ \E d \in DaysSeen(sheet) : TooFewPauses(sheet, d) /\ v = <<"BREAK_DEFICIT", d>>
  \/ /\ RoundToTwo(Cardinality(Started(WorkOf(sheet, WorkKinds))), HourMinutes) > limit.week
     /\ v = <<"MAX_WEEKLY_HOURS_EXCEEDED", 0>>

LEMMA ViolationsAre ==
  ASSUME NEW sheet, NEW limit
  PROVE  \A v : v \in Evaluate(sheet, limit).violations <=> Found(sheet, limit, v)
  <1> DEFINE hours == [d \in DaysSeen(sheet) |-> HoursOn(sheet, d)]
             total == RoundToTwo(Cardinality(Started(WorkOf(sheet, WorkKinds))), HourMinutes)
             daily == {e \in DaysSeen(sheet) : hours[e] * HourMinutes > 100 * limit.day}
             breaks == {e \in DaysSeen(sheet) :
                          OnDay(Started(WorkOf(sheet, {"PAUSE"})), e) < RequiredBreak(hours[e])}
             found == {<<"INVALID_INTERVAL", k>> : k \in {j \in DOMAIN sheet : ~ Valid(sheet[j])}}
                      \cup {<<"OVERLAP", k>> : k \in Overlaps(Sorted(sheet, WorkKinds))}
                      \cup {<<"REST_HOURS_DEFICIT", k>> : k \in ShortRests(WorkOf(sheet, WorkKinds), limit)}
                      \cup {<<"MAX_DAILY_HOURS_EXCEEDED", d>> : d \in daily}
                      \cup {<<"BREAK_DEFICIT", d>> : d \in breaks}
                      \cup {v \in {<<"MAX_WEEKLY_HOURS_EXCEEDED", 0>>} : total > limit.week}
  <1>1. Evaluate(sheet, limit).violations = found BY Zenon DEF Evaluate, WorkOf, DaysSeen, HoursOn
  <1>2. daily = {d \in DaysSeen(sheet) : TooLong(sheet, limit, d)} BY DEF TooLong
  <1>3. breaks = {d \in DaysSeen(sheet) : TooFewPauses(sheet, d)} BY DEF TooFewPauses
  <1> HIDE DEF daily, breaks, total, hours
  <1>4. SUFFICES ASSUME NEW v PROVE v \in found <=> Found(sheet, limit, v) BY <1>1
  <1> DEFINE week == total > limit.week
  <1>5. week <=> RoundToTwo(Cardinality(Started(WorkOf(sheet, WorkKinds))), HourMinutes) > limit.week
    BY DEF total
  <1> QED BY <1>2, <1>3, <1>5 DEF Found

LEMMA EvaluationIs ==
  ASSUME NEW sheet, NEW limit
  PROVE  /\ Evaluate(sheet, limit).minutes = Cardinality(Started(WorkOf(sheet, WorkKinds)))
         /\ Evaluate(sheet, limit).surcharges = SurchargeMinutes(Started(WorkOf(sheet, WorkKinds)))
         /\ (\E v \in Evaluate(sheet, limit).violations : v[1] = "OVERLAP")
              <=> Overlaps(Sorted(sheet, WorkKinds)) # {}
  <1>1. Evaluate(sheet, limit).minutes = Cardinality(Started(WorkOf(sheet, WorkKinds)))
    BY DEF Evaluate, WorkOf
  <1>2. Evaluate(sheet, limit).surcharges = SurchargeMinutes(Started(WorkOf(sheet, WorkKinds)))
    BY DEF Evaluate, WorkOf
  <1>3. \A k \in Overlaps(Sorted(sheet, WorkKinds)) : Found(sheet, limit, <<"OVERLAP", k>>) BY DEF Found
  <1>4. ASSUME NEW v, Found(sheet, limit, v), v[1] = "OVERLAP"
        PROVE  \E k \in Overlaps(Sorted(sheet, WorkKinds)) : v = <<"OVERLAP", k>>
    BY <1>4 DEF Found
  <1> QED BY <1>1, <1>2, <1>3, <1>4, ViolationsAre

LEMMA OverlapsAreFound ==
  ASSUME NEW X, Spans(X), NEW sheet \in Seq(X), NEW kinds
  PROVE  Overlaps(Sorted(sheet, kinds)) # {}
           <=> \E j, k \in Mine(sheet, kinds) : j # k /\ \E t \in Int : In(sheet[j], t) /\ In(sheet[k], t)
  <1>1. PICK mine, n : mine = Mine(sheet, kinds) /\ n = Cardinality(mine) OBVIOUS
  <1>2. n \in Nat BY <1>1, SortedIs, Zenon
  <1>3. PICK order : SortedBy(sheet, kinds, n, order) BY <1>1, SortedIs, Zenon
  <1>4. /\ order \in [1 .. n -> mine]
        /\ Sorted(sheet, kinds) = [i \in 1 .. n |-> sheet[order[i]]]
        /\ \A k \in mine : \E i \in 1 .. n : order[i] = k
        /\ \A i, j \in 1 .. n : order[i] = order[j] => i = j
        /\ \A i, j \in 1 .. n : i <= j => sheet[order[i]].from <= sheet[order[j]].from
    BY <1>1, <1>3 DEF SortedBy
  <1>5. PICK s : s = Sorted(sheet, kinds) OBVIOUS
  <1>6. \A k \in mine : sheet[k].from \in Int /\ sheet[k].to \in Int /\ sheet[k].from < sheet[k].to
    BY <1>1 DEF Mine, Valid, Spans
  <1>7. \A i \in 1 .. n : order[i] \in mine /\ s[i] = sheet[order[i]] BY <1>4, <1>5
  <1>8. Len(s) = n BY <1>2, <1>4, <1>5
  <1>9. Overlaps(s) = {k \in 1 .. n - 1 : s[k].to > s[k + 1].from} BY <1>8 DEF Overlaps
  <1>10. ASSUME NEW i \in Overlaps(s)
         PROVE  \E j, k \in mine : j # k /\ \E t \in Int : In(sheet[j], t) /\ In(sheet[k], t)
    <2>1. i \in 1 .. n /\ i + 1 \in 1 .. n /\ s[i].to > s[i + 1].from /\ i # i + 1 /\ i <= i + 1
      BY <1>2, <1>9, <1>10
    <2>2. PICK j \in mine, k \in mine : j = order[i] /\ k = order[i + 1] BY <1>7, <2>1
    <2>3. j # k /\ sheet[j].to > sheet[k].from /\ sheet[j].from <= sheet[k].from BY <1>4, <1>7, <2>1, <2>2
    <2>4. In(sheet[j], sheet[k].from) /\ In(sheet[k], sheet[k].from) BY <1>6, <2>2, <2>3 DEF In
    <2> QED BY <1>6, <2>3, <2>4
  <1>11. ASSUME Overlaps(s) = {}, NEW j \in mine, NEW k \in mine, j # k,
                NEW t \in Int, In(sheet[j], t), In(sheet[k], t)
         PROVE  FALSE
    <2>1. PICK p \in 1 .. n, q \in 1 .. n : order[p] = j /\ order[q] = k BY <1>4
    <2>2. \A a \in 1 .. n, b \in 1 .. n : a < b => s[a].to <= s[b].from
      <3>1. SUFFICES ASSUME NEW a \in 1 .. n, NEW b \in 1 .. n, a < b PROVE s[a].to <= s[b].from OBVIOUS
      <3>2. a \in 1 .. n - 1 /\ a + 1 \in 1 .. n /\ a + 1 <= b BY <1>2, <3>1
      <3>3. ~ (s[a].to > s[a + 1].from) BY <1>9, <1>11, <3>2
      <3>4. s[a].to \in Int /\ s[a + 1].from \in Int /\ s[b].from \in Int BY <1>6, <1>7, <3>2
      <3>5. s[a + 1].from <= s[b].from BY <1>4, <1>7, <3>2
      <3> QED BY <3>3, <3>4, <3>5
    <2>3. s[p] = sheet[j] /\ s[q] = sheet[k] /\ (p < q \/ q < p) BY <1>7, <1>11, <2>1
    <2>4. s[p].to <= s[q].from \/ s[q].to <= s[p].from BY <2>2, <2>3
    <2> QED BY <1>6, <1>11, <2>3, <2>4 DEF In
  <1> QED BY <1>1, <1>5, <1>10, <1>11

LEMMA BeatsOrders ==
  /\ \A c, o \in DOMAIN TieBreak : Beats(c, o) => ~ Beats(o, c)
  /\ \A c, o \in DOMAIN TieBreak : c # o => Beats(c, o) \/ Beats(o, c)
  /\ \A c, o, e \in DOMAIN TieBreak : Beats(c, o) /\ Beats(o, e) => Beats(c, e)
  <1>1. \A c \in DOMAIN TieBreak : TieBreak[c] \in Int /\ Priority(c) \in Int
    BY RulesAreRules DEF TieBreak, Priority
  <1>2. \A c, o \in DOMAIN TieBreak : c # o => TieBreak[c] # TieBreak[o] BY DEF TieBreak
  <1> QED BY <1>1, <1>2 DEF Beats

LEMMA OneCategory ==
  ASSUME NEW M \in SUBSET DOMAIN TieBreak, M # {}
  PROVE  \E c \in M : \A o \in M \ {c} : Beats(c, o)
  <1>1. DOMAIN TieBreak = {"HOLIDAY", "WEEKEND", "NIGHT"} BY DEF TieBreak
  <1>2. PICK x, y, z : x = "HOLIDAY" /\ y = "WEEKEND" /\ z = "NIGHT" OBVIOUS
  <1>3. M \subseteq {x, y, z} /\ x \in DOMAIN TieBreak /\ y \in DOMAIN TieBreak /\ z \in DOMAIN TieBreak
        /\ x # y /\ y # z /\ x # z
    BY <1>1, <1>2
  <1>4. /\ Beats(x, y) \/ Beats(y, x)
        /\ Beats(y, z) \/ Beats(z, y)
        /\ Beats(x, z) \/ Beats(z, x)
        /\ Beats(x, y) /\ Beats(y, z) => Beats(x, z)
        /\ Beats(y, x) /\ Beats(x, z) => Beats(y, z)
        /\ Beats(z, x) /\ Beats(x, y) => Beats(z, y)
        /\ Beats(z, y) /\ Beats(y, x) => Beats(z, x)
    BY <1>3, BeatsOrders
  <1> QED BY <1>3, <1>4, SMTT(30)

LEMMA SurchargesCountOnce ==
  ASSUME NEW S, IsFiniteSet(S)
  PROVE  LET w == SurchargeMinutes(S) IN
         Sum(DOMAIN w, w) = Cardinality({m \in S : Matches(m[2]) # {}})
  <1> DEFINE w == SurchargeMinutes(S)
             best(c) == {m \in S : c \in Matches(m[2]) /\ \A o \in Matches(m[2]) \ {c} : Beats(c, o)}
  <1>1. DOMAIN w = {"HOLIDAY", "WEEKEND", "NIGHT"} /\ DOMAIN TieBreak = {"HOLIDAY", "WEEKEND", "NIGHT"}
    BY DEF SurchargeMinutes, TieBreak
  <1>2. \A c \in DOMAIN w : w[c] = Cardinality(best(c)) BY <1>1 DEF SurchargeMinutes
  <1>3. \A m \in S : Matches(m[2]) \in SUBSET DOMAIN TieBreak BY <1>1 DEF Matches
  <1>4. \A c \in DOMAIN w : best(c) \subseteq S /\ IsFiniteSet(best(c)) BY FS_Subset
  <1>5. \A c, o \in DOMAIN w : c # o => best(c) \cap best(o) = {} BY <1>1, <1>3, BeatsOrders
  <1>6. {m \in S : Matches(m[2]) # {}} = best("HOLIDAY") \cup best("WEEKEND") \cup best("NIGHT")
    <2>1. ASSUME NEW m \in S, Matches(m[2]) # {} PROVE \E c \in DOMAIN w : m \in best(c)
      <3>1. PICK M : M = Matches(m[2]) OBVIOUS
      <3>2. M \in SUBSET DOMAIN TieBreak /\ M # {} BY <1>3, <2>1, <3>1
      <3>3. PICK c \in M : \A o \in M \ {c} : Beats(c, o) BY <3>2, OneCategory
      <3> QED BY <1>1, <3>1, <3>2, <3>3
    <2> QED BY <1>1, <2>1
  <1> DEFINE u == SurchargeMinutes(S)
  <1>7. \A c \in DOMAIN w : w[c] \in Nat BY <1>2, <1>4, FS_CardinalityType
  <1>8. PICK g : g = w OBVIOUS
  <1>9. /\ DOMAIN g = {"HOLIDAY", "WEEKEND", "NIGHT"} /\ \A c \in DOMAIN g : g[c] \in Nat
        /\ IsFiniteSet(DOMAIN g) /\ IsFiniteSet({"WEEKEND", "NIGHT"}) /\ IsFiniteSet({"NIGHT"}) /\ IsFiniteSet({})
    <2>1. IsFiniteSet({}) /\ IsFiniteSet({"NIGHT"}) /\ IsFiniteSet({"WEEKEND"}) /\ IsFiniteSet({"HOLIDAY"})
      BY FS_EmptySet, FS_Singleton
    <2>2. IsFiniteSet({"WEEKEND"} \cup {"NIGHT"}) /\ {"WEEKEND"} \cup {"NIGHT"} = {"WEEKEND", "NIGHT"}
      BY <2>1, CardinalityOfUnion
    <2>3. /\ IsFiniteSet({"HOLIDAY"} \cup {"WEEKEND", "NIGHT"})
          /\ {"HOLIDAY"} \cup {"WEEKEND", "NIGHT"} = {"HOLIDAY", "WEEKEND", "NIGHT"}
      BY <2>1, <2>2, CardinalityOfUnion
    <2> QED BY <1>1, <1>7, <1>8, <2>1, <2>2, <2>3
  <1>10. Sum({}, g) = 0 BY <1>9, SumStep
  <1>11. Sum({"NIGHT"}, g) = Sum({}, g) + g["NIGHT"]
    <2>1. Weighs({} \cup {"NIGHT"}, g) /\ "NIGHT" \notin {} /\ {} \cup {"NIGHT"} = {"NIGHT"}
      BY <1>9 DEF Weighs
    <2>2. Sum({} \cup {"NIGHT"}, g) = Sum({}, g) + g["NIGHT"] BY <1>9, <2>1, SumAdded
    <2> QED BY <2>1, <2>2
  <1>12. Sum({"WEEKEND", "NIGHT"}, g) = Sum({"NIGHT"}, g) + g["WEEKEND"]
    <2>1. Weighs({"NIGHT"} \cup {"WEEKEND"}, g) /\ "WEEKEND" \notin {"NIGHT"}
          /\ {"NIGHT"} \cup {"WEEKEND"} = {"WEEKEND", "NIGHT"}
      BY <1>9 DEF Weighs
    <2>2. Sum({"NIGHT"} \cup {"WEEKEND"}, g) = Sum({"NIGHT"}, g) + g["WEEKEND"] BY <1>9, <2>1, SumAdded
    <2> QED BY <2>1, <2>2
  <1>13. Sum(DOMAIN g, g) = Sum({"WEEKEND", "NIGHT"}, g) + g["HOLIDAY"]
    <2>1. Weighs({"WEEKEND", "NIGHT"} \cup {"HOLIDAY"}, g) /\ "HOLIDAY" \notin {"WEEKEND", "NIGHT"}
          /\ {"WEEKEND", "NIGHT"} \cup {"HOLIDAY"} = DOMAIN g
      BY <1>9 DEF Weighs
    <2>2. Sum({"WEEKEND", "NIGHT"} \cup {"HOLIDAY"}, g) = Sum({"WEEKEND", "NIGHT"}, g) + g["HOLIDAY"]
      BY <1>9, <2>1, SumAdded
    <2> QED BY <2>1, <2>2
  <1>14. PICK h, e, n : h = best("HOLIDAY") /\ e = best("WEEKEND") /\ n = best("NIGHT") OBVIOUS
  <1>15. IsFiniteSet(h) /\ IsFiniteSet(e) /\ IsFiniteSet(n) /\ h \cap e = {} /\ (h \cup e) \cap n = {}
    <2>1. "HOLIDAY" \in DOMAIN w /\ "WEEKEND" \in DOMAIN w /\ "NIGHT" \in DOMAIN w BY <1>1
    <2>2. h \cap e = {} /\ h \cap n = {} /\ e \cap n = {} BY <1>5, <1>14, <2>1
    <2> QED BY <1>4, <1>14, <2>1, <2>2
  <1>16. /\ IsFiniteSet(h \cup e)
         /\ Cardinality(h \cup e) = Cardinality(h) + Cardinality(e)
         /\ Cardinality((h \cup e) \cup n) = Cardinality(h \cup e) + Cardinality(n)
    BY <1>15, CardinalityOfUnion
  <1>17. g["HOLIDAY"] = Cardinality(h) /\ g["WEEKEND"] = Cardinality(e) /\ g["NIGHT"] = Cardinality(n)
    BY <1>1, <1>2, <1>8, <1>14
  <1>18. /\ Cardinality(h) \in Nat /\ Cardinality(e) \in Nat /\ Cardinality(n) \in Nat
         /\ Cardinality(h \cup e) \in Nat
    BY <1>15, <1>16, FS_CardinalityType
  <1>19. Sum(DOMAIN g, g) = Cardinality((h \cup e) \cup n) BY <1>10, <1>11, <1>12, <1>13, <1>16, <1>17, <1>18
  <1> QED BY <1>6, <1>8, <1>14, <1>19

-----------------------------------------------------------------------------
(* What one evaluation counts.                                              *)

LEMMA Scaled ==
  ASSUME NEW a \in Nat, NEW b \in Nat, NEW c \in Nat, a <= b
  PROVE  c * a <= c * b
  OBVIOUS

LEMMA Difference ==
  ASSUME NEW a \in Int, NEW b \in Int, NEW m \in Nat \ {0}, a % m = 0, b % m = 0
  PROVE  (b - a) % m = 0
  <1>1. PICK p \in Int, q \in Int : a = m * p /\ b = m * q
    <2>1. a = m * (a \div m) /\ a \div m \in Int BY Modulo
    <2>2. b = m * (b \div m) /\ b \div m \in Int BY Modulo
    <2> QED BY <2>1, <2>2
  <1>2. PICK c \in Int, r \in Int : c = b - a /\ r = q - p OBVIOUS
  <1>3. c = m * r BY <1>1, <1>2
  <1>4. m * r <= c /\ c < m * (r + 1) BY <1>3
  <1>5. c \div m = r /\ c = m * (c \div m) + (c % m) BY <1>4, Modulo
  <1>6. m * r \in Int /\ c % m \in Int BY Modulo
  <1>7. c % m = 0 BY <1>3, <1>5, <1>6
  <1> QED BY <1>2, <1>7

LEMMA SheetsCountOnce ==
  ASSUME NEW X, Spans(X), NEW sheet \in Seq(X), NEW limit
  PROVE  CountsOnce(sheet, limit)
  <1> DEFINE worked == Cardinality(Instants(sheet, WorkKinds))
             mine == {k \in DOMAIN sheet : sheet[k].kind \in WorkKinds}
             shares(j, k) == (sheet[j].from .. sheet[j].to - 1) \cap (sheet[k].from .. sheet[k].to - 1) # {}
  <1>1. PICK d : d = WorkOf(sheet, WorkKinds) OBVIOUS
  <1>2. MergedSheet(X, sheet, WorkKinds, d) BY <1>1, SheetIsMerged
  <1>3. /\ d \in Seq(X) /\ Proper(Len(d), d) /\ Apart(Len(d), d)
        /\ Len(d) <= Cardinality(Mine(sheet, WorkKinds)) /\ Cardinality(Mine(sheet, WorkKinds)) \in Nat
        /\ Filled(d) = Instants(sheet, WorkKinds)
        /\ \A i \in 1 .. Len(d) : /\ \E k \in Mine(sheet, WorkKinds) : d[i].from = sheet[k].from
                                  /\ \E k \in Mine(sheet, WorkKinds) : d[i].to = sheet[k].to
    BY <1>2 DEF MergedSheet
  <1>4. PICK lo \in Int, hi \in Int :
          /\ Filled(d) \cap (lo .. hi - 1) = Filled(d) /\ Begun(d, lo, hi) = Started(d)
          /\ \A k \in 1 .. Len(d) : lo <= d[k].from /\ d[k].to <= hi
    BY <1>3, WholeWindow
  <1>5. PICK begun : begun = Cardinality(Started(d)) OBVIOUS
  <1>6. PICK filled : filled = worked OBVIOUS
  <1>7. \A k \in 1 .. Len(d) : d[k].from \in Int /\ d[k].to \in Int BY <1>3 DEF Spans
  <1>8. /\ filled \in Nat /\ begun \in Nat /\ filled <= begun * Minute
    <2>1. \A k \in 1 .. Len(d) : ~ (d[k].from < lo /\ lo < d[k].to) BY <1>4, <1>7
    <2> QED BY <1>3, <1>4, <1>5, <1>6, <2>1, FilledByMinutes
  <1>9. /\ begun * Minute <= filled + (Minute - 1) * Len(d)
        /\ (\A k \in 1 .. Len(d) : (d[k].to - d[k].from) % Minute = 0) => begun * Minute <= filled
    BY <1>3, <1>4, <1>5, <1>6, MinutesAreFilled
  <1>10. /\ IsFiniteSet(mine) /\ Cardinality(mine) \in Nat
         /\ Cardinality(Mine(sheet, WorkKinds)) <= Cardinality(mine)
    <2>1. mine \subseteq 1 .. Len(sheet) /\ Len(sheet) \in Int /\ 1 \in Int OBVIOUS
    <2>2. IsFiniteSet(mine) /\ Cardinality(mine) \in Nat BY <2>1, SubsetOfInterval, Zenon
    <2>3. Mine(sheet, WorkKinds) \subseteq mine BY DEF Mine
    <2> QED BY <2>2, <2>3, FS_Subset
  <1>11. begun * Minute <= filled + (Minute - 1) * Cardinality(mine)
    <2>1. PICK a, b, c : a = Len(d) /\ b = Cardinality(mine) /\ c = Minute - 1 OBVIOUS
    <2>2. a \in Nat /\ b \in Nat /\ c \in Nat /\ a <= b BY <1>3, <1>10, <2>1, ClockTicks
    <2>3. c * a <= c * b BY <2>2, Scaled
    <2>4. c * a \in Int /\ c * b \in Int /\ begun * Minute \in Int BY <1>8, <2>2, ClockTicks
    <2> QED BY <1>8, <1>9, <2>1, <2>3, <2>4
  <1>12. ASSUME \A k \in mine : sheet[k].from % Minute = 0 /\ sheet[k].to % Minute = 0
         PROVE  begun * Minute = filled
    <2>1. ASSUME NEW k \in 1 .. Len(d) PROVE (d[k].to - d[k].from) % Minute = 0
      <3>1. Mine(sheet, WorkKinds) \subseteq mine BY DEF Mine
      <3>2. d[k].from % Minute = 0 /\ d[k].to % Minute = 0 BY <1>3, <1>12, <3>1
      <3>3. PICK a \in Int, b \in Int : a = d[k].from /\ b = d[k].to BY <1>7
      <3>4. (b - a) % Minute = 0 BY <3>2, <3>3, ClockTicks, Difference
      <3> QED BY <3>3, <3>4
    <2>2. begun * Minute <= filled /\ begun * Minute \in Int BY <1>8, <1>9, <2>1, ClockTicks
    <2> QED BY <1>8, <2>2
  <1>13. (\E v \in Evaluate(sheet, limit).violations : v[1] = "OVERLAP")
           <=> (\E j, k \in mine : j # k /\ shares(j, k))
    <2>1. \A k \in DOMAIN sheet : sheet[k].from \in Int /\ sheet[k].to \in Int BY DEF Spans
    <2>2. \A j, k \in DOMAIN sheet : shares(j, k) <=> \E t \in Int : In(sheet[j], t) /\ In(sheet[k], t)
      <3>1. \A k \in DOMAIN sheet : \A t : t \in sheet[k].from .. sheet[k].to - 1 <=> t \in Int /\ In(sheet[k], t)
        BY <2>1 DEF In
      <3> QED BY <3>1
    <2>3. \A k \in mine : \A t \in Int : In(sheet[k], t) => k \in Mine(sheet, WorkKinds)
      BY <2>1 DEF Mine, Valid, In
    <2>4. Mine(sheet, WorkKinds) \subseteq mine /\ mine \subseteq DOMAIN sheet BY DEF Mine
    <2>5. (\E j, k \in mine : j # k /\ shares(j, k))
            <=> \E j, k \in Mine(sheet, WorkKinds) : j # k /\ \E t \in Int : In(sheet[j], t) /\ In(sheet[k], t)
      BY <2>2, <2>3, <2>4
    <2> QED BY <2>5, EvaluationIs, OverlapsAreFound
  <1>14. MapThenSumSet(LAMBDA c : Evaluate(sheet, limit).surcharges[c], DOMAIN Evaluate(sheet, limit).surcharges)
           = Cardinality({m \in Started(Merged(Sorted(sheet, WorkKinds))) : Matches(m[2]) # {}})
    <2>1. IsFiniteSet(Started(d)) BY <1>3, SheetsAreFinite
    <2>2. PICK w : w = SurchargeMinutes(Started(d)) OBVIOUS
    <2>3. Sum(DOMAIN w, w) = Cardinality({m \in Started(d) : Matches(m[2]) # {}})
      BY <2>1, <2>2, SurchargesCountOnce
    <2>4. Evaluate(sheet, limit).surcharges = w BY <1>1, <2>2, EvaluationIs
    <2>5. Sum(DOMAIN Evaluate(sheet, limit).surcharges, Evaluate(sheet, limit).surcharges)
            = Cardinality({m \in Started(d) : Matches(m[2]) # {}})
      BY <2>3, <2>4
    <2>6. MapThenSumSet(LAMBDA c : Evaluate(sheet, limit).surcharges[c], DOMAIN Evaluate(sheet, limit).surcharges)
            = Cardinality({m \in Started(d) : Matches(m[2]) # {}})
      BY <2>5 DEF Sum
    <2> QED BY <1>1, <2>6 DEF WorkOf
  <1>15. Evaluate(sheet, limit).minutes = begun BY <1>1, <1>5, EvaluationIs
  <1> HIDE DEF worked, mine, shares
  <1> QED BY <1>6, <1>8, <1>11, <1>12, <1>13, <1>14, <1>15, Zenon DEF CountsOnce, worked, mine, shares

-----------------------------------------------------------------------------
(* The time engine is only asked about sheets.                              *)

LEMMA SheetsAreSpans ==
  Spans([from : Int, to : Int, kind : STRING])
  BY DEF Spans

LEMMA AskedIsASheet ==
  Spec => [](asked \in Asked \cup {<<>>})
  <1>1. Init => asked \in Asked \cup {<<>>} BY DEF Init
  <1>2. asked \in Asked \cup {<<>>} /\ [Next]_monthVars => (asked \in Asked \cup {<<>>})'
    BY DEF Next, Operation, Book, AskForCorrection, DecideCorrection, AskForAbsence, CancelAbsence,
           DecideAbsence, SetLimits, Ask, monthVars
  <1> QED BY <1>1, <1>2, PTL DEF Spec

\* Each minute of work counts once, an overlap is reported if and only if there is one, and
\* each minute that earns a surcharge earns one, for every sheet of intervals that the time
\* engine is asked about (minute-accounting.ts, interval-classification.ts, overlap.ts).
THEOREM MinutesAlwaysCountOnce ==
  Spec => []MinutesCountOnce
  <1>1. asked \in Asked \cup {<<>>} => MinutesCountOnce
    <2>1. SUFFICES ASSUME asked \in Asked \cup {<<>>} PROVE CountsOnce(asked, FirstLimits)
      BY DEF MinutesCountOnce
    <2>2. asked \in Seq([from : Int, to : Int, kind : STRING])
      <3>1. asked = <<>> => asked \in Seq([from : Int, to : Int, kind : STRING]) OBVIOUS
      <3> QED BY <2>1, <3>1, SheetsAreSheets
    <2> QED BY <2>2, SheetsAreSpans, SheetsCountOnce
  <1> QED BY <1>1, AskedIsASheet, PTL

-----------------------------------------------------------------------------
(* What is booked.                                                          *)

Rowlike == [appointment : Appointment, kind : STRING, from : Int, to : Int]

BookedWell ==
  /\ booked \subseteq Booking /\ IsFiniteSet(booked)
  /\ \A b \in booked : Resolves(Known(b))
  /\ \A b, c \in booked : b # c /\ Owner(b.appointment) = Owner(c.appointment) => ~ Meets(b, c)
AskedWell ==
  /\ IsFiniteSet(corrections)
  /\ \A k \in corrections : k.of \in Booking /\ k.as \in Booking /\ Resolves(Known(k.as))
AbsentWell == \A l \in Absence : absence[l] \in {"REQUESTED", "APPROVED"} => Resolves(Whole(l))

Status == {"NONE", "REQUESTED", "APPROVED", "REJECTED", "CANCELLED"}

\* Bookings, corrections, leave and limits have their types, for any people, rosters and months.
THEOREM MonthTyped ==
  Spec => []TypeOK
  <1>1. Init => TypeOK BY LimitsAreLimits, BoundsAreSmall DEF Init, TypeOK
  <1>2. ASSUME TypeOK, [Next]_monthVars PROVE TypeOK'
    <2>1. ASSUME NEW b \in Booking, Book(b) PROVE TypeOK'
      BY <1>2, <2>1, BoundsAreSmall DEF TypeOK, Book, Writes
    <2>2. ASSUME NEW k \in Correction, NEW at \in Instant, AskForCorrection(k, at) PROVE TypeOK'
      <3>1. k.of \in Booking /\ k.as \in Booking BY CorrectionsKeepTheAppointment
      <3> QED BY <1>2, <2>2, <3>1, BoundsAreSmall DEF TypeOK, AskForCorrection, Writes
    <2>3. ASSUME NEW k \in corrections, NEW approve \in BOOLEAN, DecideCorrection(k, approve) PROVE TypeOK'
      BY <1>2, <2>3, BoundsAreSmall DEF TypeOK, DecideCorrection, Writes
    <2>4. ASSUME NEW l \in Absence, AskForAbsence(l) \/ CancelAbsence(l) PROVE TypeOK'
      BY <1>2, <2>4, BoundsAreSmall DEF TypeOK, AskForAbsence, CancelAbsence, Writes
    <2>5. ASSUME NEW l \in Absence, NEW status \in {"APPROVED", "REJECTED"}, DecideAbsence(l, status)
          PROVE  TypeOK'
      BY <1>2, <2>5, BoundsAreSmall DEF TypeOK, DecideAbsence, Writes
    <2>6. ASSUME NEW new \in Limits, SetLimits(new) PROVE TypeOK'
      BY <1>2, <2>6, BoundsAreSmall DEF TypeOK, SetLimits, Writes
    <2>7. ASSUME NEW sheet \in Asked, Ask(sheet) PROVE TypeOK' BY <1>2, <2>7 DEF TypeOK, Ask
    <2>8. CASE UNCHANGED monthVars BY <1>2, <2>8 DEF TypeOK, monthVars
    <2> QED BY <1>2, <2>1, <2>2, <2>3, <2>4, <2>5, <2>6, <2>7, <2>8 DEF Next, Operation
  <1> QED BY <1>1, <1>2, PTL DEF Spec

LEMMA MeetingIsMutual ==
  ASSUME NEW b \in Booking, NEW c \in Booking, Meets(b, c)
  PROVE  Meets(c, b)
  BY BookingsAreProper DEF Meets

LEMMA BookedOneMore ==
  ASSUME NEW B, B \subseteq Booking, NEW b \in Booking, FreeOf(b, B),
         \A c, e \in B : c # e /\ Owner(c.appointment) = Owner(e.appointment) => ~ Meets(c, e)
  PROVE  \A c, e \in B \cup {b} : c # e /\ Owner(c.appointment) = Owner(e.appointment) => ~ Meets(c, e)
  <1>1. \A c \in B : Owner(c.appointment) = Owner(b.appointment) => ~ Meets(c, b) /\ ~ Meets(b, c)
    BY MeetingIsMutual DEF FreeOf
  <1> QED BY <1>1

LEMMA BookingsStayWell ==
  Spec => [](BookedWell /\ AskedWell /\ AbsentWell)
  <1>1. Init => BookedWell /\ AskedWell /\ AbsentWell
    BY FS_EmptySet DEF Init, BookedWell, AskedWell, AbsentWell
  <1>2. ASSUME TypeOK, BookedWell, AskedWell, AbsentWell, [Next]_monthVars
        PROVE  (BookedWell /\ AskedWell /\ AbsentWell)'
    <2>0. /\ booked' = booked => BookedWell'
          /\ corrections' = corrections => AskedWell'
          /\ absence' = absence => AbsentWell'
      <3>1. booked' = booked => BookedWell' BY <1>2 DEF BookedWell
      <3>2. corrections' = corrections => AskedWell' BY <1>2 DEF AskedWell
      <3>3. absence' = absence => AbsentWell' BY <1>2 DEF AbsentWell
      <3> QED BY <3>1, <3>2, <3>3
    <2>1. ASSUME NEW b \in Booking, Book(b) PROVE (BookedWell /\ AskedWell /\ AbsentWell)'
      <3>1. /\ booked' = booked \cup {b} /\ corrections' = corrections /\ absence' = absence
            /\ FreeOf(b, booked) /\ Resolves(Known(b))
        BY <2>1 DEF Book
      <3>2. \A c, e \in booked \cup {b} : c # e /\ Owner(c.appointment) = Owner(e.appointment) => ~ Meets(c, e)
        BY <1>2, <3>1, BookedOneMore DEF BookedWell
      <3>3. IsFiniteSet(booked \cup {b}) BY <1>2, FS_AddElement DEF BookedWell
      <3>4. BookedWell' BY <1>2, <3>1, <3>2, <3>3 DEF BookedWell
      <3> QED BY <2>0, <3>1, <3>4
    <2>2. ASSUME NEW k \in Correction, NEW at \in Instant, AskForCorrection(k, at)
          PROVE  (BookedWell /\ AskedWell /\ AbsentWell)'
      <3>1. PICK new : new = [of |-> k.of, as |-> k.as, at |-> at] OBVIOUS
      <3>2. /\ booked' = booked /\ absence' = absence /\ corrections' = corrections \cup {new}
            /\ Resolves(Known(k.as))
        BY <2>2, <3>1 DEF AskForCorrection
      <3>3. new.of \in Booking /\ new.as \in Booking /\ Resolves(Known(new.as))
        BY <3>1, <3>2, CorrectionsKeepTheAppointment
      <3>4. IsFiniteSet(corrections \cup {new}) BY <1>2, FS_AddElement DEF AskedWell
      <3>5. AskedWell' BY <1>2, <3>2, <3>3, <3>4 DEF AskedWell
      <3> QED BY <2>0, <3>2, <3>5
    <2>3. ASSUME NEW k \in corrections, NEW approve \in BOOLEAN, DecideCorrection(k, approve)
          PROVE  (BookedWell /\ AskedWell /\ AbsentWell)'
      <3>1. /\ corrections' = corrections \ {k} /\ absence' = absence
            /\ ~ approve => booked' = booked
            /\ approve => booked' = (booked \ {k.of}) \cup {k.as} /\ FreeOf(k.as, booked \ {k.of})
        BY <2>3 DEF DecideCorrection
      <3>2. AskedWell' BY <1>2, <3>1, FS_Subset DEF AskedWell
      <3>3. CASE approve
        <4>1. PICK B, b : B = booked \ {k.of} /\ b = k.as OBVIOUS
        <4>2. B \subseteq Booking /\ b \in Booking /\ FreeOf(b, B) /\ booked' = B \cup {b} /\ IsFiniteSet(B)
          BY <1>2, <3>1, <3>3, <4>1, FS_Subset DEF BookedWell, AskedWell
        <4>3. \A c, e \in B : c # e /\ Owner(c.appointment) = Owner(e.appointment) => ~ Meets(c, e)
          BY <1>2, <4>1 DEF BookedWell
        <4>4. \A c, e \in B \cup {b} : c # e /\ Owner(c.appointment) = Owner(e.appointment) => ~ Meets(c, e)
          BY <4>2, <4>3, BookedOneMore
        <4>5. \A c \in B \cup {b} : Resolves(Known(c)) BY <1>2, <4>1 DEF BookedWell, AskedWell
        <4>6. IsFiniteSet(B \cup {b}) BY <4>2, FS_AddElement
        <4>7. BookedWell' BY <4>2, <4>4, <4>5, <4>6 DEF BookedWell
        <4> QED BY <2>0, <3>1, <3>2, <4>7
      <3> QED BY <2>0, <3>1, <3>2, <3>3
    <2>4. ASSUME NEW l \in Absence, AskForAbsence(l) PROVE (BookedWell /\ AskedWell /\ AbsentWell)'
      <3>1. /\ booked' = booked /\ corrections' = corrections
            /\ absence' = [absence EXCEPT ![l] = "REQUESTED"] /\ Resolves(Whole(l))
        BY <2>4 DEF AskForAbsence
      <3>2. AbsentWell' BY <1>2, <3>1 DEF AbsentWell, TypeOK
      <3> QED BY <2>0, <3>1, <3>2
    <2>5. ASSUME NEW l \in Absence, CancelAbsence(l) PROVE (BookedWell /\ AskedWell /\ AbsentWell)'
      <3>1. /\ booked' = booked /\ corrections' = corrections
            /\ absence' = [absence EXCEPT ![l] = "CANCELLED"]
        BY <2>5 DEF CancelAbsence
      <3>2. AbsentWell' BY <1>2, <3>1 DEF AbsentWell, TypeOK
      <3> QED BY <2>0, <3>1, <3>2
    <2>6. ASSUME NEW l \in Absence, NEW status \in {"APPROVED", "REJECTED"}, DecideAbsence(l, status)
          PROVE  (BookedWell /\ AskedWell /\ AbsentWell)'
      <3>1. /\ booked' = booked /\ corrections' = corrections /\ absence[l] = "REQUESTED"
            /\ absence' = [absence EXCEPT ![l] = status]
        BY <2>6 DEF DecideAbsence
      <3>2. AbsentWell' BY <1>2, <3>1 DEF AbsentWell, TypeOK
      <3> QED BY <2>0, <3>1, <3>2
    <2>7. ASSUME NEW new \in Limits, SetLimits(new) PROVE (BookedWell /\ AskedWell /\ AbsentWell)'
      BY <2>0, <2>7 DEF SetLimits
    <2>8. ASSUME NEW sheet \in Asked, Ask(sheet) PROVE (BookedWell /\ AskedWell /\ AbsentWell)'
      BY <2>0, <2>8 DEF Ask
    <2>9. CASE UNCHANGED monthVars BY <2>0, <2>9 DEF monthVars
    <2> QED BY <1>2, <2>1, <2>2, <2>3, <2>4, <2>5, <2>6, <2>7, <2>8, <2>9 DEF Next, Operation
  <1> QED BY <1>1, <1>2, MonthTyped, PTL DEF Spec

-----------------------------------------------------------------------------
(* The bookings of a person, as the time engine is asked about them.        *)

MineOf(m, x) ==
  {b \in RuleBookings(m) : /\ Owner(b.appointment) = x /\ ~ Open(b) /\ b.kind \in WorkKinds \cup {"PAUSE"}}

LEMMA RowsAreSpans ==
  Spans(Rowlike) /\ Booking \subseteq Rowlike
  <1>1. Spans(Rowlike) BY DEF Spans, Rowlike
  <1>2. Booking \subseteq Rowlike BY BookingsAreProper DEF Rowlike
  <1> QED BY <1>1, <1>2

EntriesOf(S, n, e) ==
  /\ n \in Nat /\ e \in [1 .. n -> S] /\ e \in Seq(Rowlike) /\ Len(e) = n
  /\ \A b \in S : \E i \in 1 .. n : e[i] = b
  /\ \A i, j \in 1 .. n : e[i] = e[j] => i = j
  /\ \A i, j \in 1 .. n : i < j => e[i].from < e[j].from /\ e[i].to <= e[j].from

LEMMA EntriesAre ==
  ASSUME BookedWell, NEW m, NEW x
  PROVE  IsFiniteSet(MineOf(m, x)) /\ EntriesOf(MineOf(m, x), Cardinality(MineOf(m, x)), Entries(m, x))
  <1>1. PICK S : S = MineOf(m, x) OBVIOUS
  <1>2. S \subseteq booked /\ S \subseteq Booking /\ IsFiniteSet(S)
        /\ \A b, c \in S : b # c => ~ Meets(b, c)
    BY <1>1, FS_Subset DEF MineOf, RuleBookings, BookedWell
  <1>3. \A b \in S : b.from \in Int /\ b.to \in Int /\ b.from < b.to /\ b \in Rowlike
    BY <1>2, BookingsAreProper DEF Rowlike
  <1>4. \A b, c \in S : b # c => b.to <= c.from \/ c.to <= b.from BY <1>2, <1>3 DEF Meets
  <1>5. PICK rel : rel = {p \in S \X S : p[1].from < p[2].from} OBVIOUS
  <1>6. \A b, c \in S : <<b, c>> \in rel <=> b.from < c.from BY <1>5
  <1>7. Orders(S, rel)
    <2>1. \A u \in S : <<u, u>> \notin rel BY <1>3, <1>6
    <2>2. \A u, v \in S : u # v => <<u, v>> \in rel \/ <<v, u>> \in rel BY <1>3, <1>4, <1>6
    <2>3. \A u, v, w \in S : <<u, v>> \in rel /\ <<v, w>> \in rel => <<u, w>> \in rel BY <1>3, <1>6
    <2> QED BY <2>1, <2>2, <2>3 DEF Orders
  <1>8. PICK e : e = InOrder(S, rel) OBVIOUS
  <1>9. Entries(m, x) = e BY <1>1, <1>5, <1>8 DEF Entries, MineOf
  <1>10. InOrderOf(S, rel, e) BY <1>2, <1>7, <1>8, InOrderIs
  <1>11. PICK n : n = Cardinality(S) OBVIOUS
  <1>12. n \in Nat BY <1>2, <1>11, FS_CardinalityType
  <1>13. /\ e \in [1 .. n -> S] /\ DOMAIN e = 1 .. n
         /\ \A b \in S : \E i \in 1 .. n : e[i] = b
         /\ \A i, j \in 1 .. n : <<e[i], e[j]>> \in rel <=> i < j
         /\ \A i, j \in 1 .. n : e[i] = e[j] => i = j
    BY <1>10, <1>11, Zenon DEF InOrderOf
  <1>14. e \in [1 .. n -> Rowlike] BY <1>3, <1>13
  <1>15. e \in Seq(Rowlike) /\ Len(e) = n BY <1>12, <1>13, <1>14
  <1>16. ASSUME NEW i \in 1 .. n, NEW j \in 1 .. n, i < j
         PROVE  e[i].from < e[j].from /\ e[i].to <= e[j].from
    <2>1. e[i] \in S /\ e[j] \in S /\ <<e[i], e[j]>> \in rel BY <1>13, <1>16
    <2>2. e[i].from < e[j].from BY <1>6, <2>1
    <2>3. e[i] # e[j] BY <1>3, <2>1, <2>2
    <2> QED BY <1>3, <1>4, <2>1, <2>2, <2>3
  <1>17. EntriesOf(S, n, e) BY <1>12, <1>13, <1>15, <1>16 DEF EntriesOf
  <1> QED BY <1>1, <1>2, <1>9, <1>11, <1>17

KeptApart(S, e, kinds, d) ==
  /\ MergedSheet(Rowlike, e, kinds, d)
  /\ \A b \in S : b.kind \in kinds => \E i \in 1 .. Len(d) : d[i] = b
  /\ \A i \in 1 .. Len(d) : d[i] \in S

\* Bookings of one kind or another, out of a person's: they stand apart already.
LEMMA EntriesStayApart ==
  ASSUME NEW S, S \subseteq Booking, NEW n, NEW e, EntriesOf(S, n, e), NEW kinds
  PROVE  KeptApart(S, e, kinds, WorkOf(e, kinds))
  <1>1. /\ n \in Nat /\ e \in [1 .. n -> S] /\ e \in Seq(Rowlike) /\ Len(e) = n
        /\ \A b \in S : \E i \in 1 .. n : e[i] = b
        /\ \A i, j \in 1 .. n : e[i] = e[j] => i = j
        /\ \A i, j \in 1 .. n : i < j => e[i].from < e[j].from /\ e[i].to <= e[j].from
    BY DEF EntriesOf
  <1>2. PICK mine, c : mine = Mine(e, kinds) /\ c = Cardinality(mine) OBVIOUS
  <1>3. c \in Nat BY <1>1, <1>2, RowsAreSpans, SortedIs, Zenon
  <1>4. PICK order : SortedBy(e, kinds, c, order) BY <1>1, <1>2, RowsAreSpans, SortedIs, Zenon
  <1>5. /\ order \in [1 .. c -> mine]
        /\ Sorted(e, kinds) = [i \in 1 .. c |-> e[order[i]]]
        /\ \A k \in mine : \E i \in 1 .. c : order[i] = k
        /\ \A i, j \in 1 .. c : order[i] = order[j] => i = j
        /\ \A i, j \in 1 .. c : i <= j => e[order[i]].from <= e[order[j]].from
    BY <1>2, <1>4 DEF SortedBy
  <1>6. PICK s : s = Sorted(e, kinds) OBVIOUS
  <1>7. \A k \in mine : k \in 1 .. n /\ e[k] \in S BY <1>1, <1>2 DEF Mine
  <1>8. \A i \in 1 .. c : order[i] \in mine /\ s[i] = e[order[i]] /\ s[i] \in S /\ s[i] \in Rowlike
    BY <1>5, <1>6, <1>7, RowsAreSpans
  <1>9. s \in [1 .. c -> Rowlike] BY <1>5, <1>6, <1>8
  <1>10. \A b \in S : b.from \in Int /\ b.to \in Int /\ b.from < b.to BY BookingsAreProper
  <1>11. Apart(c, s)
    <2>1. SUFFICES ASSUME NEW i \in 1 .. c, NEW j \in 1 .. c, i < j PROVE s[i].to <= s[j].from BY DEF Apart
    <2>2. PICK p \in 1 .. n, q \in 1 .. n : p = order[i] /\ q = order[j] BY <1>7, <1>8
    <2>3. p # q /\ e[p].from <= e[q].from /\ s[i] = e[p] /\ s[j] = e[q] /\ e[p] \in S /\ e[q] \in S
      BY <1>1, <1>5, <1>8, <2>1, <2>2
    <2>4. p < q
      <3>1. CASE q < p BY <1>1, <1>10, <2>3, <3>1
      <3> QED BY <2>3, <3>1
    <2> QED BY <1>1, <2>3, <2>4
  <1>12. Merged(s) = s BY <1>3, <1>9, <1>11, RowsAreSpans, MergedApart
  <1>13. WorkOf(e, kinds) = s BY <1>6, <1>12 DEF WorkOf
  <1>14. Len(s) = c BY <1>3, <1>9
  <1>15. ASSUME NEW b \in S, b.kind \in kinds PROVE \E i \in 1 .. c : s[i] = b
    <2>1. PICK k \in 1 .. n : e[k] = b BY <1>1
    <2>2. k \in mine BY <1>1, <1>2, <1>10, <1>15, <2>1 DEF Mine, Valid
    <2> QED BY <1>5, <1>8, <2>1, <2>2
  <1>16. MergedSheet(Rowlike, e, kinds, WorkOf(e, kinds)) BY <1>1, RowsAreSpans, SheetIsMerged
  <1> QED BY <1>8, <1>13, <1>14, <1>15, <1>16 DEF KeptApart

LEMMA SpentIs ==
  ASSUME BookedWell, NEW m, NEW x \in People(m), NEW kinds, kinds \subseteq WorkKinds \cup {"PAUSE"}
  PROVE  Spent(x, kinds, {b \in booked : During(m, b)}) = Instants(Entries(m, x), kinds)
  <1>1. PICK S, n, e : S = MineOf(m, x) /\ n = Cardinality(S) /\ e = Entries(m, x) OBVIOUS
  <1>2. EntriesOf(S, n, e) BY <1>1, EntriesAre
  <1>3. DOMAIN e = 1 .. n /\ e \in [1 .. n -> S] /\ \A b \in S : \E i \in 1 .. n : e[i] = b
    BY <1>2 DEF EntriesOf
  <1>4. \A b : b \in {c \in {z \in booked : During(m, z)} :
                        ~ Open(c) /\ c.kind \in kinds /\ Owner(c.appointment) = x}
                 <=> b \in S /\ b.kind \in kinds
    BY <1>1 DEF MineOf, RuleBookings
  <1>5. \A t : t \in Spent(x, kinds, {b \in booked : During(m, b)})
                 <=> \E b \in S : b.kind \in kinds /\ t \in b.from .. b.to - 1
    BY <1>4 DEF Spent
  <1>6. \A t : t \in Instants(e, kinds) <=> \E k \in 1 .. n : e[k].kind \in kinds /\ t \in e[k].from .. e[k].to - 1
    BY <1>3 DEF Instants
  <1>7. \A t : t \in Spent(x, kinds, {b \in booked : During(m, b)}) <=> t \in Instants(e, kinds)
    BY <1>3, <1>5, <1>6
  <1> QED BY <1>1, <1>7

-----------------------------------------------------------------------------
(* Days and hundredths of an hour.                                          *)

Midnight(d) == d * DayHours * Hour

LEMMA ClockIs ==
  /\ Hour \in Nat \ {0} /\ Hour = HourMinutes * Minute /\ DayHours * Hour \in Nat \ {0}
  /\ Minute \in Nat \ {0} /\ HourMinutes \in Nat \ {0} /\ HourMinutes < 200
  <1>1. \A a, b \in Nat \ {0} : a * b \in Nat \ {0} OBVIOUS
  <1>2. Hour \in Nat \ {0} /\ Hour = HourMinutes * Minute BY <1>1, ClockTicks DEF Hour
  <1> QED BY <1>1, <1>2, ClockTicks

LEMMA DayIs ==
  ASSUME NEW t \in Int, NEW d \in Int
  PROVE  /\ Midnight(d) \in Int /\ Midnight(d + 1) \in Int
         /\ Day(t) = d <=> Midnight(d) <= t /\ t < Midnight(d + 1)
         /\ Day(t) \in Int
  <1>1. PICK h \in Nat \ {0}, m \in Nat \ {0} : h = DayHours /\ m = Hour BY ClockIs, ClockTicks
  <1>2. PICK l \in Nat \ {0} : l = h * m BY <1>1, ClockIs
  <1>3. \A e \in Int : (e * h) * m = l * e /\ (e * h) * m \in Int BY <1>2
  <1>4. Midnight(d) = l * d /\ Midnight(d + 1) = l * (d + 1) /\ Midnight(d) \in Int /\ Midnight(d + 1) \in Int
    BY <1>1, <1>3 DEF Midnight
  <1>5. Day(t) = t \div l BY <1>1, <1>2 DEF Day
  <1>6. (l * d <= t /\ t < l * (d + 1)) <=> t \div l = d BY Modulo
  <1>7. t \div l \in Int BY Modulo
  <1> QED BY <1>4, <1>5, <1>6, <1>7

Rounds(n, d, q) == q \in Int /\ (2 * d) * q <= 200 * n + d /\ 200 * n + d < (2 * d) * (q + 1)

LEMMA Rounded ==
  ASSUME NEW n \in Int, NEW d \in Nat \ {0}
  PROVE  Rounds(n, d, RoundToTwo(n, d))
  <1>1. PICK a \in Int, m \in Nat \ {0} : a = 200 * n + d /\ m = 2 * d OBVIOUS
  <1>2. RoundToTwo(n, d) = a \div m /\ a \div m \in Int BY <1>1, Modulo DEF RoundToTwo
  <1>3. PICK q \in Int : q = a \div m BY <1>2
  <1>4. m * q <= a /\ a < m * (q + 1) BY <1>3, Modulo
  <1> QED BY <1>1, <1>2, <1>3, <1>4 DEF Rounds

\* Whole minutes within the limit of a day, when their hours are.
LEMMA WithinTheLimit ==
  ASSUME NEW n \in Nat, NEW limit \in Nat, RoundToTwo(n, HourMinutes) * HourMinutes <= 100 * limit
  PROVE  n <= limit
  <1>1. PICK h \in Nat \ {0} : h = HourMinutes /\ h < 200 BY ClockIs
  <1>5. Rounds(n, h, RoundToTwo(n, h)) BY Rounded
  <1>2. PICK q \in Int : q = RoundToTwo(n, h) /\ 200 * n + h < (2 * h) * (q + 1) BY <1>5 DEF Rounds
  <1>3. PICK p \in Int : p = q * h /\ (2 * h) * (q + 1) = 2 * p + 2 * h /\ p <= 100 * limit BY <1>1, <1>2
  <1>4. 200 * n < 200 * limit + h BY <1>2, <1>3
  <1> QED BY <1>1, <1>4

LEMMA EnoughHours ==
  ASSUME NEW n \in Nat, NEW hours \in Nat, n >= hours * HourMinutes
  PROVE  RoundToTwo(n, HourMinutes) >= 100 * hours
  <1>1. PICK h \in Nat \ {0} : h = HourMinutes BY ClockIs
  <1>5. Rounds(n, h, RoundToTwo(n, h)) BY Rounded
  <1>2. PICK q \in Int : q = RoundToTwo(n, h) /\ 200 * n + h < (2 * h) * (q + 1) BY <1>5 DEF Rounds
  <1>3. 200 * (hours * h) + h < (2 * h) * (q + 1) BY <1>1, <1>2
  <1>4. ASSUME q < 100 * hours PROVE FALSE
    <2>1. q + 1 <= 100 * hours BY <1>4
    <2>2. PICK a \in Nat, b \in Int : a = 2 * h /\ b = q + 1 OBVIOUS
    <2>3. a * b <= a * (100 * hours) BY <2>1, <2>2
    <2>4. a * (100 * hours) = 200 * (hours * h) BY <2>2
    <2> QED BY <1>3, <2>2, <2>3, <2>4
  <1> QED BY <1>1, <1>2, <1>4

LEMMA LongEnoughRest ==
  ASSUME NEW n \in Int, NEW rest \in Nat, ~ (RoundToTwo(n, Hour) * HourMinutes < 100 * rest)
  PROVE  n > (rest - 1) * Minute
  <1>1. PICK h \in Nat \ {0}, m \in Nat \ {0} : h = HourMinutes /\ m = Minute /\ h < 200 /\ Hour = h * m
    BY ClockIs
  <1>2. PICK u \in Nat \ {0} : u = h * m BY <1>1, ClockIs
  <1>11. Rounds(n, u, RoundToTwo(n, u)) BY Rounded
  <1>3. PICK q \in Int : q = RoundToTwo(n, u) /\ (2 * u) * q <= 200 * n + u BY <1>11 DEF Rounds
  <1>4. PICK p \in Int : p = q * h /\ p >= 100 * rest BY <1>1, <1>2, <1>3
  <1>5. (2 * u) * q = (2 * m) * p BY <1>2, <1>4
  <1>6. (2 * m) * p >= (2 * m) * (100 * rest) BY <1>4
  <1>7. 200 * (m * rest) <= 200 * n + u BY <1>3, <1>5, <1>6
  <1>8. u < 200 * m BY <1>1, <1>2
  <1>9. (rest - 1) * m = m * rest - m OBVIOUS
  <1>10. PICK z \in Int : z = m * rest OBVIOUS
  <1> QED BY <1>1, <1>7, <1>8, <1>9, <1>10

LEMMA OnDayIs ==
  ASSUME NEW X, Spans(X), NEW d \in Seq(X), NEW day \in Int
  PROVE  /\ OnDay(Started(d), day) = Cardinality(Begun(d, Midnight(day), Midnight(day + 1)))
         /\ Begun(d, Midnight(day), Midnight(day + 1)) # {} => \E m \in Started(d) : Day(m[2]) = day
  <1>1. \A m \in Started(d) : m[2] \in Int BY StartedIs
  <1>2. \A m \in Started(d) : Day(m[2]) = day <=> Midnight(day) <= m[2] /\ m[2] < Midnight(day + 1)
    BY <1>1, DayIs
  <1> QED BY <1>2 DEF OnDay, Begun

\* What a clean sheet says of a day.
LEMMA CleanDay ==
  ASSUME NEW X, Spans(X), NEW sheet \in Seq(X), NEW limit, limit.day \in Nat,
         Evaluate(sheet, limit).violations = {}, NEW day \in Int
  PROVE  LET worked == Cardinality(Instants(sheet, WorkKinds) \cap (Midnight(day) .. Midnight(day + 1) - 1))
             paused == Cardinality(Instants(sheet, {"PAUSE"}) \cap (Midnight(day) .. Midnight(day + 1) - 1)) IN
         /\ worked < (limit.day + 1) * Minute
         /\ \A r \in Breaks : worked >= r.hours * Hour + Minute - 1 =>
              paused + (Minute - 1) * Cardinality(Mine(sheet, {"PAUSE"})) >= r.minutes * Minute
  <1>1. PICK d, p : d = WorkOf(sheet, WorkKinds) /\ p = WorkOf(sheet, {"PAUSE"}) OBVIOUS
  <1>2. MergedSheet(X, sheet, WorkKinds, d) /\ MergedSheet(X, sheet, {"PAUSE"}, p) BY <1>1, SheetIsMerged
  <1>3. PICK lo \in Int, hi \in Int : lo = Midnight(day) /\ hi = Midnight(day + 1) BY 0 \in Int, DayIs
  <1>4. d \in Seq(X) /\ Proper(Len(d), d) /\ Apart(Len(d), d) /\ Filled(d) = Instants(sheet, WorkKinds)
    BY <1>2 DEF MergedSheet
  <1>5. /\ p \in Seq(X) /\ Proper(Len(p), p) /\ Apart(Len(p), p) /\ Filled(p) = Instants(sheet, {"PAUSE"})
        /\ Len(p) <= Cardinality(Mine(sheet, {"PAUSE"})) /\ Cardinality(Mine(sheet, {"PAUSE"})) \in Nat
    BY <1>2 DEF MergedSheet
  <1>6. PICK worked, paused, begun, halted, pauses :
          /\ worked = Cardinality(Filled(d) \cap (lo .. hi - 1))
          /\ paused = Cardinality(Filled(p) \cap (lo .. hi - 1))
          /\ begun = Cardinality(Begun(d, lo, hi)) /\ halted = Cardinality(Begun(p, lo, hi))
          /\ pauses = Cardinality(Mine(sheet, {"PAUSE"}))
    OBVIOUS
  <1>7. worked \in Nat /\ begun \in Nat /\ worked <= begun * Minute + (Minute - 1)
    BY <1>4, <1>6, FilledByMinutes
  <1>8. paused \in Nat /\ halted \in Nat BY <1>5, <1>6, FilledByMinutes
  <1>9. halted * Minute <= paused + (Minute - 1) * Len(p) BY <1>5, <1>6, MinutesAreFilled
  <1>10. OnDay(Started(d), day) = begun /\ OnDay(Started(p), day) = halted BY <1>3, <1>4, <1>5, <1>6, OnDayIs
  <1>11. begun > 0 => day \in DaysSeen(sheet)
    <2>1. begun > 0 => Begun(d, lo, hi) # {}
      <3>1. ASSUME Begun(d, lo, hi) = {} PROVE begun = 0 BY <1>6, <3>1, FS_EmptySet
      <3> QED BY <3>1
    <2>2. Begun(d, lo, hi) # {} => \E m \in Started(d) : Day(m[2]) = day BY <1>3, <1>4, OnDayIs
    <2> QED BY <1>1, <2>1, <2>2 DEF DaysSeen
  <1>12. HoursOn(sheet, day) = RoundToTwo(begun, HourMinutes) BY <1>1, <1>10 DEF HoursOn
  <1>13. \A v : ~ Found(sheet, limit, v) BY ViolationsAre
  <1>14. begun > 0 => ~ TooLong(sheet, limit, day) /\ ~ TooFewPauses(sheet, day)
    <2>1. day \in DaysSeen(sheet) /\ TooLong(sheet, limit, day) =>
            Found(sheet, limit, <<"MAX_DAILY_HOURS_EXCEEDED", day>>)
      BY DEF Found
    <2>2. day \in DaysSeen(sheet) /\ TooFewPauses(sheet, day) => Found(sheet, limit, <<"BREAK_DEFICIT", day>>)
      BY DEF Found
    <2> QED BY <1>11, <1>13, <2>1, <2>2
  <1>15. begun <= limit.day
    <2>1. CASE begun = 0 BY <2>1
    <2>2. CASE begun > 0
      <3>4. Rounds(begun, HourMinutes, RoundToTwo(begun, HourMinutes))
        <4>1. begun \in Int /\ HourMinutes \in Nat \ {0} BY <1>7, ClockIs
        <4> QED BY <4>1, Rounded
      <3>1. PICK q \in Int : q = RoundToTwo(begun, HourMinutes) BY <3>4 DEF Rounds
      <3>2. ~ (q * HourMinutes > 100 * limit.day) /\ q * HourMinutes \in Int
        BY <1>12, <1>14, <2>2, <3>1, ClockIs DEF TooLong
      <3>3. RoundToTwo(begun, HourMinutes) * HourMinutes <= 100 * limit.day BY <3>1, <3>2
      <3> QED BY <1>7, <3>3, WithinTheLimit
    <2> QED BY <1>7, <2>1, <2>2
  <1>16. worked < (limit.day + 1) * Minute
    <2>1. PICK l \in Nat, m \in Nat \ {0} : l = limit.day /\ m = Minute BY ClockIs
    <2>2. m * begun <= m * l BY <1>7, <1>15, <2>1, Scaled
    <2>3. (l + 1) * m = m * l + m /\ begun * m = m * begun /\ m * begun \in Int /\ m * l \in Int BY <1>7, <2>1
    <2> QED BY <1>7, <2>1, <2>2, <2>3
  <1>17. ASSUME NEW r \in Breaks, worked >= r.hours * Hour + Minute - 1
         PROVE  paused + (Minute - 1) * pauses >= r.minutes * Minute
    <2>1. PICK h \in Nat \ {0}, b \in Nat : h = r.hours /\ b = r.minutes BY RulesAreRules
    <2>2. PICK hm \in Nat \ {0}, m \in Nat \ {0} : hm = HourMinutes /\ m = Minute /\ Hour = hm * m BY ClockIs
    <2>3. begun >= h * hm
      <3>1. PICK a \in Nat : a = h * hm /\ h * (hm * m) = a * m BY <2>1, <2>2
      <3>4. worked >= a * m + m - 1 BY <1>17, <2>1, <2>2, <3>1
      <3>2. a * m <= begun * m BY <1>7, <2>2, <3>1, <3>4
      <3>3. ASSUME begun < a PROVE FALSE
        <4>1. begun + 1 <= a BY <1>7, <3>3
        <4>2. m * (begun + 1) <= m * a BY <1>7, <4>1, Scaled
        <4> QED BY <1>7, <3>2, <4>2
      <3> QED BY <1>7, <3>1, <3>3
    <2>4. begun > 0
      <3>1. h * hm > 0 /\ h * hm \in Int OBVIOUS
      <3> QED BY <1>7, <2>3, <3>1
    <2>5. RoundToTwo(begun, HourMinutes) >= 100 * h BY <1>7, <2>1, <2>2, <2>3, EnoughHours
    <2>6. RequiredBreak(HoursOn(sheet, day)) >= b /\ RequiredBreak(HoursOn(sheet, day)) \in Int
      <3>1. PICK due : due = {0} \cup {z.minutes : z \in {y \in Breaks : HoursOn(sheet, day) >= 100 * y.hours}}
        OBVIOUS
      <3>2. r.minutes \in due /\ due \subseteq Int BY <1>12, <2>1, <2>5, <3>1, RulesAreRules
      <3>3. IsFiniteSet(due)
        <4>1. PICK some, f : some = {y \in Breaks : HoursOn(sheet, day) >= 100 * y.hours}
                             /\ f = [y \in Breaks |-> y.minutes]
          OBVIOUS
        <4>2. IsFiniteSet(some) BY <4>1, RulesAreRules, FS_Subset
        <4>3. IsFiniteSet({f[y] : y \in some}) BY <4>2, Image
        <4>4. due = {0} \cup {f[y] : y \in some} BY <3>1, <4>1
        <4> QED BY <4>3, <4>4, FS_Singleton, CardinalityOfUnion
      <3>4. Max(due) \in due /\ \A y \in due : Max(due) >= y BY <3>2, <3>3, MaxIs
      <3>5. RequiredBreak(HoursOn(sheet, day)) = Max(due) BY <3>1 DEF RequiredBreak
      <3> QED BY <2>1, <3>2, <3>4, <3>5
    <2>7. halted >= b BY <1>1, <1>8, <1>10, <1>14, <2>4, <2>6 DEF TooFewPauses
    <2>8. b * m <= paused + (m - 1) * pauses
      <3>1. m * b <= m * halted BY <1>8, <2>7, Scaled
      <3>2. PICK l \in Nat : l = Len(p) /\ l <= pauses /\ pauses \in Nat BY <1>5, <1>6
      <3>3. (m - 1) * l <= (m - 1) * pauses BY <3>2, Scaled
      <3>4. (m - 1) * l \in Int /\ (m - 1) * pauses \in Int /\ m * b = b * m /\ m * halted = halted * m
            /\ b * m \in Int /\ halted * m \in Int
        BY <1>8, <3>2
      <3> QED BY <1>8, <1>9, <2>2, <3>1, <3>2, <3>3, <3>4
    <2> QED BY <2>1, <2>2, <2>8
  <1> QED BY <1>3, <1>4, <1>5, <1>6, <1>16, <1>17

-----------------------------------------------------------------------------
(* Periods of work, by the days they begin on, and the rest between them.   *)

Prolong(done, i) ==
  IF done = <<>> \/ Day(Last(done).from) # Day(i.from) THEN Append(done, i)
  ELSE [done EXCEPT ![Len(done)].to = Max({@, i.to})]

LEMMA PeriodIs ==
  ASSUME NEW X, Spans(X), NEW done \in Seq(X), NEW i \in X
  PROVE  /\ Prolong(done, i) \in Seq(X)
         /\ done = <<>> \/ Day(Last(done).from) # Day(i.from) => Appends(done, i, Prolong(done, i))
         /\ ~ (done = <<>> \/ Day(Last(done).from) # Day(i.from)) => Extends(done, i, Prolong(done, i))
  <1>1. CASE done = <<>> \/ Day(Last(done).from) # Day(i.from)
    <2>1. Prolong(done, i) = Append(done, i) BY <1>1 DEF Prolong
    <2> QED BY <1>1, <2>1 DEF Appends
  <1>2. CASE ~ (done = <<>> \/ Day(Last(done).from) # Day(i.from))
    <2>1. Prolong(done, i) = [done EXCEPT ![Len(done)].to = Max({@, i.to})] BY <1>2 DEF Prolong
    <2>2. Len(done) \in Nat /\ Len(done) # 0 /\ Len(done) \in DOMAIN done /\ done[Len(done)] \in X BY <1>2
    <2>3. done[Len(done)].to \in Int /\ i.to \in Int BY <2>2 DEF Spans
    <2>4. PICK t \in Int : t = Max({done[Len(done)].to, i.to}) BY <2>3, MaxOfTwo
    <2>5. PICK x : x = [done[Len(done)] EXCEPT !.to = t] OBVIOUS
    <2>6. x \in X /\ x.from = done[Len(done)].from /\ x.to = t BY <2>2, <2>4, <2>5 DEF Spans
    <2>7. Prolong(done, i) = [done EXCEPT ![Len(done)] = x] BY <2>1, <2>4, <2>5
    <2>8. /\ Prolong(done, i) \in Seq(X) /\ Len(Prolong(done, i)) = Len(done)
          /\ Prolong(done, i)[Len(done)] = x
          /\ \A k \in 1 .. Len(done) - 1 : Prolong(done, i)[k] = done[k]
      BY <2>2, <2>6, <2>7
    <2> QED BY <1>2, <2>2, <2>4, <2>6, <2>8 DEF Extends
  <1> QED BY <1>1, <1>2

DailyBy(X, n, s, f) ==
  /\ f \in [0 .. n -> Seq(X)] /\ f[0] = <<>> /\ Periods(s) = f[n]
  /\ \A k \in 1 .. n : f[k] = Prolong(f[k - 1], s[k])

LEMMA PeriodSteps ==
  ASSUME NEW X, Spans(X), NEW n \in Nat, NEW s \in [1 .. n -> X]
  PROVE  \E f : DailyBy(X, n, s, f)
  <1>1. PICK G : G = [p \in Seq(X) \X X |-> Prolong(p[1], p[2])] OBVIOUS
  <1>2. \A done \in Seq(X), i \in X : Prolong(done, i) \in Seq(X) /\ G[<<done, i>>] = Prolong(done, i)
    BY <1>1, PeriodIs
  <1>3. G \in [Seq(X) \X X -> Seq(X)] /\ <<>> \in Seq(X)
    <2>1. \A p \in Seq(X) \X X : Prolong(p[1], p[2]) \in Seq(X) BY <1>2
    <2> QED BY <1>1, <2>1
  <1>4. PICK g \in [SUBSET (1 .. n) -> Seq(X)] : g = FoldRule(1 .. n, G, <<>>, s, g)
    <2>1. PICK A, a : A = Seq(X) /\ a = <<>> OBVIOUS
    <2>2. G \in [A \X X -> A] /\ a \in A BY <1>3, <2>1
    <2>3. FoldFound(n, G, A, a, s) BY <2>2, FoldExists
    <2> QED BY <2>1, <2>3 DEF FoldFound
  <1>5. ASSUME NEW t \in SUBSET (1 .. n)
        PROVE  g[t] = IF t = {} THEN <<>> ELSE Prolong(g[t \ {Max(t)}], s[Max(t)])
    <2>1. g[t] = IF t = {} THEN <<>> ELSE G[<<g[t \ {Max(t)}], s[Max(t)]>>] BY <1>4, Zenon DEF FoldRule
    <2>2. CASE t # {}
      <3>1. Max(t) \in 1 .. n /\ t \ {Max(t)} \in SUBSET (1 .. n) BY <2>2, Positions
      <3>2. s[Max(t)] \in X /\ g[t \ {Max(t)}] \in Seq(X) BY <3>1
      <3> QED BY <1>2, <2>1, <2>2, <3>2
    <2> QED BY <2>1, <2>2
  <1>6. g = [t \in SUBSET (1 .. n) |-> IF t = {} THEN <<>>
                                       ELSE LET x == Max(t) IN Prolong(g[t \ {x}], s[x])]
    BY <1>5
  <1>7. DOMAIN s = 1 .. n OBVIOUS
  <1>8. PICK h : h = CHOOSE e : e = [t \in SUBSET (1 .. n) |-> IF t = {} THEN <<>>
                                       ELSE LET x == Max(t) IN Prolong(e[t \ {x}], s[x])]
    OBVIOUS
  <1>9. h = [t \in SUBSET (1 .. n) |-> IF t = {} THEN <<>>
                                       ELSE LET x == Max(t) IN Prolong(h[t \ {x}], s[x])]
    BY <1>6, <1>8, Zenon
  <1>10. Periods(s) = h[1 .. n] BY <1>7, <1>8 DEF Periods, FoldLeft, MapThenFoldSet, Prolong
  <1>11. h[1 .. 0] = <<>> /\ \A k \in 1 .. n : h[1 .. k] = Prolong(h[1 .. k - 1], s[k])
    <2>1. \A t \in SUBSET (1 .. n) : h[t] = IF t = {} THEN <<>> ELSE Prolong(h[t \ {Max(t)}], s[Max(t)])
      BY <1>9, Zenon
    <2>2. h[1 .. 0] = <<>> BY <2>1, Positions
    <2>3. ASSUME NEW k \in 1 .. n PROVE h[1 .. k] = Prolong(h[1 .. k - 1], s[k])
      <3>1. Max(1 .. k) = k /\ (1 .. k) \ {k} = 1 .. k - 1 /\ 1 .. k \in SUBSET (1 .. n) /\ 1 .. k # {}
        BY Positions
      <3>2. h[1 .. k] = Prolong(h[(1 .. k) \ {Max(1 .. k)}], s[Max(1 .. k)]) BY <2>1, <3>1, Zenon
      <3> QED BY <3>1, <3>2, Zenon
    <2> QED BY <2>2, <2>3
  <1>12. PICK T : T = {k \in 0 .. n : h[1 .. k] \in Seq(X)} OBVIOUS
  <1>13. 0 .. n \subseteq T
    <2>1. 0 \in T
      <3>1. 0 \in 0 .. n /\ h[1 .. 0] \in Seq(X) BY <1>3, <1>11
      <3> QED BY <1>12, <3>1
    <2>2. ASSUME NEW k \in 0 .. n - 1, k \in T PROVE k + 1 \in T
      <3>1. k + 1 \in 1 .. n /\ (k + 1) - 1 = k /\ k + 1 \in 0 .. n OBVIOUS
      <3>2. h[1 .. k + 1] = Prolong(h[1 .. k], s[k + 1]) /\ h[1 .. k] \in Seq(X) /\ s[k + 1] \in X
        BY <1>11, <1>12, <2>2, <3>1
      <3> QED BY <1>2, <1>12, <3>1, <3>2
    <2> QED BY <2>1, <2>2, CountingUp
  <1>14. PICK f : f = [k \in 0 .. n |-> h[1 .. k]] OBVIOUS
  <1>15. f \in [0 .. n -> Seq(X)] BY <1>12, <1>13, <1>14
  <1>16. f[0] = <<>> /\ Periods(s) = f[n] BY <1>10, <1>11, <1>14
  <1>17. ASSUME NEW k \in 1 .. n PROVE f[k] = Prolong(f[k - 1], s[k])
    <2>1. k \in 0 .. n /\ k - 1 \in 0 .. n OBVIOUS
    <2> QED BY <1>11, <1>14, <2>1
  <1> QED BY <1>15, <1>16, <1>17 DEF DailyBy

Daily(k, d, p) ==
  /\ k > 0 => Len(p) > 0 /\ Day(p[Len(p)].from) = Day(d[k].from)
  /\ \A q \in 1 .. Len(p) : \E j \in 1 .. k : p[q].from = d[j].from
  /\ \A q, r \in 1 .. Len(p) : q < r => p[q].from <= p[r].from
  /\ \A i \in 1 .. k : \E q \in 1 .. Len(p) : /\ p[q].from <= d[i].from /\ d[i].to <= p[q].to
                                              /\ Day(p[q].from) = Day(d[i].from)

LEMMA DailyGrows ==
  ASSUME NEW X, Spans(X), NEW n \in Nat, NEW d \in [1 .. n -> X], Ascending(n, d),
         NEW k \in 1 .. n, NEW p \in Seq(X), Daily(k - 1, d, p)
  PROVE  Daily(k, d, Prolong(p, d[k]))
  <1>1. PICK x \in X : x = d[k] OBVIOUS
  <1>2. PICK e \in Seq(X) : e = Prolong(p, x) BY PeriodIs
  <1>3. Len(p) \in Nat /\ Len(e) \in Nat /\ k - 1 \in Nat /\ k \in Nat OBVIOUS
  <1>4. x.from \in Int /\ x.to \in Int BY <1>1 DEF Spans
  <1>5. /\ \A q \in 1 .. Len(p) : p[q].from \in Int /\ p[q].to \in Int
        /\ \A i \in 1 .. n : d[i].from \in Int /\ d[i].to \in Int
    BY DEF Spans
  <1>6. \A j \in 1 .. k - 1 : j \in 1 .. k /\ j \in 1 .. n /\ d[j].from <= x.from BY <1>1 DEF Ascending
  <1>7. \A j \in 1 .. k : j = k \/ j \in 1 .. k - 1 OBVIOUS
  <1>8. /\ \A q \in 1 .. Len(p) : \E j \in 1 .. k - 1 : p[q].from = d[j].from
        /\ \A q, r \in 1 .. Len(p) : q < r => p[q].from <= p[r].from
        /\ \A i \in 1 .. k - 1 : \E q \in 1 .. Len(p) : /\ p[q].from <= d[i].from /\ d[i].to <= p[q].to
                                                        /\ Day(p[q].from) = Day(d[i].from)
    BY DEF Daily
  <1>9. \A q \in 1 .. Len(p) : p[q].from <= x.from BY <1>6, <1>8
  <1>10. CASE p = <<>> \/ Day(Last(p).from) # Day(x.from)
    <2>1. /\ Len(e) = Len(p) + 1 /\ e[Len(p) + 1] = x
          /\ \A q \in 1 .. Len(p) : e[q] = p[q]
      <3>1. Appends(p, x, e) BY <1>2, <1>10, PeriodIs
      <3> QED BY <3>1 DEF Appends
    <2>2. /\ Len(e) \in 1 .. Len(e) /\ e[Len(e)] = x
          /\ \A q \in 1 .. Len(e) : q = Len(e) \/ q \in 1 .. Len(p)
          /\ \A q \in 1 .. Len(p) : q \in 1 .. Len(e) /\ q < Len(e)
      BY <1>3, <2>1
    <2>3. Len(e) > 0 /\ Day(e[Len(e)].from) = Day(d[k].from) BY <1>1, <1>3, <2>2
    <2>4. ASSUME NEW q \in 1 .. Len(e) PROVE \E j \in 1 .. k : e[q].from = d[j].from
      <3>1. k \in 1 .. k BY <1>3
      <3>2. CASE q = Len(e) BY <1>1, <2>2, <3>1, <3>2
      <3>3. CASE q \in 1 .. Len(p) BY <1>6, <1>8, <2>1, <3>3
      <3> QED BY <2>2, <3>2, <3>3
    <2>5. ASSUME NEW q \in 1 .. Len(e), NEW r \in 1 .. Len(e), q < r PROVE e[q].from <= e[r].from
      <3>1. q \in 1 .. Len(p) BY <1>3, <2>2, <2>5
      <3> QED BY <1>8, <1>9, <2>1, <2>2, <2>5, <3>1
    <2>6. ASSUME NEW i \in 1 .. k
          PROVE  \E q \in 1 .. Len(e) : /\ e[q].from <= d[i].from /\ d[i].to <= e[q].to
                                         /\ Day(e[q].from) = Day(d[i].from)
      <3>1. CASE i = k BY <1>1, <1>4, <2>2, <3>1
      <3>2. CASE i \in 1 .. k - 1 BY <1>8, <2>1, <2>2, <3>2
      <3> QED BY <1>7, <3>1, <3>2
    <2> QED BY <1>1, <1>2, <2>3, <2>4, <2>5, <2>6 DEF Daily
  <1>11. CASE ~ (p = <<>> \/ Day(Last(p).from) # Day(x.from))
    <2>1. Extends(p, x, e) /\ Last(p) = p[Len(p)] /\ Day(Last(p).from) = Day(x.from)
      <3>1. Extends(p, x, e) BY <1>2, <1>11, PeriodIs
      <3> QED BY <1>11, <3>1 DEF Last
    <2>2. /\ Len(p) > 0 /\ Len(e) = Len(p) /\ e[Len(p)].from = p[Len(p)].from
          /\ e[Len(p)].to = Max({p[Len(p)].to, x.to})
          /\ \A q \in 1 .. Len(p) - 1 : e[q] = p[q]
      BY <2>1 DEF Extends
    <2>3. Len(p) \in 1 .. Len(p) /\ \A q \in 1 .. Len(p) : q = Len(p) \/ q \in 1 .. Len(p) - 1 BY <1>3, <2>2
    <2>4. e[Len(p)].to \in Int /\ e[Len(p)].to >= p[Len(p)].to /\ e[Len(p)].to >= x.to
      <3>1. PICK a \in Int, b \in Int : a = p[Len(p)].to /\ b = x.to BY <1>4, <1>5, <2>3
      <3>2. Max({a, b}) \in Int /\ Max({a, b}) >= a /\ Max({a, b}) >= b BY MaxOfTwo
      <3> QED BY <2>2, <3>1, <3>2
    <2>5. \A q \in 1 .. Len(p) : e[q].from = p[q].from /\ e[q].to \in Int /\ e[q].to >= p[q].to
      BY <1>5, <2>2, <2>3, <2>4
    <2>6. Len(e) > 0 /\ Day(e[Len(e)].from) = Day(d[k].from) BY <1>1, <2>1, <2>2
    <2>7. \A q \in 1 .. Len(e) : \E j \in 1 .. k : e[q].from = d[j].from BY <1>6, <1>8, <2>2, <2>5
    <2>8. \A q, r \in 1 .. Len(e) : q < r => e[q].from <= e[r].from BY <1>8, <2>2, <2>5
    <2>9. ASSUME NEW i \in 1 .. k
          PROVE  \E q \in 1 .. Len(e) : /\ e[q].from <= d[i].from /\ d[i].to <= e[q].to
                                         /\ Day(e[q].from) = Day(d[i].from)
      <3>1. CASE i = k BY <1>1, <1>9, <2>1, <2>2, <2>3, <2>4, <3>1
      <3>2. CASE i \in 1 .. k - 1
        <4>1. PICK q \in 1 .. Len(p) : /\ p[q].from <= d[i].from /\ d[i].to <= p[q].to
                                       /\ Day(p[q].from) = Day(d[i].from)
          BY <1>8, <3>2
        <4>2. d[i].to \in Int /\ p[q].to \in Int BY <1>5, <1>6, <3>2
        <4>3. d[i].to <= e[q].to BY <2>5, <4>1, <4>2
        <4> QED BY <2>2, <2>5, <4>1, <4>3
      <3> QED BY <1>7, <3>1, <3>2
    <2> QED BY <1>1, <1>2, <2>6, <2>7, <2>8, <2>9 DEF Daily
  <1> QED BY <1>10, <1>11

LEMMA PeriodsAre ==
  ASSUME NEW X, Spans(X), NEW n \in Nat, NEW d \in [1 .. n -> X], Ascending(n, d)
  PROVE  Periods(d) \in Seq(X) /\ Daily(n, d, Periods(d))
  <1>7. PICK f : DailyBy(X, n, d, f) BY PeriodSteps
  <1>1. /\ f \in [0 .. n -> Seq(X)] /\ f[0] = <<>> /\ Periods(d) = f[n]
        /\ \A k \in 1 .. n : f[k] = Prolong(f[k - 1], d[k])
    BY <1>7 DEF DailyBy
  <1>2. PICK T : T = {k \in 0 .. n : Daily(k, d, f[k])} OBVIOUS
  <1>3. 0 \in T
    <2>1. Len(<<>>) = 0 /\ 1 .. 0 = {} OBVIOUS
    <2>2. Daily(0, d, <<>>) BY <2>1 DEF Daily
    <2> QED BY <1>1, <1>2, <2>2
  <1>4. ASSUME NEW k \in 0 .. n - 1, k \in T PROVE k + 1 \in T
    <2>1. k + 1 \in 1 .. n /\ (k + 1) - 1 = k /\ k + 1 \in 0 .. n OBVIOUS
    <2>2. f[k] \in Seq(X) /\ Daily((k + 1) - 1, d, f[k]) /\ f[k + 1] = Prolong(f[k], d[k + 1])
      BY <1>1, <1>2, <1>4, <2>1
    <2>3. Daily(k + 1, d, f[k + 1]) BY <2>1, <2>2, DailyGrows
    <2> QED BY <1>2, <2>1, <2>3
  <1>5. 0 .. n \subseteq T BY <1>3, <1>4, CountingUp
  <1>6. n \in 0 .. n OBVIOUS
  <1> QED BY <1>1, <1>2, <1>5, <1>6

LEMMA LaterDays ==
  ASSUME NEW t \in Int, NEW u \in Int, t <= u
  PROVE  Day(t) <= Day(u) /\ Day(t) \in Int /\ Day(u) \in Int
  <1>1. PICK l \in Nat \ {0} : l = DayHours * Hour BY ClockIs
  <1>2. PICK a \in Int, b \in Int : a = t \div l /\ b = u \div l BY Modulo
  <1>3. l * a <= t /\ u < l * (b + 1) BY <1>2, Modulo
  <1>4. ASSUME a > b PROVE FALSE
    <2>1. PICK c \in Nat : c = a - (b + 1) BY <1>4
    <2>2. l * a = l * (b + 1) + l * c /\ l * c >= 0 /\ l * c \in Int BY <2>1
    <2> QED BY <1>3, <2>2
  <1> QED BY <1>1, <1>2, <1>4 DEF Day

\* What a sheet without short rests says of work that begins on two days.
LEMMA CleanRest ==
  ASSUME NEW X, Spans(X), NEW d \in Seq(X), Proper(Len(d), d), Apart(Len(d), d),
         NEW limit, limit.rest \in Nat, ShortRests(d, limit) = {},
         NEW i \in 1 .. Len(d), NEW j \in 1 .. Len(d), Day(d[i].from) < Day(d[j].from)
  PROVE  d[j].from - d[i].to > (limit.rest - 1) * Minute
  <1>1. PICK n \in Nat : n = Len(d) /\ d \in [1 .. n -> X] OBVIOUS
  <1>2. \A k \in 1 .. n : d[k].from \in Int /\ d[k].to \in Int /\ d[k].from < d[k].to
    BY <1>1 DEF Spans, Proper
  <1>3. Ascending(n, d)
    <2>1. SUFFICES ASSUME NEW k \in 1 .. n, NEW l \in 1 .. n, k <= l PROVE d[k].from <= d[l].from
      BY DEF Ascending
    <2>2. k = l \/ k < l BY <2>1
    <2> QED BY <1>1, <1>2, <2>2 DEF Apart
  <1>4. PICK p : p = Periods(d) OBVIOUS
  <1>5. p \in Seq(X) /\ Daily(n, d, p) BY <1>1, <1>3, <1>4, PeriodsAre
  <1>6. /\ \A q, r \in 1 .. Len(p) : q < r => p[q].from <= p[r].from
        /\ \A k \in 1 .. n : \E q \in 1 .. Len(p) : /\ p[q].from <= d[k].from /\ d[k].to <= p[q].to
                                                    /\ Day(p[q].from) = Day(d[k].from)
    BY <1>5 DEF Daily
  <1>7. PICK q \in 1 .. Len(p) : d[i].to <= p[q].to /\ Day(p[q].from) = Day(d[i].from) BY <1>1, <1>6
  <1>8. PICK r \in 1 .. Len(p) : p[r].from <= d[j].from /\ Day(p[r].from) = Day(d[j].from) BY <1>1, <1>6
  <1>9. \A k \in 1 .. Len(p) : p[k].from \in Int /\ p[k].to \in Int BY <1>5 DEF Spans
  <1>10. q < r
    <2>1. ASSUME r <= q PROVE FALSE
      <3>1. r = q \/ r < q BY <2>1
      <3>2. p[r].from <= p[q].from BY <1>6, <1>9, <3>1
      <3>3. Day(p[r].from) <= Day(p[q].from) /\ Day(p[r].from) \in Int /\ Day(p[q].from) \in Int
        BY <1>9, <3>2, LaterDays
      <3> QED BY <1>7, <1>8, <3>3
    <2> QED BY <2>1
  <1>11. q + 1 \in 1 .. Len(p) /\ q \in 1 .. Len(p) - 1 /\ (q + 1 = r \/ q + 1 < r) /\ Len(p) \in Nat
    BY <1>5, <1>10
  <1>12. p[q + 1].from <= p[r].from BY <1>6, <1>9, <1>11
  <1>13. PICK z \in Int : z = p[q + 1].from - p[q].to BY <1>9, <1>11
  <1>14. ~ (RoundToTwo(z, Hour) * HourMinutes < 100 * limit.rest)
    <2>1. ShortRests(d, limit) = {k \in 1 .. Len(p) - 1 :
             RoundToTwo(p[k + 1].from - p[k].to, Hour) * HourMinutes < 100 * limit.rest}
      BY <1>4 DEF ShortRests
    <2> QED BY <1>11, <1>13, <2>1
  <1>15. z > (limit.rest - 1) * Minute BY <1>14, LongEnoughRest
  <1>16. (limit.rest - 1) * Minute \in Int BY ClockIs
  <1>17. d[j].from - d[i].to >= z
    <2>1. p[q + 1].from <= d[j].from /\ d[i].to <= p[q].to BY <1>7, <1>8, <1>12, <1>1, <1>2, <1>9, <1>11
    <2>2. p[q + 1].from \in Int /\ p[q].to \in Int /\ d[j].from \in Int /\ d[i].to \in Int
      BY <1>1, <1>2, <1>9, <1>11
    <2>3. PICK a \in Int, b \in Int, c \in Int, e \in Int :
             a = p[q + 1].from /\ b = p[q].to /\ c = d[j].from /\ e = d[i].to
      BY <2>2
    <2>4. z = a - b /\ a <= c /\ e <= b BY <1>13, <2>1, <2>3
    <2>5. a - b <= c - b /\ c - b <= c - e BY <2>4
    <2>6. a - b <= c - e BY <2>5
    <2>7. z <= d[j].from - d[i].to BY <2>3, <2>4, <2>6, Zenon
    <2> QED BY <2>7, <1>13, <2>2
  <1> QED BY <1>1, <1>2, <1>15, <1>16, <1>17

-----------------------------------------------------------------------------
(* A month without errors.                                                  *)

LEMMA ViolationsAreFinite ==
  ASSUME NEW X, Spans(X), NEW sheet \in Seq(X), NEW limit
  PROVE  /\ IsFiniteSet(Evaluate(sheet, limit).violations)
         /\ Cardinality(Evaluate(sheet, limit).violations) \in Nat
         /\ Cardinality(Evaluate(sheet, limit).violations) = 0 => Evaluate(sheet, limit).violations = {}
  <1>1. PICK V : V = Evaluate(sheet, limit).violations OBVIOUS
  <1>2. PICK s, d, p : s = Sorted(sheet, WorkKinds) /\ d = WorkOf(sheet, WorkKinds) /\ p = WorkOf(sheet, {"PAUSE"})
    OBVIOUS
  <1>3. d \in Seq(X) /\ p \in Seq(X)
    <2>1. MergedSheet(X, sheet, WorkKinds, d) /\ MergedSheet(X, sheet, {"PAUSE"}, p) BY <1>2, SheetIsMerged
    <2> QED BY <2>1 DEF MergedSheet
  <1>4. IsFiniteSet(DOMAIN sheet)
    <2>1. DOMAIN sheet \subseteq 1 .. Len(sheet) /\ 1 \in Int /\ Len(sheet) \in Int OBVIOUS
    <2> QED BY <2>1, SubsetOfInterval, Zenon
  <1>5. IsFiniteSet(Overlaps(s))
    <2>1. PICK c : c = Cardinality(Mine(sheet, WorkKinds)) OBVIOUS
    <2>2. c \in Nat BY <2>1, SortedIs, Zenon
    <2>3. PICK order : SortedBy(sheet, WorkKinds, c, order) BY <2>1, SortedIs, Zenon
    <2>4. Len(s) = c BY <1>2, <2>2, <2>3 DEF SortedBy
    <2>5. Overlaps(s) \subseteq 1 .. c - 1 /\ 1 \in Int /\ c - 1 \in Int BY <2>2, <2>4 DEF Overlaps
    <2> QED BY <2>5, SubsetOfInterval, Zenon
  <1>6. IsFiniteSet(ShortRests(d, limit))
    <2>1. MergedSheet(X, sheet, WorkKinds, d) BY <1>2, SheetIsMerged
    <2>2. PICK n \in Nat : n = Len(d) /\ d \in [1 .. n -> X] BY <1>3
    <2>3. Ascending(n, d)
      <3>1. \A k \in 1 .. n : d[k].from \in Int /\ d[k].to \in Int /\ d[k].from < d[k].to
        BY <2>1, <2>2 DEF MergedSheet, Proper, Spans
      <3>2. SUFFICES ASSUME NEW k \in 1 .. n, NEW l \in 1 .. n, k <= l PROVE d[k].from <= d[l].from
        BY DEF Ascending
      <3>3. k = l \/ k < l BY <3>2
      <3>4. k < l => d[k].to <= d[l].from BY <2>1, <2>2 DEF MergedSheet, Apart
      <3> QED BY <3>1, <3>3, <3>4
    <2>4. PICK q : q = Periods(d) OBVIOUS
    <2>5. q \in Seq(X) BY <2>2, <2>3, <2>4, PeriodsAre
    <2>6. ShortRests(d, limit) \subseteq 1 .. Len(q) - 1 /\ 1 \in Int /\ Len(q) - 1 \in Int
      BY <2>4, <2>5 DEF ShortRests
    <2> QED BY <2>6, SubsetOfInterval, Zenon
  <1>7. IsFiniteSet(DaysSeen(sheet))
    <2>1. PICK M : M = Started(d) \cup Started(p) OBVIOUS
    <2>2. IsFiniteSet(M) BY <1>3, <2>1, SheetsAreFinite, CardinalityOfUnion
    <2>3. PICK f : f = [m \in M |-> Day(m[2])] OBVIOUS
    <2>4. IsFiniteSet({f[m] : m \in M}) BY <2>2, Image
    <2>5. DaysSeen(sheet) = {f[m] : m \in M} BY <1>2, <2>1, <2>3 DEF DaysSeen
    <2> QED BY <2>4, <2>5
  <1>8. PICK A : A = DOMAIN sheet \cup Overlaps(s) OBVIOUS
  <1>9. PICK B : B = ShortRests(d, limit) \cup DaysSeen(sheet) OBVIOUS
  <1>10. IsFiniteSet(A) /\ IsFiniteSet(B) BY <1>4, <1>5, <1>6, <1>7, <1>8, <1>9, CardinalityOfUnion
  <1>11. PICK C, D : C = A \cup B /\ D = C \cup {0} OBVIOUS
  <1>12. IsFiniteSet(D) BY <1>10, <1>11, FS_Singleton, CardinalityOfUnion
  <1>13. PICK at : at = [v \in V |-> v[1]] OBVIOUS
  <1>14. PICK codes : codes = {"INVALID_INTERVAL", "OVERLAP", "REST_HOURS_DEFICIT", "MAX_DAILY_HOURS_EXCEEDED",
                                "BREAK_DEFICIT", "MAX_WEEKLY_HOURS_EXCEEDED"}
    OBVIOUS
  <1>15. IsFiniteSet(codes)
    <2>1. /\ IsFiniteSet({"INVALID_INTERVAL"}) /\ IsFiniteSet({"OVERLAP"}) /\ IsFiniteSet({"REST_HOURS_DEFICIT"})
          /\ IsFiniteSet({"MAX_DAILY_HOURS_EXCEEDED"}) /\ IsFiniteSet({"BREAK_DEFICIT"})
          /\ IsFiniteSet({"MAX_WEEKLY_HOURS_EXCEEDED"})
      BY FS_Singleton
    <2>2. PICK a, b, c : /\ a = {"INVALID_INTERVAL"} \cup {"OVERLAP"}
                         /\ b = {"REST_HOURS_DEFICIT"} \cup {"MAX_DAILY_HOURS_EXCEEDED"}
                         /\ c = {"BREAK_DEFICIT"} \cup {"MAX_WEEKLY_HOURS_EXCEEDED"}
      OBVIOUS
    <2>3. IsFiniteSet(a) /\ IsFiniteSet(b) /\ IsFiniteSet(c) BY <2>1, <2>2, CardinalityOfUnion
    <2>4. IsFiniteSet((a \cup b) \cup c) BY <2>3, CardinalityOfUnion
    <2>5. codes = (a \cup b) \cup c BY <1>14, <2>2
    <2> QED BY <2>4, <2>5
  <1>16. V \subseteq codes \X D
    <2>1. SUFFICES ASSUME NEW v \in V PROVE v \in codes \X D OBVIOUS
    <2>2. Found(sheet, limit, v) BY <1>1, ViolationsAre
    <2> QED BY <1>2, <1>8, <1>9, <1>11, <1>14, <2>2 DEF Found
  <1>17. IsFiniteSet(V)
    <2>1. IsFiniteSet(codes \X D) BY <1>12, <1>15, FS_Product
    <2> QED BY <1>16, <2>1, FS_Subset
  <1>18. Cardinality(V) \in Nat /\ (Cardinality(V) = 0 => V = {}) BY <1>17, FS_CardinalityType, FS_EmptySet
  <1> QED BY <1>1, <1>17, <1>18

ViolationsOf(m, x) ==
  Cardinality(Evaluate(Entries(m, x), [limits EXCEPT !.week = 100 * Never]).violations)

LEMMA ViolationsOfAMonth ==
  ASSUME NEW m, IsFiniteSet(People(m))
  PROVE  RuleViolations(m) = Cardinality({b \in RuleBookings(m) : Open(b)})
                               + Sum(People(m), [x \in People(m) |-> ViolationsOf(m, x)])
  <1>1. PICK P, w : P = People(m) /\ w = [x \in P |-> ViolationsOf(m, x)] OBVIOUS
  <1>2. SumSolved(P, w) BY <1>1, SumsAreSolved
  <1>3. PICK g : g = SumRule(P, w, g) BY <1>2 DEF SumSolved
  <1>4. \A s \in SUBSET P : s # {} => First(s) \in s BY DEF First
  <1>5. g = [s \in SUBSET P |-> IF s = {} THEN 0
                                 ELSE LET x == First(s) IN ViolationsOf(m, x) + g[s \ {x}]]
    <2>1. \A s \in SUBSET P : g[s] = IF s = {} THEN 0 ELSE ViolationsOf(m, First(s)) + g[s \ {First(s)}]
      <3>1. SUFFICES ASSUME NEW s \in SUBSET P
                     PROVE  g[s] = IF s = {} THEN 0 ELSE ViolationsOf(m, First(s)) + g[s \ {First(s)}]
        OBVIOUS
      <3>2. /\ s = {} => g[s] = 0
            /\ s # {} => First(s) \in s /\ g[s] = w[First(s)] + g[s \ {First(s)}]
        BY <1>3, SumRuleAt
      <3>3. s # {} => w[First(s)] = ViolationsOf(m, First(s)) BY <1>1, <3>2
      <3> QED BY <3>2, <3>3
    <2>2. g = [s \in SUBSET P |-> g[s]] BY <1>3 DEF SumRule
    <2> QED BY <2>1, <2>2
  <1>6. PICK h : h = CHOOSE e : e = [s \in SUBSET P |-> IF s = {} THEN 0
                                 ELSE LET x == First(s) IN ViolationsOf(m, x) + e[s \ {x}]]
    OBVIOUS
  <1>7. h = [s \in SUBSET P |-> IF s = {} THEN 0
                                 ELSE LET x == First(s) IN ViolationsOf(m, x) + h[s \ {x}]]
    BY <1>5, <1>6, Zenon
  <1>8. h = SumRule(P, w, h)
    <2>1. \A s \in SUBSET P : h[s] = IF s = {} THEN 0 ELSE w[First(s)] + h[s \ {First(s)}] BY <1>1, <1>4, <1>7
    <2>2. h = [s \in SUBSET P |-> h[s]] BY <1>7
    <2>3. h = [s \in SUBSET P |-> IF s = {} THEN 0 ELSE w[First(s)] + h[s \ {First(s)}]] BY <2>1, <2>2
    <2> QED BY <2>3 DEF SumRule
  <1>9. Sum(P, w) = h[P] BY <1>1, <1>2, <1>8, SolvedSum
  <1>10. RuleViolations(m) = Cardinality({b \in RuleBookings(m) : Open(b)}) + h[P]
    BY <1>1, <1>6 DEF RuleViolations, MapThenSumSet, MapThenFoldSet, First, ViolationsOf
  <1> QED BY <1>1, <1>9, <1>10

\* What none of the errors of the checklist says.
LEMMA NoErrors ==
  ASSUME TypeOK, BookedWell, AskedWell, NEW m, ~ HasErrors(m)
  PROVE  /\ MissingBookings(m) = {} /\ OpenCorrections(m) = {}
         /\ \A b \in RuleBookings(m) : ~ Open(b)
         /\ \A x \in People(m) :
              Evaluate(Entries(m, x), [limits EXCEPT !.week = 100 * Never]).violations = {}
  <1>1. IsFiniteSet(Population(m)) /\ IsFiniteSet(People(m))
    <2>1. PICK T, f : /\ T = {u \in Term : /\ u.person \in Staff /\ InScope(m, u.unit)
                                          /\ u.from <= m.to /\ u.to > m.from}
                      /\ f = [t \in T |-> t.appointment]
      OBVIOUS
    <2>2. IsFiniteSet(T) BY <2>1, TermsFollow, FS_Subset
    <2>3. IsFiniteSet({f[t] : t \in T}) /\ Population(m) = {f[t] : t \in T}
      BY <2>1, <2>2, Image DEF Population
    <2>4. PICK S, g : S = Population(m) /\ g = [a \in S |-> Owner(a)] OBVIOUS
    <2>5. IsFiniteSet({g[a] : a \in S}) /\ People(m) = {g[a] : a \in S} BY <2>3, <2>4, Image DEF People
    <2> QED BY <2>3, <2>5
  <1>2. PICK missing, undecided, open, w :
          /\ missing = MissingBookings(m) /\ undecided = OpenCorrections(m)
          /\ open = {b \in RuleBookings(m) : Open(b)}
          /\ w = [x \in People(m) |-> ViolationsOf(m, x)]
    OBVIOUS
  <1>3. IsFiniteSet(missing) /\ IsFiniteSet(undecided) /\ IsFiniteSet(open)
    <2>1. missing \subseteq Population(m) /\ undecided \subseteq corrections /\ open \subseteq booked
      BY <1>2 DEF MissingBookings, OpenCorrections, RuleBookings
    <2> QED BY <1>1, <2>1, FS_Subset DEF BookedWell, AskedWell
  <1>4. /\ Cardinality(missing) \in Nat /\ (Cardinality(missing) = 0 => missing = {})
        /\ Cardinality(undecided) \in Nat /\ (Cardinality(undecided) = 0 => undecided = {})
        /\ Cardinality(open) \in Nat /\ (Cardinality(open) = 0 => open = {})
    BY <1>3, FS_CardinalityType, FS_EmptySet
  <1>5. \A x \in People(m) :
          /\ ViolationsOf(m, x) \in Nat
          /\ ViolationsOf(m, x) = 0 =>
               Evaluate(Entries(m, x), [limits EXCEPT !.week = 100 * Never]).violations = {}
    <2>1. SUFFICES ASSUME NEW x \in People(m)
                   PROVE  /\ ViolationsOf(m, x) \in Nat
                          /\ ViolationsOf(m, x) = 0 =>
                               Evaluate(Entries(m, x), [limits EXCEPT !.week = 100 * Never]).violations = {}
      OBVIOUS
    <2>2. EntriesOf(MineOf(m, x), Cardinality(MineOf(m, x)), Entries(m, x)) BY EntriesAre
    <2>3. PICK e, limit : e = Entries(m, x) /\ limit = [limits EXCEPT !.week = 100 * Never] OBVIOUS
    <2>4. e \in Seq(Rowlike) BY <2>2, <2>3 DEF EntriesOf
    <2>5. /\ Cardinality(Evaluate(e, limit).violations) \in Nat
          /\ Cardinality(Evaluate(e, limit).violations) = 0 => Evaluate(e, limit).violations = {}
      BY <2>4, RowsAreSpans, ViolationsAreFinite
    <2> QED BY <2>3, <2>5 DEF ViolationsOf
  <1>6. PICK P : P = People(m) OBVIOUS
  <1>7. Sum(P, w) \in Nat /\ \A x \in P : w[x] <= Sum(P, w)
    <2>1. \A x \in P : w[x] \in Nat BY <1>2, <1>5, <1>6
    <2> QED BY <1>1, <1>6, <2>1, NaturalSum
  <1>8. RuleViolations(m) = Cardinality(open) + Sum(P, w) BY <1>1, <1>2, <1>6, ViolationsOfAMonth
  <1>9. ~ (Cardinality(missing) > 0) /\ ~ (Cardinality(undecided) > 0) /\ ~ (RuleViolations(m) > 0)
    <2>1. PICK e : e = Checklist(m).errors OBVIOUS
    <2>2. /\ e.missingBookings = Cardinality(missing) /\ e.openCorrections = Cardinality(undecided)
          /\ e.ruleViolations = RuleViolations(m)
          /\ "missingBookings" \in DOMAIN e /\ "openCorrections" \in DOMAIN e /\ "ruleViolations" \in DOMAIN e
      BY <1>2, <2>1 DEF Checklist
    <2>3. \A c \in DOMAIN e : ~ (e[c] > 0) BY <2>1 DEF HasErrors
    <2> QED BY <2>2, <2>3
  <1>10. Cardinality(missing) = 0 /\ Cardinality(undecided) = 0 /\ Cardinality(open) = 0 /\ Sum(P, w) = 0
    BY <1>4, <1>7, <1>8, <1>9
  <1>11. \A x \in P : ViolationsOf(m, x) = 0 BY <1>2, <1>5, <1>6, <1>7, <1>10
  <1> QED BY <1>2, <1>4, <1>5, <1>6, <1>10, <1>11

LEMMA UnitThere ==
  ASSUME NEW i, i.from \in Int, i.to \in Int, i.from < i.to, Resolves(i)
  PROVE  {t.unit : t \in {u \in TermsOf(i.appointment) : i.from \in u.from .. u.to - 1}} = {UnitOf(i)}
  <1>1. PICK U : U = UnitsOver(i) OBVIOUS
  <1>2. Cardinality(U) = 1 /\ \E t \in TermsOver(i) : i.from \in t.from .. t.to - 1 BY <1>1 DEF Resolves
  <1>3. IsFiniteSet(U)
    <2>1. PICK T, f : T = TermsOver(i) /\ f = [t \in T |-> t.unit] OBVIOUS
    <2>2. IsFiniteSet(T) BY <2>1, TermsFollow, FS_Subset DEF TermsOver, TermsOf
    <2>3. IsFiniteSet({f[t] : t \in T}) /\ U = {f[t] : t \in T} BY <1>1, <2>1, <2>2, Image DEF UnitsOver
    <2> QED BY <2>3
  <1>4. PICK u : U = {u} BY <1>2, <1>3, FS_Singleton
  <1>5. UnitOf(i) = u BY <1>1, <1>4 DEF UnitOf
  <1>6. \A t \in Term : t.from \in Int /\ t.to \in Int BY TermsFollow
  <1>7. TermsOf(i.appointment) \subseteq Term BY DEF TermsOf
  <1>8. \A t \in TermsOf(i.appointment) : i.from \in t.from .. t.to - 1 => t \in TermsOver(i)
    BY <1>6, <1>7 DEF TermsOver, Meets
  <1>9. \A t \in TermsOver(i) : t \in TermsOf(i.appointment) /\ t.unit = u
    BY <1>1, <1>4 DEF UnitsOver, TermsOver
  <1> QED BY <1>2, <1>5, <1>8, <1>9

\* What the evaluation of a person's bookings says of that person.
LEMMA CleanPerson ==
  ASSUME TypeOK, BookedWell, NEW m, NEW x \in People(m),
         Evaluate(Entries(m, x), [limits EXCEPT !.week = 100 * Never]).violations = {}
  PROVE  LET seen == {b \in booked : During(m, b)}
             dayOf(d) == d * DayHours * Hour .. (d + 1) * DayHours * Hour - 1
             work == Spent(x, WorkKinds, seen)
             pauses == {b \in seen : b.kind = "PAUSE"}
             worked(d) == Cardinality(work \cap dayOf(d))
             paused(d) == Cardinality(Spent(x, {"PAUSE"}, seen) \cap dayOf(d)) IN
         /\ \A d \in Int :
              /\ worked(d) < (limits.day + 1) * Minute
              /\ \A r \in Breaks : worked(d) >= r.hours * Hour + Minute - 1 =>
                   paused(d) + (Minute - 1) * Cardinality(pauses) >= r.minutes * Minute
         /\ \A b, c \in MineOf(m, x) :
              {b.kind, c.kind} \subseteq WorkKinds /\ Day(b.from) < Day(c.from)
              => c.from - b.to > (limits.rest - 1) * Minute
  <1> DEFINE seen == {b \in booked : During(m, b)}
             dayOf(d) == d * DayHours * Hour .. (d + 1) * DayHours * Hour - 1
             work == Spent(x, WorkKinds, seen)
             pauses == {b \in seen : b.kind = "PAUSE"}
             worked(d) == Cardinality(work \cap dayOf(d))
             paused(d) == Cardinality(Spent(x, {"PAUSE"}, seen) \cap dayOf(d))
  <1>1. PICK e, limit : e = Entries(m, x) /\ limit = [limits EXCEPT !.week = 100 * Never] OBVIOUS
  <1>2. limit.day = limits.day /\ limit.rest = limits.rest /\ limits.day \in Nat /\ limits.rest \in Nat
    <2>1. limits \in [day : Nat, rest : Nat, week : Nat] BY LimitsAreLimits DEF TypeOK
    <2> QED BY <1>1, <2>1
  <1>3. PICK S, n : S = MineOf(m, x) /\ n = Cardinality(S) OBVIOUS
  <1>4. EntriesOf(S, n, e) /\ IsFiniteSet(S) BY <1>1, <1>3, EntriesAre
  <1>5. S \subseteq Booking BY <1>3 DEF MineOf, RuleBookings, BookedWell
  <1>6. e \in Seq(Rowlike) /\ DOMAIN e = 1 .. n /\ e \in [1 .. n -> S] /\ \A i, j \in 1 .. n : e[i] = e[j] => i = j
    BY <1>4 DEF EntriesOf
  <1>7. work = Instants(e, WorkKinds) /\ Spent(x, {"PAUSE"}, seen) = Instants(e, {"PAUSE"}) BY <1>1, SpentIs
  <1>8. Evaluate(e, limit).violations = {} BY <1>1
  <1>9. /\ Cardinality(Mine(e, {"PAUSE"})) <= Cardinality(pauses)
        /\ Cardinality(Mine(e, {"PAUSE"})) \in Nat /\ Cardinality(pauses) \in Nat
    <2>1. IsFiniteSet(pauses) BY FS_Subset DEF BookedWell
    <2>2. PICK M, Q : M = Mine(e, {"PAUSE"}) /\ Q = pauses OBVIOUS
    <2>3. PICK f : f = [k \in M |-> e[k]] OBVIOUS
    <2>4. \A k \in M : k \in 1 .. n /\ e[k] \in S /\ e[k].kind = "PAUSE" BY <1>6, <2>2 DEF Mine
    <2>5. \A b \in S : b.kind = "PAUSE" => b \in Q BY <1>3, <2>2 DEF MineOf, RuleBookings
    <2>6. f \in [M -> Q] BY <2>3, <2>4, <2>5
    <2>9. \A j, k \in M : f[j] = f[k] => j = k BY <1>6, <2>3, <2>4
    <2>7. IsFiniteSet(Q) BY <2>1, <2>2
    <2>8. Cardinality(M) <= Cardinality(Q) /\ Cardinality(M) \in Nat /\ Cardinality(Q) \in Nat
      <3>1. Cardinality(M) <= Cardinality(Q) BY <2>6, <2>7, <2>9, Smaller
      <3>2. IsFiniteSet(M) BY <2>6, <2>7, <2>9, Smaller
      <3> QED BY <2>7, <3>1, <3>2, FS_CardinalityType
    <2> QED BY <2>2, <2>8
  <1>10. ASSUME NEW d \in Int
         PROVE  /\ worked(d) < (limits.day + 1) * Minute
                /\ \A r \in Breaks : worked(d) >= r.hours * Hour + Minute - 1 =>
                     paused(d) + (Minute - 1) * Cardinality(pauses) >= r.minutes * Minute
    <2>1. PICK some, halts, few, many :
            /\ some = Cardinality(Instants(e, WorkKinds) \cap (Midnight(d) .. Midnight(d + 1) - 1))
            /\ halts = Cardinality(Instants(e, {"PAUSE"}) \cap (Midnight(d) .. Midnight(d + 1) - 1))
            /\ few = Cardinality(Mine(e, {"PAUSE"})) /\ many = Cardinality(pauses)
      OBVIOUS
    <2>2. worked(d) = some /\ paused(d) = halts BY <1>7, <2>1 DEF Midnight
    <2>3. /\ some < (limit.day + 1) * Minute
          /\ \A r \in Breaks : some >= r.hours * Hour + Minute - 1 =>
               halts + (Minute - 1) * few >= r.minutes * Minute
      BY <1>2, <1>6, <1>8, <2>1, RowsAreSpans, CleanDay
    <2>4. halts \in Nat
      <3>1. PICK lo \in Int, hi \in Int : lo = Midnight(d) /\ hi = Midnight(d + 1) BY 0 \in Int, DayIs
      <3>2. PICK H : H = Instants(e, {"PAUSE"}) \cap (Midnight(d) .. Midnight(d + 1) - 1) OBVIOUS
      <3>3. H \subseteq lo .. hi - 1 /\ hi - 1 \in Int BY <3>1, <3>2
      <3> QED BY <2>1, <3>2, <3>3, SubsetOfInterval
    <2>5. PICK c \in Nat : c = Minute - 1 BY ClockIs
    <2>6. c * few <= c * many /\ few \in Nat /\ many \in Nat BY <1>9, <2>1, Scaled
    <2>7. ASSUME NEW r \in Breaks, some >= r.hours * Hour + Minute - 1
          PROVE  halts + (Minute - 1) * many >= r.minutes * Minute
      <3>1. halts + c * few >= r.minutes * Minute BY <2>3, <2>5, <2>7
      <3>2. r.minutes * Minute \in Int BY RulesAreRules, ClockIs
      <3>3. c * few \in Int /\ c * many \in Int BY <2>6
      <3> QED BY <2>4, <2>5, <2>6, <3>1, <3>2, <3>3
    <2> QED BY <1>2, <2>1, <2>2, <2>3, <2>7
  <1>11. ASSUME NEW b \in S, NEW c \in S, {b.kind, c.kind} \subseteq WorkKinds, Day(b.from) < Day(c.from)
         PROVE  c.from - b.to > (limits.rest - 1) * Minute
    <2>1. PICK d : d = WorkOf(e, WorkKinds) OBVIOUS
    <2>2. /\ MergedSheet(Rowlike, e, WorkKinds, d)
          /\ (\E i \in 1 .. Len(d) : d[i] = b) /\ (\E i \in 1 .. Len(d) : d[i] = c)
      <3>1. KeptApart(S, e, WorkKinds, WorkOf(e, WorkKinds)) BY <1>4, <1>5, EntriesStayApart
      <3> QED BY <1>11, <2>1, <3>1 DEF KeptApart
    <2>3. d \in Seq(Rowlike) /\ Proper(Len(d), d) /\ Apart(Len(d), d) BY <2>2 DEF MergedSheet
    <2>4. ShortRests(d, limit) = {}
      <3>1. \A k \in ShortRests(d, limit) : Found(e, limit, <<"REST_HOURS_DEFICIT", k>>) BY <2>1 DEF Found
      <3> QED BY <1>8, <3>1, ViolationsAre
    <2>5. PICK i \in 1 .. Len(d), j \in 1 .. Len(d) : d[i] = b /\ d[j] = c BY <2>2
    <2>6. d[j].from - d[i].to > (limit.rest - 1) * Minute
      BY <1>2, <1>11, <2>3, <2>4, <2>5, RowsAreSpans, CleanRest
    <2> QED BY <1>2, <2>5, <2>6
  <1> QED BY <1>3, <1>10, <1>11

LEMMA CleanMonthHolds ==
  ASSUME TypeOK, BookedWell, AskedWell, AbsentWell
  PROVE  CleanMonth
  <1> DEFINE seen(m) == {b \in booked : During(m, b)}
             dayOf(d) == d * DayHours * Hour .. (d + 1) * DayHours * Hour - 1
             unitAt(a, n) == {t.unit : t \in {u \in TermsOf(a) : n \in u.from .. u.to - 1}}
  <1>1. ASSUME NEW m \in Month, ~ HasErrors(m)
        PROVE  /\ MissingBookings(m) = {} /\ OpenCorrections(m) = {}
               /\ \A b \in RuleBookings(m) : ~ Open(b)
               /\ \A x \in People(m) :
                    Evaluate(Entries(m, x), [limits EXCEPT !.week = 100 * Never]).violations = {}
    BY <1>1, NoErrors
  <1>2. ASSUME NEW m \in Month, ~ HasErrors(m), NEW a \in Population(m)
        PROVE  \/ \E b \in seen(m) : /\ b.appointment = a /\ ~ Open(b) /\ b.kind \in WorkKinds
                                     /\ m.unit = Everyone \/ unitAt(a, b.from) = {m.unit}
               \/ \E l \in Absence : /\ l.appointment = a /\ absence[l] = "APPROVED" /\ During(m, l)
                                     /\ m.unit = Everyone \/ unitAt(a, l.from) = {m.unit}
    <2>1. a \in {b.appointment : b \in {c \in RuleBookings(m) : /\ ~ Open(c) /\ c.kind \in WorkKinds
                                                               /\ InScope(m, UnitOf(c))}}
          \/ a \in {l.appointment : l \in LeaveOf(m)}
      BY <1>1, <1>2 DEF MissingBookings
    <2>2. ASSUME NEW b \in RuleBookings(m), b.appointment = a, ~ Open(b), b.kind \in WorkKinds,
                 InScope(m, UnitOf(b))
          PROVE  \E c \in seen(m) : /\ c.appointment = a /\ ~ Open(c) /\ c.kind \in WorkKinds
                                    /\ m.unit = Everyone \/ unitAt(a, c.from) = {m.unit}
      <3>1. b \in seen(m) /\ b \in booked /\ b \in Booking BY <2>2 DEF RuleBookings, BookedWell
      <3>2. Known(b) = b BY <2>2 DEF Known, Open
      <3>3. Resolves(b) /\ b.from \in Int /\ b.to \in Int /\ b.from < b.to
        BY <3>1, <3>2, BookingsAreProper DEF BookedWell
      <3>4. unitAt(b.appointment, b.from) = {UnitOf(b)} BY <3>3, UnitThere
      <3>5. m.unit = Everyone \/ m.unit = UnitOf(b) BY <2>2 DEF InScope
      <3> QED BY <2>2, <3>1, <3>4, <3>5
    <2>3. ASSUME NEW l \in LeaveOf(m), l.appointment = a
          PROVE  \E k \in Absence : /\ k.appointment = a /\ absence[k] = "APPROVED" /\ During(m, k)
                                    /\ m.unit = Everyone \/ unitAt(a, k.from) = {m.unit}
      <3>1. l \in Absence /\ absence[l] = "APPROVED" /\ During(m, l) /\ InScope(m, UnitOf(Whole(l)))
        BY <2>3 DEF LeaveOf
      <3>2. PICK i : i = Whole(l) OBVIOUS
      <3>3. l \in [appointment : Appointment, from : Nat, to : Nat] /\ l.from <= l.to
        BY <3>1, AbsencesAreProper
      <3>4. i.appointment = a /\ i.from = l.from /\ i.to = l.to + 1 BY <2>3, <3>2, <3>3 DEF Whole
      <3>5. Resolves(i) /\ i.from \in Int /\ i.to \in Int /\ i.from < i.to
        BY <3>1, <3>2, <3>3, <3>4 DEF AbsentWell
      <3>6. unitAt(i.appointment, i.from) = {UnitOf(i)} BY <3>5, UnitThere
      <3>7. m.unit = Everyone \/ m.unit = UnitOf(i) BY <3>1, <3>2 DEF InScope
      <3> QED BY <2>3, <3>1, <3>4, <3>6, <3>7
    <2> QED BY <2>1, <2>2, <2>3
  <1>3. ASSUME NEW m \in Month, ~ HasErrors(m)
        PROVE  /\ \A b \in seen(m) : Open(b) => Owner(b.appointment) \notin People(m)
               /\ \A k \in corrections : k.at \in m.from .. m.to => k.of.appointment \notin Population(m)
    BY <1>1, <1>3 DEF RuleBookings, OpenCorrections
  <1>4. ASSUME NEW m \in Month, ~ HasErrors(m), NEW x \in People(m)
        PROVE  LET work == Spent(x, WorkKinds, seen(m))
                   pauses == {b \in seen(m) : b.kind = "PAUSE"}
                   worked(d) == Cardinality(work \cap dayOf(d))
                   paused(d) == Cardinality(Spent(x, {"PAUSE"}, seen(m)) \cap dayOf(d)) IN
               /\ \A d \in 0 .. Day(Never) :
                    /\ worked(d) < (limits.day + 1) * Minute
                    /\ \A r \in Breaks : worked(d) >= r.hours * Hour + Minute - 1 =>
                         paused(d) + (Minute - 1) * Cardinality(pauses) >= r.minutes * Minute
               /\ \A b, c \in seen(m) :
                    /\ Owner(b.appointment) = x /\ Owner(c.appointment) = x
                    /\ {b.kind, c.kind} \subseteq WorkKinds /\ Day(b.from) < Day(c.from)
                    => c.from - b.to > (limits.rest - 1) * Minute
    <2>1. Evaluate(Entries(m, x), [limits EXCEPT !.week = 100 * Never]).violations = {} BY <1>1, <1>4
    <2>2. \A d \in 0 .. Day(Never) : d \in Int OBVIOUS
    <2>3. ASSUME NEW b \in seen(m), Owner(b.appointment) = x, b.kind \in WorkKinds
          PROVE  b \in MineOf(m, x)
      <3>1. b \in RuleBookings(m) BY <1>4, <2>3 DEF RuleBookings
      <3>2. ~ Open(b) BY <1>1, <1>4, <3>1
      <3> QED BY <2>3, <3>1, <3>2 DEF MineOf
    <2> HIDE DEF dayOf
    <2> DEFINE work == Spent(x, WorkKinds, seen(m))
               pauses == {b \in seen(m) : b.kind = "PAUSE"}
               worked(d) == Cardinality(work \cap dayOf(d))
               paused(d) == Cardinality(Spent(x, {"PAUSE"}, seen(m)) \cap dayOf(d))
    <2>4. /\ \A d \in Int :
               /\ worked(d) < (limits.day + 1) * Minute
               /\ \A r \in Breaks : worked(d) >= r.hours * Hour + Minute - 1 =>
                    paused(d) + (Minute - 1) * Cardinality(pauses) >= r.minutes * Minute
          /\ \A b, c \in MineOf(m, x) :
               {b.kind, c.kind} \subseteq WorkKinds /\ Day(b.from) < Day(c.from)
               => c.from - b.to > (limits.rest - 1) * Minute
      BY <2>1, CleanPerson DEF dayOf
    <2> HIDE DEF work, pauses, worked, paused
    <2>5. \A d \in 0 .. Day(Never) :
               /\ worked(d) < (limits.day + 1) * Minute
               /\ \A r \in Breaks : worked(d) >= r.hours * Hour + Minute - 1 =>
                    paused(d) + (Minute - 1) * Cardinality(pauses) >= r.minutes * Minute
      BY <2>2, <2>4, Zenon
    <2>6. \A b, c \in seen(m) :
                    /\ Owner(b.appointment) = x /\ Owner(c.appointment) = x
                    /\ {b.kind, c.kind} \subseteq WorkKinds /\ Day(b.from) < Day(c.from)
                    => c.from - b.to > (limits.rest - 1) * Minute
      BY <2>3, <2>4
    <2> QED BY <2>5, <2>6, Zenon DEF work, pauses, worked, paused
  <1> HIDE DEF seen, unitAt, dayOf
  <1> QED BY <1>2, <1>3, <1>4, Zenon DEF CleanMonth, seen, unitAt, dayOf

\* Whatever is booked, corrected and asked for, and whatever the limits become: a month
\* without errors is clean (closing-checklist-metrics.ts, closing-checklist-rules.ts).
THEOREM CleanMonthsAreClean ==
  Spec => []CleanMonth
  <1>1. TypeOK /\ BookedWell /\ AskedWell /\ AbsentWell => CleanMonth BY CleanMonthHolds
  <1> QED BY <1>1, MonthTyped, BookingsStayWell, PTL

-----------------------------------------------------------------------------
(* The length of a union of ranges.                                         *)

Ranges == [from : Int, to : Int]

LEMMA RangesAreSpans ==
  Spans(Ranges)
  BY DEF Spans, Ranges

Parted(done, i) == ~ (done # <<>> /\ i.from <= Last(done).to)
Join(done, i) ==
  IF done # <<>> /\ i.from <= Last(done).to THEN [done EXCEPT ![Len(done)].to = Max({@, i.to})]
  ELSE Append(done, i)
Joined(s) ==
  FoldLeft(LAMBDA done, r : IF done # <<>> /\ r.from <= Last(done).to
                            THEN [done EXCEPT ![Len(done)].to = Max({@, r.to})]
                            ELSE Append(done, r), <<>>, s)
Spanned(s) == FoldLeft(LAMBDA sum, r : sum + r.to - r.from, 0, s)
SpanStep(sum, r) == sum + r.to - r.from

LEMMA JoinIs ==
  ASSUME NEW X, Spans(X), NEW done \in Seq(X), NEW i \in X
  PROVE  /\ Join(done, i) \in Seq(X)
         /\ Parted(done, i) => Appends(done, i, Join(done, i))
         /\ ~ Parted(done, i) => Extends(done, i, Join(done, i))
  <1>1. CASE Parted(done, i)
    <2>1. Join(done, i) = Append(done, i) BY <1>1 DEF Join, Parted
    <2> QED BY <1>1, <2>1 DEF Appends
  <1>2. CASE ~ Parted(done, i)
    <2>1. Join(done, i) = [done EXCEPT ![Len(done)].to = Max({@, i.to})] BY <1>2 DEF Join, Parted
    <2>2. Len(done) \in Nat /\ Len(done) # 0 /\ Len(done) \in DOMAIN done /\ done[Len(done)] \in X
      BY <1>2 DEF Parted
    <2>3. done[Len(done)].to \in Int /\ i.to \in Int BY <2>2 DEF Spans
    <2>4. PICK t \in Int : t = Max({done[Len(done)].to, i.to}) BY <2>3, MaxOfTwo
    <2>5. PICK x : x = [done[Len(done)] EXCEPT !.to = t] OBVIOUS
    <2>6. x \in X /\ x.from = done[Len(done)].from /\ x.to = t BY <2>2, <2>4, <2>5 DEF Spans
    <2>7. Join(done, i) = [done EXCEPT ![Len(done)] = x] BY <2>1, <2>4, <2>5
    <2>8. /\ Join(done, i) \in Seq(X) /\ Len(Join(done, i)) = Len(done)
          /\ Join(done, i)[Len(done)] = x
          /\ \A k \in 1 .. Len(done) - 1 : Join(done, i)[k] = done[k]
      BY <2>2, <2>6, <2>7
    <2> QED BY <1>2, <2>2, <2>4, <2>6, <2>8 DEF Extends
  <1> QED BY <1>1, <1>2

JoinsBy(X, n, s, f) ==
  /\ f \in [0 .. n -> Seq(X)] /\ f[0] = <<>> /\ Joined(s) = f[n]
  /\ \A k \in 1 .. n : f[k] = Join(f[k - 1], s[k])

LEMMA JoinSteps ==
  ASSUME NEW X, Spans(X), NEW n \in Nat, NEW s \in [1 .. n -> X]
  PROVE  \E f : JoinsBy(X, n, s, f)
  <1>1. PICK G : G = [p \in Seq(X) \X X |-> Join(p[1], p[2])] OBVIOUS
  <1>2. \A v \in Seq(X), i \in X : Join(v, i) \in Seq(X) /\ G[<<v, i>>] = Join(v, i) BY <1>1, JoinIs
  <1>3. G \in [Seq(X) \X X -> Seq(X)] /\ <<>> \in Seq(X)
    <2>1. \A p \in Seq(X) \X X : Join(p[1], p[2]) \in Seq(X) BY <1>2
    <2> QED BY <1>1, <2>1
  <1>4. PICK g \in [SUBSET (1 .. n) -> Seq(X)] : g = FoldRule(1 .. n, G, <<>>, s, g)
    <2>1. PICK A, a : A = Seq(X) /\ a = <<>> OBVIOUS
    <2>2. G \in [A \X X -> A] /\ a \in A BY <1>3, <2>1
    <2>3. FoldFound(n, G, A, a, s) BY <2>2, FoldExists
    <2> QED BY <2>1, <2>3 DEF FoldFound
  <1>5. ASSUME NEW t \in SUBSET (1 .. n)
        PROVE  g[t] = IF t = {} THEN <<>> ELSE Join(g[t \ {Max(t)}], s[Max(t)])
    <2>1. g[t] = IF t = {} THEN <<>> ELSE G[<<g[t \ {Max(t)}], s[Max(t)]>>] BY <1>4, Zenon DEF FoldRule
    <2>2. CASE t # {}
      <3>1. Max(t) \in 1 .. n /\ t \ {Max(t)} \in SUBSET (1 .. n) BY <2>2, Positions
      <3>2. s[Max(t)] \in X /\ g[t \ {Max(t)}] \in Seq(X) BY <3>1
      <3> QED BY <1>2, <2>1, <2>2, <3>2
    <2> QED BY <2>1, <2>2
  <1>6. g = [t \in SUBSET (1 .. n) |-> IF t = {} THEN <<>> ELSE LET x == Max(t) IN Join(g[t \ {x}], s[x])]
    BY <1>5
  <1>7. DOMAIN s = 1 .. n OBVIOUS
  <1>8. PICK h : h = CHOOSE e : e = [t \in SUBSET (1 .. n) |->
                                       IF t = {} THEN <<>> ELSE LET x == Max(t) IN Join(e[t \ {x}], s[x])]
    OBVIOUS
  <1>9. h = [t \in SUBSET (1 .. n) |-> IF t = {} THEN <<>> ELSE LET x == Max(t) IN Join(h[t \ {x}], s[x])]
    BY <1>6, <1>8, Zenon
  <1>10. Joined(s) = h[1 .. n] BY <1>7, <1>8 DEF Joined, FoldLeft, MapThenFoldSet, Join
  <1>11. h[1 .. 0] = <<>> /\ \A k \in 1 .. n : h[1 .. k] = Join(h[1 .. k - 1], s[k])
    <2>1. \A t \in SUBSET (1 .. n) : h[t] = IF t = {} THEN <<>> ELSE Join(h[t \ {Max(t)}], s[Max(t)])
      BY <1>9, Zenon
    <2>2. h[1 .. 0] = <<>> BY <2>1, Positions
    <2>3. ASSUME NEW k \in 1 .. n PROVE h[1 .. k] = Join(h[1 .. k - 1], s[k])
      <3>1. Max(1 .. k) = k /\ (1 .. k) \ {k} = 1 .. k - 1 /\ 1 .. k \in SUBSET (1 .. n) /\ 1 .. k # {}
        BY Positions
      <3>2. h[1 .. k] = Join(h[(1 .. k) \ {Max(1 .. k)}], s[Max(1 .. k)]) BY <2>1, <3>1, Zenon
      <3> QED BY <3>1, <3>2, Zenon
    <2> QED BY <2>2, <2>3
  <1>12. PICK T : T = {k \in 0 .. n : h[1 .. k] \in Seq(X)} OBVIOUS
  <1>13. 0 .. n \subseteq T
    <2>1. 0 \in T
      <3>1. 0 \in 0 .. n /\ h[1 .. 0] \in Seq(X) BY <1>3, <1>11
      <3> QED BY <1>12, <3>1
    <2>2. ASSUME NEW k \in 0 .. n - 1, k \in T PROVE k + 1 \in T
      <3>1. k + 1 \in 1 .. n /\ (k + 1) - 1 = k /\ k + 1 \in 0 .. n OBVIOUS
      <3>2. h[1 .. k + 1] = Join(h[1 .. k], s[k + 1]) /\ h[1 .. k] \in Seq(X) /\ s[k + 1] \in X
        BY <1>11, <1>12, <2>2, <3>1
      <3> QED BY <1>2, <1>12, <3>1, <3>2
    <2> QED BY <2>1, <2>2, CountingUp
  <1>14. PICK f : f = [k \in 0 .. n |-> h[1 .. k]] OBVIOUS
  <1>15. f \in [0 .. n -> Seq(X)] BY <1>12, <1>13, <1>14
  <1>16. f[0] = <<>> /\ Joined(s) = f[n] BY <1>10, <1>11, <1>14
  <1>17. ASSUME NEW k \in 1 .. n PROVE f[k] = Join(f[k - 1], s[k])
    <2>1. k \in 0 .. n /\ k - 1 \in 0 .. n OBVIOUS
    <2> QED BY <1>11, <1>14, <2>1
  <1> QED BY <1>15, <1>16, <1>17 DEF JoinsBy

LEMMA SpanStepIs ==
  ASSUME NEW a \in Int, NEW x \in Ranges
  PROVE  SpanStep(a, x) \in Int
  BY DEF SpanStep, Ranges

SpansBy(n, s, f) ==
  /\ f \in [0 .. n -> Int] /\ f[0] = 0 /\ Spanned(s) = f[n]
  /\ \A k \in 1 .. n : f[k] = SpanStep(f[k - 1], s[k])

LEMMA SpanSteps ==
  ASSUME NEW n \in Nat, NEW s \in [1 .. n -> Ranges]
  PROVE  \E f : SpansBy(n, s, f)
  <1>1. PICK G : G = [p \in Int \X Ranges |-> SpanStep(p[1], p[2])] OBVIOUS
  <1>2. \A v \in Int, i \in Ranges : SpanStep(v, i) \in Int /\ G[<<v, i>>] = SpanStep(v, i)
    BY <1>1, SpanStepIs
  <1>3. G \in [Int \X Ranges -> Int] /\ 0 \in Int
    <2>1. \A p \in Int \X Ranges : SpanStep(p[1], p[2]) \in Int BY <1>2
    <2> QED BY <1>1, <2>1
  <1>4. PICK g \in [SUBSET (1 .. n) -> Int] : g = FoldRule(1 .. n, G, 0, s, g)
    <2>1. PICK A, a : A = Int /\ a = 0 OBVIOUS
    <2>2. G \in [A \X Ranges -> A] /\ a \in A BY <1>3, <2>1
    <2>3. FoldFound(n, G, A, a, s) BY <2>2, FoldExists
    <2> QED BY <2>1, <2>3 DEF FoldFound
  <1>5. ASSUME NEW t \in SUBSET (1 .. n)
        PROVE  g[t] = IF t = {} THEN 0 ELSE SpanStep(g[t \ {Max(t)}], s[Max(t)])
    <2>1. g[t] = IF t = {} THEN 0 ELSE G[<<g[t \ {Max(t)}], s[Max(t)]>>] BY <1>4, Zenon DEF FoldRule
    <2>2. CASE t # {}
      <3>1. Max(t) \in 1 .. n /\ t \ {Max(t)} \in SUBSET (1 .. n) BY <2>2, Positions
      <3>2. s[Max(t)] \in Ranges /\ g[t \ {Max(t)}] \in Int BY <3>1
      <3> QED BY <1>2, <2>1, <2>2, <3>2
    <2> QED BY <2>1, <2>2
  <1>6. g = [t \in SUBSET (1 .. n) |-> IF t = {} THEN 0 ELSE LET x == Max(t) IN SpanStep(g[t \ {x}], s[x])]
    BY <1>5
  <1>7. DOMAIN s = 1 .. n OBVIOUS
  <1>8. PICK h : h = CHOOSE e : e = [t \in SUBSET (1 .. n) |->
                                       IF t = {} THEN 0 ELSE LET x == Max(t) IN SpanStep(e[t \ {x}], s[x])]
    OBVIOUS
  <1>9. h = [t \in SUBSET (1 .. n) |-> IF t = {} THEN 0 ELSE LET x == Max(t) IN SpanStep(h[t \ {x}], s[x])]
    BY <1>6, <1>8, Zenon
  <1>10. Spanned(s) = h[1 .. n] BY <1>7, <1>8 DEF Spanned, FoldLeft, MapThenFoldSet, SpanStep
  <1>11. h[1 .. 0] = 0 /\ \A k \in 1 .. n : h[1 .. k] = SpanStep(h[1 .. k - 1], s[k])
    <2>1. \A t \in SUBSET (1 .. n) : h[t] = IF t = {} THEN 0 ELSE SpanStep(h[t \ {Max(t)}], s[Max(t)])
      BY <1>9, Zenon
    <2>2. h[1 .. 0] = 0 BY <2>1, Positions
    <2>3. ASSUME NEW k \in 1 .. n PROVE h[1 .. k] = SpanStep(h[1 .. k - 1], s[k])
      <3>1. Max(1 .. k) = k /\ (1 .. k) \ {k} = 1 .. k - 1 /\ 1 .. k \in SUBSET (1 .. n) /\ 1 .. k # {}
        BY Positions
      <3>2. h[1 .. k] = SpanStep(h[(1 .. k) \ {Max(1 .. k)}], s[Max(1 .. k)]) BY <2>1, <3>1, Zenon
      <3> QED BY <3>1, <3>2, Zenon
    <2> QED BY <2>2, <2>3
  <1>12. PICK T : T = {k \in 0 .. n : h[1 .. k] \in Int} OBVIOUS
  <1>13. 0 .. n \subseteq T
    <2>1. 0 \in T
      <3>1. 0 \in 0 .. n /\ h[1 .. 0] \in Int BY <1>3, <1>11
      <3> QED BY <1>12, <3>1
    <2>2. ASSUME NEW k \in 0 .. n - 1, k \in T PROVE k + 1 \in T
      <3>1. k + 1 \in 1 .. n /\ (k + 1) - 1 = k /\ k + 1 \in 0 .. n OBVIOUS
      <3>2. h[1 .. k + 1] = SpanStep(h[1 .. k], s[k + 1]) /\ h[1 .. k] \in Int /\ s[k + 1] \in Ranges
        BY <1>11, <1>12, <2>2, <3>1
      <3> QED BY <1>2, <1>12, <3>1, <3>2
    <2> QED BY <2>1, <2>2, CountingUp
  <1>14. PICK f : f = [k \in 0 .. n |-> h[1 .. k]] OBVIOUS
  <1>15. f \in [0 .. n -> Int] BY <1>12, <1>13, <1>14
  <1>16. f[0] = 0 /\ Spanned(s) = f[n] BY <1>10, <1>11, <1>14
  <1>17. ASSUME NEW k \in 1 .. n PROVE f[k] = SpanStep(f[k - 1], s[k])
    <2>1. k \in 0 .. n /\ k - 1 \in 0 .. n OBVIOUS
    <2> QED BY <1>11, <1>14, <2>1
  <1> QED BY <1>15, <1>16, <1>17 DEF SpansBy

\* What is joined of the first k ranges.
Line(k, s, d) ==
  /\ k > 0 => Len(d) > 0 /\ d[Len(d)].from <= s[k].from
  /\ \A i \in 1 .. Len(d) : d[i].from <= d[i].to /\ \E j \in 1 .. k : d[i].from = s[j].from
  /\ \A i, j \in 1 .. Len(d) : i < j => d[i].to < d[j].from
  /\ \A t \in Int : (\E i \in 1 .. Len(d) : In(d[i], t)) <=> (\E j \in 1 .. k : In(s[j], t))

LEMMA LineGrows ==
  ASSUME NEW X, Spans(X), NEW n \in Nat, NEW s \in [1 .. n -> X], \A i \in 1 .. n : s[i].from <= s[i].to,
         Ascending(n, s), NEW k \in 1 .. n, NEW d \in Seq(X), Line(k - 1, s, d)
  PROVE  Line(k, s, Join(d, s[k]))
  <1>1. PICK x \in X : x = s[k] OBVIOUS
  <1>2. PICK e \in Seq(X) : e = Join(d, x) BY JoinIs
  <1>3. Len(d) \in Nat /\ Len(e) \in Nat /\ k - 1 \in Nat /\ k \in Nat /\ k \in 1 .. k OBVIOUS
  <1>4. x.from \in Int /\ x.to \in Int /\ x.from <= x.to BY <1>1 DEF Spans
  <1>5. \A i \in 1 .. Len(d) : d[i] \in X /\ d[i].from \in Int /\ d[i].to \in Int BY DEF Spans
  <1>6. /\ \A i \in 1 .. Len(d) : d[i].from <= d[i].to /\ \E j \in 1 .. k - 1 : d[i].from = s[j].from
        /\ \A i, j \in 1 .. Len(d) : i < j => d[i].to < d[j].from
        /\ \A t \in Int : (\E i \in 1 .. Len(d) : In(d[i], t)) <=> (\E j \in 1 .. k - 1 : In(s[j], t))
    BY DEF Line
  <1>7. \A j \in 1 .. k - 1 : j \in 1 .. k /\ j \in 1 .. n /\ s[j].from <= x.from BY <1>1 DEF Ascending
  <1>8. \A j \in 1 .. k : j = k \/ j \in 1 .. k - 1 OBVIOUS
  <1>9. \A i \in 1 .. Len(d) : d[i].from <= x.from BY <1>6, <1>7
  <1>10. \A t \in Int : (\E j \in 1 .. k : In(s[j], t)) <=> (\E j \in 1 .. k - 1 : In(s[j], t)) \/ In(x, t)
    BY <1>1, <1>3, <1>7, <1>8
  <1>11. CASE Parted(d, x)
    <2>1. /\ Len(e) = Len(d) + 1 /\ e[Len(d) + 1] = x
          /\ \A q \in 1 .. Len(d) : e[q] = d[q]
      <3>1. Appends(d, x, e) BY <1>2, <1>11, JoinIs
      <3> QED BY <3>1 DEF Appends
    <2>2. /\ Len(e) \in 1 .. Len(e) /\ e[Len(e)] = x
          /\ \A q \in 1 .. Len(e) : q = Len(e) \/ q \in 1 .. Len(d)
          /\ \A q \in 1 .. Len(d) : q \in 1 .. Len(e) /\ q < Len(e)
      BY <1>3, <2>1
    <2>3. ASSUME NEW i \in 1 .. Len(d) PROVE d[i].to < x.from
      <3>1. Len(d) \in 1 .. Len(d) /\ d # <<>> /\ Last(d) = d[Len(d)] BY <1>3, <2>3 DEF Last
      <3>2. ~ (x.from <= d[Len(d)].to) BY <1>11, <3>1 DEF Parted
      <3>3. i = Len(d) \/ i < Len(d) BY <1>3
      <3>4. i < Len(d) => d[i].to < d[Len(d)].from /\ d[Len(d)].from <= d[Len(d)].to BY <1>6, <3>1
      <3> QED BY <1>4, <1>5, <3>1, <3>2, <3>3, <3>4
    <2>4. Len(e) > 0 /\ e[Len(e)].from <= s[k].from BY <1>1, <1>3, <1>4, <2>2
    <2>5. ASSUME NEW i \in 1 .. Len(e) PROVE e[i].from <= e[i].to /\ \E j \in 1 .. k : e[i].from = s[j].from
      BY <1>1, <1>3, <1>4, <1>6, <1>7, <2>1, <2>2
    <2>6. ASSUME NEW i \in 1 .. Len(e), NEW j \in 1 .. Len(e), i < j PROVE e[i].to < e[j].from
      <3>1. i \in 1 .. Len(d) BY <1>3, <2>2, <2>6
      <3> QED BY <1>6, <2>1, <2>2, <2>3, <2>6, <3>1
    <2>7. ASSUME NEW t \in Int
          PROVE  (\E i \in 1 .. Len(e) : In(e[i], t)) <=> (\E j \in 1 .. k : In(s[j], t))
      <3>1. (\E i \in 1 .. Len(e) : In(e[i], t)) <=> (\E i \in 1 .. Len(d) : In(d[i], t)) \/ In(x, t)
        BY <2>1, <2>2
      <3> QED BY <1>6, <1>10, <3>1
    <2> QED BY <1>1, <1>2, <2>4, <2>5, <2>6, <2>7 DEF Line
  <1>12. CASE ~ Parted(d, x)
    <2>1. Extends(d, x, e) /\ Last(d) = d[Len(d)] /\ x.from <= Last(d).to
      <3>1. Extends(d, x, e) BY <1>2, <1>12, JoinIs
      <3> QED BY <1>12, <3>1 DEF Last, Parted
    <2>2. /\ Len(d) > 0 /\ Len(e) = Len(d) /\ e[Len(d)].from = d[Len(d)].from
          /\ e[Len(d)].to = Max({d[Len(d)].to, x.to})
          /\ \A q \in 1 .. Len(d) - 1 : e[q] = d[q]
      BY <2>1 DEF Extends
    <2>3. Len(d) \in 1 .. Len(d) /\ \A q \in 1 .. Len(d) : q = Len(d) \/ q \in 1 .. Len(d) - 1 BY <1>3, <2>2
    <2>4. \A q \in 1 .. Len(d) - 1 : q \in 1 .. Len(d) BY <1>3
    <2>5. PICK z \in Int : /\ z = e[Len(d)].to /\ z >= d[Len(d)].to /\ z >= x.to
                           /\ z = d[Len(d)].to \/ z = x.to
      <3>1. PICK a \in Int, b \in Int : a = d[Len(d)].to /\ b = x.to BY <1>4, <1>5, <2>3
      <3>2. Max({a, b}) \in Int /\ Max({a, b}) >= a /\ Max({a, b}) >= b /\ (Max({a, b}) = a \/ Max({a, b}) = b)
        BY MaxOfTwo
      <3> QED BY <2>2, <3>1, <3>2
    <2>6. PICK c \in Int, y \in Int : c = d[Len(d)].from /\ y = d[Len(d)].to /\ c <= y /\ x.from <= y /\ c <= x.from
      BY <1>5, <1>6, <1>9, <2>1, <2>3
    <2>7. \A t \in Int : In(e[Len(d)], t) <=> In(d[Len(d)], t) \/ In(x, t) BY <1>4, <2>2, <2>5, <2>6 DEF In
    <2>8. Len(e) > 0 /\ e[Len(e)].from <= s[k].from BY <1>1, <2>2, <2>6
    <2>9. ASSUME NEW i \in 1 .. Len(e) PROVE e[i].from <= e[i].to /\ \E j \in 1 .. k : e[i].from = s[j].from
      <3>1. CASE i = Len(d)
        <4>1. e[i].from <= e[i].to BY <2>2, <2>5, <2>6, <3>1
        <4> QED BY <1>6, <1>7, <2>2, <2>3, <3>1, <4>1
      <3>2. CASE i \in 1 .. Len(d) - 1 BY <1>6, <1>7, <2>2, <2>4, <3>2
      <3> QED BY <2>2, <2>3, <3>1, <3>2
    <2>10. ASSUME NEW i \in 1 .. Len(e), NEW j \in 1 .. Len(e), i < j PROVE e[i].to < e[j].from
      <3>1. i \in 1 .. Len(d) - 1 BY <1>3, <2>2, <2>10
      <3>2. d[i].to < d[j].from BY <1>6, <2>2, <2>4, <2>10, <3>1
      <3>3. e[j].from = d[j].from BY <2>2, <2>3
      <3> QED BY <2>2, <3>1, <3>2, <3>3
    <2>11. ASSUME NEW t \in Int
           PROVE  (\E i \in 1 .. Len(e) : In(e[i], t)) <=> (\E j \in 1 .. k : In(s[j], t))
      <3>1. (\E i \in 1 .. Len(e) : In(e[i], t)) <=> (\E i \in 1 .. Len(d) : In(d[i], t)) \/ In(x, t)
        BY <2>2, <2>3, <2>4, <2>7
      <3> QED BY <1>6, <1>10, <3>1
    <2> QED BY <1>1, <1>2, <2>8, <2>9, <2>10, <2>11 DEF Line
  <1> QED BY <1>11, <1>12

LEMMA JoinedIs ==
  ASSUME NEW X, Spans(X), NEW n \in Nat, NEW s \in [1 .. n -> X], \A i \in 1 .. n : s[i].from <= s[i].to,
         Ascending(n, s)
  PROVE  Joined(s) \in Seq(X) /\ Line(n, s, Joined(s))
  <1>7. PICK f : JoinsBy(X, n, s, f) BY JoinSteps
  <1>1. /\ f \in [0 .. n -> Seq(X)] /\ f[0] = <<>> /\ Joined(s) = f[n]
        /\ \A k \in 1 .. n : f[k] = Join(f[k - 1], s[k])
    BY <1>7 DEF JoinsBy
  <1>2. PICK T : T = {k \in 0 .. n : Line(k, s, f[k])} OBVIOUS
  <1>3. 0 \in T
    <2>1. Len(<<>>) = 0 /\ 1 .. 0 = {} OBVIOUS
    <2>2. Line(0, s, <<>>) BY <2>1 DEF Line
    <2> QED BY <1>1, <1>2, <2>2
  <1>4. ASSUME NEW k \in 0 .. n - 1, k \in T PROVE k + 1 \in T
    <2>1. k + 1 \in 1 .. n /\ (k + 1) - 1 = k /\ k + 1 \in 0 .. n OBVIOUS
    <2>2. f[k] \in Seq(X) /\ Line((k + 1) - 1, s, f[k]) /\ f[k + 1] = Join(f[k], s[k + 1])
      BY <1>1, <1>2, <1>4, <2>1
    <2>3. Line(k + 1, s, f[k + 1]) BY <2>1, <2>2, LineGrows
    <2> QED BY <1>2, <2>1, <2>3
  <1>5. 0 .. n \subseteq T BY <1>3, <1>4, CountingUp
  <1>6. n \in 0 .. n OBVIOUS
  <1> QED BY <1>1, <1>2, <1>5, <1>6

More(A, B, c) ==
  IsFiniteSet(A \cup B) /\ Cardinality(A \cup B) = Cardinality(A) + c /\ Cardinality(A) \in Int

LEMMA OneMoreRange ==
  ASSUME NEW A, IsFiniteSet(A), NEW a \in Int, NEW b \in Int, a <= b, \A t \in A : t \in Int /\ t < a,
         NEW B, B = a .. b - 1
  PROVE  More(A, B, b - a)
  <1>2. IsFiniteSet(B) /\ Cardinality(B) = b - a
    <2>1. PICK c \in Int : c = b - 1 OBVIOUS
    <2>2. IsFiniteSet(a .. c) /\ Cardinality(a .. c) = IF a > c THEN 0 ELSE c - a + 1 BY FS_Interval
    <2> QED BY <2>1, <2>2
  <1>3. A \cap B = {} OBVIOUS
  <1>4. IsFiniteSet(A \cup B) /\ Cardinality(A \cup B) = Cardinality(A) + Cardinality(B) /\ Cardinality(A) \in Nat
    BY <1>2, <1>3, CardinalityOfUnion
  <1> QED BY <1>2, <1>4 DEF More

\* Ranges that lie apart are as long as the instants they fill.
LEMMA SpannedIs ==
  ASSUME NEW n \in Nat, NEW d \in [1 .. n -> Ranges], \A i \in 1 .. n : d[i].from <= d[i].to,
         \A i, j \in 1 .. n : i < j => d[i].to < d[j].from
  PROVE  Spanned(d) = Cardinality({t \in Int : \E i \in 1 .. n : In(d[i], t)})
  <1> DEFINE filled(k) == {t \in Int : \E i \in 1 .. k : In(d[i], t)}
  <1> HIDE DEF filled
  <1>7. PICK f : SpansBy(n, d, f) BY SpanSteps
  <1>1. /\ f \in [0 .. n -> Int] /\ f[0] = 0 /\ Spanned(d) = f[n]
        /\ \A k \in 1 .. n : f[k] = SpanStep(f[k - 1], d[k])
    BY <1>7 DEF SpansBy
  <1>8. \A i \in 1 .. n : d[i].from \in Int /\ d[i].to \in Int BY DEF Ranges
  <1>2. PICK T : T = {k \in 0 .. n : IsFiniteSet(filled(k)) /\ f[k] = Cardinality(filled(k))} OBVIOUS
  <1>3. 0 \in T
    <2>1. filled(0) = {} /\ 0 \in 0 .. n BY DEF filled
    <2>2. IsFiniteSet({}) /\ Cardinality({}) = 0 BY FS_EmptySet
    <2>3. IsFiniteSet(filled(0)) /\ f[0] = Cardinality(filled(0)) BY <1>1, <2>1, <2>2
    <2> QED BY <1>2, <2>1, <2>3
  <1>4. ASSUME NEW k \in 0 .. n - 1, k \in T PROVE k + 1 \in T
    <2>1. k + 1 \in 1 .. n /\ (k + 1) - 1 = k /\ k + 1 \in 0 .. n OBVIOUS
    <2>2. PICK a \in Int, b \in Int : a = d[k + 1].from /\ b = d[k + 1].to /\ a <= b BY <1>8, <2>1
    <2>3. PICK A : A = filled(k) OBVIOUS
    <2>4. \A i \in 1 .. k : i \in 1 .. n /\ i < k + 1 /\ d[i].to < a BY <2>1, <2>2
    <2>5. \A t \in A : t \in Int /\ t < a BY <1>8, <2>2, <2>3, <2>4 DEF In, filled
    <2>6. filled(k + 1) = A \cup (a .. b - 1)
      <3>1. \A i \in 1 .. k + 1 : i = k + 1 \/ i \in 1 .. k OBVIOUS
      <3>2. \A i \in 1 .. k : i \in 1 .. k + 1 OBVIOUS
      <3>3. \A t \in Int : In(d[k + 1], t) <=> t \in a .. b - 1 BY <2>2 DEF In
      <3>4. k + 1 \in 1 .. k + 1 OBVIOUS
      <3> QED BY <2>3, <3>1, <3>2, <3>3, <3>4 DEF filled
    <2>7. IsFiniteSet(A) /\ f[k] = Cardinality(A) BY <1>2, <1>4, <2>3
    <2>10. PICK B : B = a .. b - 1 OBVIOUS
    <2>11. More(A, B, b - a) BY <2>2, <2>5, <2>7, <2>10, OneMoreRange
    <2>8. /\ IsFiniteSet(A \cup B)
          /\ Cardinality(A \cup B) = Cardinality(A) + b - a
          /\ Cardinality(A) \in Int
      BY <2>11 DEF More
    <2>9. f[k + 1] = f[k] + b - a BY <1>1, <2>1, <2>2 DEF SpanStep
    <2> QED BY <1>2, <2>1, <2>6, <2>7, <2>8, <2>9, <2>10
  <1>5. 0 .. n \subseteq T BY <1>3, <1>4, CountingUp
  <1>6. n \in 0 .. n OBVIOUS
  <1> QED BY <1>1, <1>2, <1>5, <1>6 DEF filled

LEMMA LengthIs ==
  ASSUME NEW R, R \subseteq Ranges, IsFiniteSet(R), \A r \in R : r.from <= r.to
  PROVE  Length(R) = Cardinality({t \in Int : \E r \in R : In(r, t)})
  <1>1. PICK rel : rel =
          {p \in R \X R : p[1].from < p[2].from \/ (p[1].from = p[2].from /\ p[1].to < p[2].to)}
    OBVIOUS
  <1>2. \A u, v \in R : <<u, v>> \in rel <=> (u.from < v.from \/ (u.from = v.from /\ u.to < v.to)) BY <1>1
  <1>3. \A u \in R : u.from \in Int /\ u.to \in Int /\ u = [from |-> u.from, to |-> u.to] BY DEF Ranges
  <1>4. Orders(R, rel)
    <2>1. \A u \in R : <<u, u>> \notin rel BY <1>2, <1>3
    <2>2. \A u, v \in R : u # v => <<u, v>> \in rel \/ <<v, u>> \in rel
      <3>1. SUFFICES ASSUME NEW u \in R, NEW v \in R, <<u, v>> \notin rel, <<v, u>> \notin rel PROVE u = v
        OBVIOUS
      <3>2. u.from = v.from /\ u.to = v.to BY <1>2, <1>3, <3>1
      <3> QED BY <1>3, <3>2
    <2>3. \A u, v, w \in R : <<u, v>> \in rel /\ <<v, w>> \in rel => <<u, w>> \in rel BY <1>2, <1>3
    <2> QED BY <2>1, <2>2, <2>3 DEF Orders
  <1>5. PICK s, n : s = InOrder(R, rel) /\ n = Cardinality(R) OBVIOUS
  <1>6. InOrderOf(R, rel, s) BY <1>4, <1>5, InOrderIs
  <1>7. /\ n \in Nat /\ s \in [1 .. n -> R] /\ \A u \in R : \E i \in 1 .. n : s[i] = u
        /\ \A i, j \in 1 .. n : <<s[i], s[j]>> \in rel <=> i < j
    BY <1>5, <1>6, Zenon DEF InOrderOf
  <1>8. s \in [1 .. n -> Ranges] /\ \A i \in 1 .. n : s[i] \in R BY <1>7
  <1>9. Ascending(n, s)
    <2>1. SUFFICES ASSUME NEW i \in 1 .. n, NEW j \in 1 .. n, i <= j PROVE s[i].from <= s[j].from
      BY DEF Ascending
    <2>2. i = j \/ <<s[i], s[j]>> \in rel BY <1>7, <2>1
    <2> QED BY <1>2, <1>3, <1>8, <2>2
  <1>10. \A i \in 1 .. n : s[i].from <= s[i].to BY <1>8
  <1>11. PICK d : d = Joined(s) OBVIOUS
  <1>12. d \in Seq(Ranges) /\ Line(n, s, d) BY <1>7, <1>8, <1>9, <1>10, <1>11, RangesAreSpans, JoinedIs
  <1>13. PICK l \in Nat : l = Len(d) /\ d \in [1 .. l -> Ranges] BY <1>12
  <1>14. /\ \A i \in 1 .. l : d[i].from <= d[i].to
         /\ \A i, j \in 1 .. l : i < j => d[i].to < d[j].from
         /\ \A t \in Int : (\E i \in 1 .. l : In(d[i], t)) <=> (\E j \in 1 .. n : In(s[j], t))
    BY <1>12, <1>13 DEF Line
  <1>15. Spanned(d) = Cardinality({t \in Int : \E i \in 1 .. l : In(d[i], t)}) BY <1>13, <1>14, SpannedIs
  <1>16. {t \in Int : \E i \in 1 .. l : In(d[i], t)} = {t \in Int : \E r \in R : In(r, t)}
    BY <1>7, <1>8, <1>14
  <1>17. Length(R) = Spanned(Joined(InOrder(R,
           {p \in R \X R : p[1].from < p[2].from \/ (p[1].from = p[2].from /\ p[1].to < p[2].to)})))
    BY DEF Length, Joined, Spanned
  <1> QED BY <1>1, <1>5, <1>11, <1>15, <1>16, <1>17

-----------------------------------------------------------------------------
(* Staffing.                                                                *)

Stays == [person : Person, from : Int, to : Int]
Held(S, x, s) == {t \in s.from .. s.to - 1 : \E b \in S : b.person = x /\ In(b, t)}
Present(S, s) == {x \in Person : 2 * Cardinality(Held(S, x, s)) >= s.to - s.from}

\* The index finds every booking that meets a shift, and no other.
LEMMA Queried ==
  ASSUME NEW B \in Seq(Stays), NEW s, s.from \in Int, s.to \in Int
  PROVE  Query(B, Index(B), s) = {k \in DOMAIN B : B[k].from < s.to /\ B[k].to > s.from}
  <1>1. DOMAIN B = 1 .. Len(B) /\ Len(B) \in Nat /\ Len(B) \in Int /\ 1 \in Int
        /\ \A k \in DOMAIN B : B[k].from \in Int /\ B[k].to \in Int
    <2>1. DOMAIN B = 1 .. Len(B) /\ Len(B) \in Nat /\ \A k \in DOMAIN B : B[k] \in Stays OBVIOUS
    <2>2. \A b \in Stays : b.from \in Int /\ b.to \in Int BY DEF Stays
    <2> QED BY <2>1, <2>2
  <1>2. PICK proper : proper = {k \in DOMAIN B : B[k].from < B[k].to} OBVIOUS
  <1>3. IsFiniteSet(proper) /\ proper \subseteq 1 .. Len(B) /\ \A k \in proper : k \in Int
    <2>1. proper \subseteq 1 .. Len(B) BY <1>1, <1>2
    <2>2. IsFiniteSet(proper) BY <1>1, <2>1, SubsetOfInterval, Zenon
    <2> QED BY <1>1, <2>1, <2>2
  <1>4. PICK rel : rel = {p \in proper \X proper : \/ B[p[1]].from < B[p[2]].from
                                                   \/ B[p[1]].from = B[p[2]].from /\ p[1] < p[2]}
    OBVIOUS
  <1>5. \A j, k \in proper :
          <<j, k>> \in rel <=> (B[j].from < B[k].from \/ (B[j].from = B[k].from /\ j < k))
    BY <1>4
  <1>6. \A k \in proper : k \in Int /\ B[k].from \in Int /\ B[k].to \in Int BY <1>1, <1>2, <1>3
  <1>7. Orders(proper, rel)
    <2>1. \A u \in proper : <<u, u>> \notin rel BY <1>5, <1>6
    <2>2. ASSUME NEW u \in proper, NEW v \in proper, u # v
          PROVE  <<u, v>> \in rel \/ <<v, u>> \in rel
      <3>1. /\ u \in Int /\ B[u].from \in Int
            /\ v \in Int /\ B[v].from \in Int
        BY <1>6
      <3>2. \/ B[u].from < B[v].from \/ (B[u].from = B[v].from /\ u < v)
            \/ B[v].from < B[u].from \/ (B[v].from = B[u].from /\ v < u)
        BY <2>2, <3>1
      <3> QED BY <1>5, <3>2, Zenon
    <2>3. ASSUME NEW u \in proper, NEW v \in proper, NEW w \in proper,
                 <<u, v>> \in rel, <<v, w>> \in rel
          PROVE  <<u, w>> \in rel
      <3>1. /\ u \in Int /\ B[u].from \in Int
            /\ v \in Int /\ B[v].from \in Int
            /\ w \in Int /\ B[w].from \in Int
        BY <1>6
      <3>2. /\ (B[u].from < B[v].from \/ (B[u].from = B[v].from /\ u < v))
            /\ (B[v].from < B[w].from \/ (B[v].from = B[w].from /\ v < w))
        BY <1>5, <2>3, Zenon
      <3>3. B[u].from < B[w].from \/ (B[u].from = B[w].from /\ u < w) BY <3>1, <3>2
      <3> QED BY <1>5, <3>3, Zenon
    <2> QED BY <2>1, <2>2, <2>3 DEF Orders
  <1>8. PICK order, n : order = InOrder(proper, rel) /\ n = Cardinality(proper) OBVIOUS
  <1>9. InOrderOf(proper, rel, order) BY <1>3, <1>7, <1>8, InOrderIs
  <1>10. /\ n \in Nat /\ order \in [1 .. n -> proper] /\ DOMAIN order = 1 .. n
         /\ \A u \in proper : \E i \in 1 .. n : order[i] = u
    BY <1>8, <1>9, Zenon DEF InOrderOf
  <1>11. PICK index : index = Index(B) OBVIOUS
  <1>12. /\ index.order = order /\ index.rest = DOMAIN B \ proper
         /\ index.latest = [i \in 1 .. n |-> Max({B[order[m]].to : m \in 1 .. i})]
    <2>1. index = [order |-> order,
                   latest |-> [i \in DOMAIN order |-> Max({B[order[m]].to : m \in 1 .. i})],
                   rest |-> DOMAIN B \ proper]
      BY <1>2, <1>4, <1>8, <1>11 DEF Index
    <2> QED BY <1>10, <2>1
  <1>13. ASSUME NEW i \in 1 .. n, NEW m \in 1 .. n, m >= i
         PROVE  index.latest[m] \in Int /\ index.latest[m] >= B[order[i]].to
    <2>1. PICK f : f = [j \in 1 .. m |-> B[order[j]].to] OBVIOUS
    <2>2. PICK T : T = {f[j] : j \in 1 .. m} OBVIOUS
    <2>3. \A j \in 1 .. m : j \in 1 .. n /\ order[j] \in proper /\ f[j] = B[order[j]].to /\ f[j] \in Int
      BY <1>6, <1>10, <2>1
    <2>4. i \in 1 .. m /\ f[i] \in T /\ T \subseteq Int /\ T # {} /\ f[i] = B[order[i]].to
      BY <1>13, <2>2, <2>3
    <2>5. IsFiniteSet(1 .. m) BY FS_Interval
    <2>6. IsFiniteSet(T) BY <2>2, <2>5, Image
    <2>7. Max(T) \in Int /\ Max(T) >= f[i] BY <2>4, <2>6, MaxIs
    <2>8. T = {B[order[j]].to : j \in 1 .. m} BY <2>2, <2>3
    <2>9. index.latest[m] = Max(T) BY <1>12, <2>8
    <2> QED BY <2>4, <2>7, <2>9
  <1>14. PICK reached : reached = Reached(B, index, s) OBVIOUS
  <1>15. \A i : i \in reached <=> /\ i \in 1 .. n /\ B[order[i]].from < s.to
                                  /\ \A m \in 1 .. n : B[order[m]].from < s.to /\ m >= i => index.latest[m] > s.from
    BY <1>10, <1>12, <1>14 DEF Reached
  <1>16. ASSUME NEW i \in 1 .. n, B[order[i]].from < s.to, B[order[i]].to > s.from
         PROVE  i \in reached
    <2>1. B[order[i]].to \in Int BY <1>6, <1>10
    <2>2. \A m \in 1 .. n : m >= i => index.latest[m] > s.from BY <1>13, <1>16, <2>1
    <2> QED BY <1>15, <1>16, <2>2
  <1>17. Query(B, index, s) = {order[i] : i \in {j \in reached : B[order[j]].to > s.from}}
                                \cup {k \in DOMAIN B \ proper : s.from < B[k].to /\ B[k].from < s.to}
    BY <1>12, <1>14, Zenon DEF Query
  <1>18. ASSUME NEW k PROVE k \in Query(B, index, s) <=> k \in DOMAIN B /\ B[k].from < s.to /\ B[k].to > s.from
    <2>1. CASE k \in proper
      <3>1. PICK i \in 1 .. n : order[i] = k BY <1>10, <2>1
      <3>2. k \in DOMAIN B BY <1>2, <2>1
      <3>3. B[k].from < s.to /\ B[k].to > s.from => k \in Query(B, index, s) BY <1>16, <1>17, <3>1
      <3>4. k \in Query(B, index, s) => \E j \in reached : k = order[j] /\ B[order[j]].to > s.from
        BY <1>17, <2>1
      <3>5. k \in Query(B, index, s) => B[k].from < s.to /\ B[k].to > s.from BY <1>15, <3>4
      <3> QED BY <3>2, <3>3, <3>5
    <2>2. CASE k \notin proper
      <3>1. \A j \in reached : order[j] # k BY <1>10, <1>15, <2>2
      <3>2. k \in Query(B, index, s) <=> k \in DOMAIN B /\ s.from < B[k].to /\ B[k].from < s.to
        BY <1>17, <2>2, <3>1
      <3> QED BY <1>1, <3>2
    <2> QED BY <2>1, <2>2
  <1> QED BY <1>11, <1>18

StaffedBy(S, s, r) ==
  /\ IsFiniteSet(Present(S, s))
  /\ r.planned = Max({s.min, Cardinality(s.assigned)})
  /\ r.actual = Cardinality(Present(S, s))
  /\ r.covered = Sum(Present(S, s), [x \in Present(S, s) |-> Cardinality(Held(S, x, s))])

LEMMA Staffed ==
  ASSUME NEW B \in Seq(Stays), NEW S, S = {B[k] : k \in DOMAIN B}, \A b \in S : b.from <= b.to,
         NEW s, s.from \in Int, s.to \in Int, s.from < s.to
  PROVE  StaffedBy(S, s, Staffing(B, Index(B), s))
  <1>1. PICK D : D = DOMAIN B /\ D = 1 .. Len(B) OBVIOUS
  <1>2. IsFiniteSet(D)
    <2>1. Len(B) \in Int /\ 1 \in Int OBVIOUS
    <2>2. IsFiniteSet(1 .. Len(B)) BY <2>1, FS_Interval
    <2> QED BY <1>1, <2>2
  <1>3. \A k \in D : /\ B[k] \in S /\ B[k].person \in Person /\ B[k].from \in Int /\ B[k].to \in Int
                    /\ B[k].from <= B[k].to
    <2>1. \A k \in D : B[k] \in Stays /\ B[k] \in S BY <1>1
    <2>2. \A b \in Stays : b.person \in Person /\ b.from \in Int /\ b.to \in Int BY DEF Stays
    <2> QED BY <2>1, <2>2
  <1>4. \A b \in S : \E k \in D : b = B[k] BY <1>1
  <1> DEFINE mine == Query(B, Index(B), s)
             of(x) == {j \in mine : B[j].person = x}
             range(k) == [from |-> Max({B[k].from, s.from}), to |-> Min({B[k].to, s.to})]
             ranges(x) == {range(k) : k \in of(x)}
             covered == [x \in {B[k].person : k \in mine} |-> Length(ranges(x))]
             present == {x \in DOMAIN covered : 2 * covered[x] >= s.to - s.from}
  <1>5. mine = {k \in D : B[k].from < s.to /\ B[k].to > s.from} BY <1>1, Queried
  <1>6. Staffing(B, Index(B), s) =
          [planned |-> Max({s.min, Cardinality(s.assigned)}), actual |-> Cardinality(present),
           covered |-> MapThenSumSet(LAMBDA x : covered[x], present)]
    BY Zenon DEF Staffing
  <1> HIDE DEF mine
  <1>7. ASSUME NEW k \in mine
        PROVE  /\ range(k) \in Ranges /\ range(k).from <= range(k).to
               /\ \A t \in Int : In(range(k), t) <=> t \in s.from .. s.to - 1 /\ In(B[k], t)
    <2>1. PICK a \in Int, b \in Int, c \in Int, d \in Int :
            /\ a = B[k].from /\ b = B[k].to /\ c = s.from /\ d = s.to
            /\ a <= b /\ a < d /\ c < b /\ c < d
      BY <1>3, <1>5
    <2>2. PICK u \in Int : u = Max({a, c}) /\ u >= a /\ u >= c /\ (u = a \/ u = c) BY MaxOfTwo
    <2>3. PICK v \in Int : v = Min({b, d}) /\ v <= b /\ v <= d /\ (v = b \/ v = d)
      <3>1. /\ Min({b, d}) \in Int /\ Min({b, d}) <= b /\ Min({b, d}) <= d
            /\ Min({b, d}) = IF b <= d THEN b ELSE d
        BY MaxOfTwo
      <3> QED BY <3>1
    <2>4. range(k) = [from |-> u, to |-> v] BY <2>1, <2>2, <2>3
    <2>5. u <= v BY <2>1, <2>2, <2>3
    <2>6. range(k) \in Ranges /\ range(k).from = u /\ range(k).to = v BY <2>4 DEF Ranges
    <2>7. ASSUME NEW t \in Int PROVE In(range(k), t) <=> t \in s.from .. s.to - 1 /\ In(B[k], t)
      <3>1. In(range(k), t) <=> u <= t /\ t < v BY <2>6 DEF In
      <3>2. In(B[k], t) <=> a <= t /\ t < b BY <2>1 DEF In
      <3>3. t \in s.from .. s.to - 1 <=> c <= t /\ t < d BY <2>1
      <3> QED BY <2>2, <2>3, <3>1, <3>2, <3>3
    <2> QED BY <2>5, <2>6, <2>7
  <1>8. ASSUME NEW t \in s.from .. s.to - 1, NEW k \in D, In(B[k], t) PROVE k \in mine
    <2>1. t \in Int /\ s.from <= t /\ t < s.to OBVIOUS
    <2>2. B[k].from <= t /\ t < B[k].to BY <1>8 DEF In
    <2> QED BY <1>3, <1>5, <2>1, <2>2
  <1> HIDE DEF range
  <1>9. ASSUME NEW x
        PROVE  Length(ranges(x)) = Cardinality(Held(S, x, s))
    <2>1. PICK R : R = ranges(x) OBVIOUS
    <2>2. IsFiniteSet(R)
      <3>1. PICK K, f : K = of(x) /\ f = [k \in K |-> range(k)] OBVIOUS
      <3>2. K \subseteq D BY <1>5, <3>1
      <3>3. IsFiniteSet(K) BY <1>2, <3>2, FS_Subset
      <3>4. IsFiniteSet({f[k] : k \in K}) BY <3>3, Image
      <3>5. R = {f[k] : k \in K} BY <2>1, <3>1
      <3> QED BY <3>4, <3>5
    <2>3. R \subseteq Ranges /\ \A r \in R : r.from <= r.to BY <1>7, <2>1
    <2>4. Length(R) = Cardinality({t \in Int : \E r \in R : In(r, t)}) BY <2>2, <2>3, LengthIs
    <2>5. \A t \in Int : (\E r \in R : In(r, t)) <=> t \in Held(S, x, s)
      <3>1. \A t \in Int : (\E r \in R : In(r, t))
                <=> \E k \in mine : B[k].person = x /\ t \in s.from .. s.to - 1 /\ In(B[k], t)
        BY <1>7, <2>1
      <3>2. \A t \in Held(S, x, s) : \E k \in mine : B[k].person = x /\ t \in s.from .. s.to - 1 /\ In(B[k], t)
        BY <1>4, <1>8 DEF Held
      <3>3. \A t, k : k \in mine /\ B[k].person = x /\ t \in s.from .. s.to - 1 /\ In(B[k], t) => t \in Held(S, x, s)
        BY <1>3, <1>5 DEF Held
      <3> QED BY <3>1, <3>2, <3>3
    <2>6. Held(S, x, s) \subseteq Int BY DEF Held
    <2>7. {t \in Int : \E r \in R : In(r, t)} = Held(S, x, s) BY <2>5, <2>6
    <2> QED BY <2>1, <2>4, <2>7
  <1> HIDE DEF of, ranges
  <1>10. ASSUME NEW x \in Person, 2 * Cardinality(Held(S, x, s)) >= s.to - s.from PROVE x \in DOMAIN covered
    <2>1. Held(S, x, s) # {}
      <3>1. Cardinality({}) = 0 BY FS_EmptySet
      <3>2. s.to - s.from > 0 /\ ~ (2 * 0 >= s.to - s.from) OBVIOUS
      <3> QED BY <1>10, <3>1, <3>2
    <2>2. PICK t \in s.from .. s.to - 1, b \in S : b.person = x /\ In(b, t) BY <2>1 DEF Held
    <2>3. PICK k \in D : b = B[k] BY <1>4
    <2>4. k \in mine /\ B[k].person = x BY <1>8, <2>2, <2>3
    <2> QED BY <2>4
  <1>11. DOMAIN covered \subseteq Person BY <1>3, <1>5
  <1>12. present = Present(S, s) BY <1>9, <1>10, <1>11 DEF Present
  <1>13. IsFiniteSet(present)
    <2>1. PICK M, f : M = mine /\ f = [k \in M |-> B[k].person] OBVIOUS
    <2>2. M \subseteq D BY <1>5, <2>1
    <2>3. IsFiniteSet(M) BY <1>2, <2>2, FS_Subset
    <2>4. IsFiniteSet({f[k] : k \in M}) BY <2>3, Image
    <2>5. present \subseteq {f[k] : k \in M} BY <2>1
    <2> QED BY <2>4, <2>5, FS_Subset
  <1>14. \A x \in present : covered[x] = Cardinality(Held(S, x, s)) BY <1>9
  <1>15. MapThenSumSet(LAMBDA x : covered[x], present) = Sum(present, covered) BY DEF Sum
  <1> HIDE DEF present, covered
  <1>16. Sum(present, covered) = Sum(present, [x \in present |-> Cardinality(Held(S, x, s))])
    <2>1. PICK P, v, w : P = present /\ v = covered /\ w = [x \in present |-> Cardinality(Held(S, x, s))]
      OBVIOUS
    <2>2. \A x \in P : v[x] = w[x] BY <1>14, <2>1
    <2>3. Sum(P, v) = Sum(P, w) BY <1>13, <2>1, <2>2, SameWeights
    <2> QED BY <2>1, <2>3
  <1> QED BY <1>6, <1>12, <1>13, <1>15, <1>16 DEF StaffedBy

-----------------------------------------------------------------------------
(* The staffing of a roster.                                                *)

LEMMA InSequence ==
  ASSUME NEW S, IsFiniteSet(S)
  PROVE  SetToSeq(S) \in Seq(S) /\ S = {SetToSeq(S)[k] : k \in DOMAIN SetToSeq(S)}
  <1>1. PICK n \in Nat : n = Cardinality(S) /\ ExistsBijection(1 .. n, S) BY FS_CardinalityType
  <1>2. \E f \in [1 .. n -> S] : IsInjective(f) BY <1>1 DEF ExistsBijection, Bijection, Injection
  <1>3. PICK f : f = SetToSeq(S) OBVIOUS
  <1>4. f \in [1 .. n -> S] /\ IsInjective(f) BY <1>1, <1>2, <1>3 DEF SetToSeq
  <1>5. IsFiniteSet(1 .. n) /\ Cardinality(1 .. n) = n BY FS_Interval
  <1>6. f \in Surjection(1 .. n, S) BY <1>1, <1>4, <1>5, FS_Injection DEF Injection
  <1>7. \A b \in S : \E k \in 1 .. n : f[k] = b BY <1>6 DEF Surjection
  <1>8. f \in Seq(S) /\ DOMAIN f = 1 .. n /\ \A k \in 1 .. n : f[k] \in S BY <1>4
  <1> QED BY <1>3, <1>7, <1>8

LEMMA CountedBy ==
  ASSUME NEW S, IsFiniteSet(S), S \subseteq Stays, \A b \in S : b.from <= b.to,
         NEW r \in Roster, NEW s \in r.shifts
  PROVE  StaffedBy(S, s, CoverageOf(S, r)[s])
  <1>1. PICK B : B = SetToSeq(S) OBVIOUS
  <1>2. B \in Seq(S) /\ S = {B[k] : k \in DOMAIN B} BY <1>1, InSequence
  <1>3. B \in Seq(Stays) BY <1>2
  <1>4. s.from \in Int /\ s.to \in Int /\ s.from < s.to BY ShiftsAreProper
  <1>5. StaffedBy(S, s, Staffing(B, Index(B), s)) BY <1>2, <1>3, <1>4, Staffed
  <1>6. CoverageOf(S, r)[s] = Staffing(B, Index(B), s) BY <1>1 DEF CoverageOf, Coverage
  <1> QED BY <1>5, <1>6

LEMMA BookingsAreStays ==
  ASSUME BookedWell, NEW r \in Roster
  PROVE  /\ IsFiniteSet(RosterBookings(r)) /\ RosterBookings(r) \subseteq Stays
         /\ \A b \in RosterBookings(r) : b.from <= b.to
         /\ IsFiniteSet(ChecklistBookings(r)) /\ ChecklistBookings(r) \subseteq Stays
         /\ \A b \in ChecklistBookings(r) : b.from <= b.to
  <1>1. \A b \in booked : b.from \in Int /\ b.to \in Int /\ b.from < b.to /\ b.appointment \in Appointment
    BY BookingsAreProper DEF BookedWell
  <1>2. \A a \in Appointment : Owner(a) \in Person BY TermsFollow DEF Appointment, Owner, TermsOf
  <1>3. PICK K, f : /\ K = {c \in booked : Work(c, r) /\ IF Open(c) THEN c.from >= r.from ELSE c.to > r.from}
                    /\ f = [b \in K |-> [person |-> Owner(b.appointment), from |-> b.from,
                                         to |-> IF Open(b) THEN b.from ELSE b.to]]
    OBVIOUS
  <1>4. PICK L, g : /\ L = {c \in booked : Work(c, r) /\ ~ Open(c) /\ c.to > r.from}
                    /\ g = [b \in L |-> [person |-> Owner(b.appointment), from |-> b.from, to |-> b.to]]
    OBVIOUS
  <1>5. K \subseteq booked /\ L \subseteq booked BY <1>3, <1>4
  <1>6. IsFiniteSet(K) /\ IsFiniteSet(L) BY <1>5, FS_Subset DEF BookedWell
  <1>7. IsFiniteSet({f[b] : b \in K}) /\ IsFiniteSet({g[b] : b \in L}) BY <1>6, Image
  <1>8. RosterBookings(r) = {f[b] : b \in K} BY <1>3 DEF RosterBookings
  <1>9. ChecklistBookings(r) = {g[b] : b \in L} BY <1>4 DEF ChecklistBookings
  <1>10. \A b \in K : f[b] \in Stays /\ f[b].from <= f[b].to BY <1>1, <1>2, <1>3, <1>5 DEF Stays
  <1>11. \A b \in L : g[b] \in Stays /\ g[b].from <= g[b].to BY <1>1, <1>2, <1>4, <1>5 DEF Stays
  <1> QED BY <1>7, <1>8, <1>9, <1>10, <1>11

\* Who is there in a shift: the instants of the work in the unit of the roster.
There(r, s, x) ==
  Spent(x, WorkKinds, {b \in booked : UnitsOver(Known(b)) = {r.unit}}) \cap (s.from .. s.to - 1)

LEMMA ThereIs ==
  ASSUME BookedWell, NEW r \in Roster, NEW s \in r.shifts, NEW x
  PROVE  Held(RosterBookings(r), x, s) = There(r, s, x) /\ Held(ChecklistBookings(r), x, s) = There(r, s, x)
  <1>1. \A b \in booked : b.from \in Int /\ b.to \in Int /\ b.from < b.to BY BookingsAreProper DEF BookedWell
  <1>2. PICK a \in Int, c \in Int : a = s.from /\ c = s.to BY ShiftsAreProper
  <1>3. r.from <= a /\ a < c /\ c <= r.to BY <1>2, ShiftsAreProper
  <1> DEFINE works(b, t) == /\ b \in booked /\ UnitsOver(Known(b)) = {r.unit} /\ b.kind \in WorkKinds
                            /\ ~ Open(b) /\ Owner(b.appointment) = x /\ b.from <= t /\ t < b.to
  <1>4. \A t \in a .. c - 1 : t \in There(r, s, x) <=> \E b : works(b, t)
    <2>1. SUFFICES ASSUME NEW t \in a .. c - 1 PROVE t \in There(r, s, x) <=> \E b : works(b, t) OBVIOUS
    <2>2. \A b \in booked : t \in b.from .. b.to - 1 <=> b.from <= t /\ t < b.to BY <1>1
    <2> QED BY <1>2, <2>2 DEF There, Spent
  <1>5. \A b, t : t \in a .. c - 1 /\ works(b, t) => Work(b, r) /\ b.to > r.from
    <2>1. SUFFICES ASSUME NEW b, NEW t \in a .. c - 1, works(b, t) PROVE Work(b, r) /\ b.to > r.from OBVIOUS
    <2>2. b.from < r.to /\ b.to > r.from
      <3>1. PICK d \in Int, e \in Int : d = b.from /\ e = b.to BY <1>1, <2>1
      <3>2. d <= t /\ t < e /\ a <= t /\ t < c BY <2>1, <3>1
      <3>3. r.from \in Int /\ r.to \in Int BY ShiftsAreProper
      <3> QED BY <1>3, <3>1, <3>2, <3>3
    <2> QED BY <2>1, <2>2 DEF Work
  <1>6. ASSUME NEW t \in a .. c - 1 PROVE t \in Held(RosterBookings(r), x, s) <=> \E b : works(b, t)
    <2>1. ASSUME NEW b, works(b, t) PROVE t \in Held(RosterBookings(r), x, s)
      <3>1. PICK z : z = [person |-> Owner(b.appointment), from |-> b.from, to |-> IF Open(b) THEN b.from ELSE b.to]
        OBVIOUS
      <3>2. z \in RosterBookings(r) BY <1>5, <2>1, <3>1 DEF RosterBookings
      <3>3. z.person = x /\ In(z, t) BY <2>1, <3>1 DEF In
      <3> QED BY <1>2, <3>2, <3>3 DEF Held
    <2>2. ASSUME t \in Held(RosterBookings(r), x, s) PROVE \E b : works(b, t)
      <3>1. PICK z \in RosterBookings(r) : z.person = x /\ In(z, t) BY <2>2 DEF Held
      <3>2. PICK b \in booked : /\ Work(b, r)
                                /\ z = [person |-> Owner(b.appointment), from |-> b.from,
                                        to |-> IF Open(b) THEN b.from ELSE b.to]
        BY <3>1 DEF RosterBookings
      <3>3. Owner(b.appointment) = x /\ b.from <= t /\ t < (IF Open(b) THEN b.from ELSE b.to)
        BY <3>1, <3>2 DEF In
      <3>4. ~ Open(b) /\ b.from <= t /\ t < b.to BY <1>1, <3>3
      <3> QED BY <3>2, <3>3, <3>4 DEF Work
    <2> QED BY <2>1, <2>2
  <1>7. ASSUME NEW t \in a .. c - 1 PROVE t \in Held(ChecklistBookings(r), x, s) <=> \E b : works(b, t)
    <2>1. ASSUME NEW b, works(b, t) PROVE t \in Held(ChecklistBookings(r), x, s)
      <3>1. PICK z : z = [person |-> Owner(b.appointment), from |-> b.from, to |-> b.to] OBVIOUS
      <3>2. z \in ChecklistBookings(r) BY <1>5, <2>1, <3>1 DEF ChecklistBookings
      <3>3. z.person = x /\ In(z, t) BY <2>1, <3>1 DEF In
      <3> QED BY <1>2, <3>2, <3>3 DEF Held
    <2>2. ASSUME t \in Held(ChecklistBookings(r), x, s) PROVE \E b : works(b, t)
      <3>1. PICK z \in ChecklistBookings(r) : z.person = x /\ In(z, t) BY <2>2 DEF Held
      <3>2. PICK b \in booked : /\ Work(b, r) /\ ~ Open(b)
                                /\ z = [person |-> Owner(b.appointment), from |-> b.from, to |-> b.to]
        BY <3>1 DEF ChecklistBookings
      <3>3. Owner(b.appointment) = x /\ b.from <= t /\ t < b.to BY <3>1, <3>2 DEF In
      <3> QED BY <3>2, <3>3 DEF Work
    <2> QED BY <2>1, <2>2
  <1>8. /\ There(r, s, x) \subseteq a .. c - 1 /\ Held(RosterBookings(r), x, s) \subseteq a .. c - 1
        /\ Held(ChecklistBookings(r), x, s) \subseteq a .. c - 1
    BY <1>2 DEF There, Held
  <1> HIDE DEF works
  <1> QED BY <1>4, <1>6, <1>7, <1>8

LEMMA ThereSummed ==
  ASSUME NEW r, NEW s, NEW P, IsFiniteSet(P)
  PROVE  MapThenSumSet(LAMBDA x : Cardinality(There(r, s, x)), P)
           = Sum(P, [x \in P |-> Cardinality(There(r, s, x))])
  <1>1. PICK w : w = [x \in P |-> Cardinality(There(r, s, x))] OBVIOUS
  <1>2. SumSolved(P, w) BY SumsAreSolved
  <1>3. PICK g : g = SumRule(P, w, g) BY <1>2 DEF SumSolved
  <1>4. \A c \in SUBSET P : c # {} => First(c) \in c BY DEF First
  <1>5. g = [c \in SUBSET P |-> IF c = {} THEN 0
                                 ELSE LET x == First(c) IN Cardinality(There(r, s, x)) + g[c \ {x}]]
    <2>1. \A c \in SUBSET P : g[c] = IF c = {} THEN 0 ELSE Cardinality(There(r, s, First(c))) + g[c \ {First(c)}]
      <3>1. SUFFICES ASSUME NEW c \in SUBSET P
                     PROVE  g[c] = IF c = {} THEN 0 ELSE Cardinality(There(r, s, First(c))) + g[c \ {First(c)}]
        OBVIOUS
      <3>2. /\ c = {} => g[c] = 0
            /\ c # {} => First(c) \in c /\ g[c] = w[First(c)] + g[c \ {First(c)}]
        BY <1>3, SumRuleAt
      <3>3. c # {} => w[First(c)] = Cardinality(There(r, s, First(c))) BY <1>1, <3>2
      <3> QED BY <3>2, <3>3
    <2>2. g = [c \in SUBSET P |-> g[c]] BY <1>3 DEF SumRule
    <2> QED BY <2>1, <2>2
  <1>6. PICK h : h = CHOOSE e : e = [c \in SUBSET P |-> IF c = {} THEN 0
                                 ELSE LET x == First(c) IN Cardinality(There(r, s, x)) + e[c \ {x}]]
    OBVIOUS
  <1>7. h = [c \in SUBSET P |-> IF c = {} THEN 0
                                 ELSE LET x == First(c) IN Cardinality(There(r, s, x)) + h[c \ {x}]]
    BY <1>5, <1>6, Zenon
  <1>8. h = SumRule(P, w, h)
    <2>1. \A c \in SUBSET P : h[c] = IF c = {} THEN 0 ELSE w[First(c)] + h[c \ {First(c)}] BY <1>1, <1>4, <1>7
    <2>2. h = [c \in SUBSET P |-> h[c]] BY <1>7
    <2>3. h = [c \in SUBSET P |-> IF c = {} THEN 0 ELSE w[First(c)] + h[c \ {First(c)}]] BY <2>1, <2>2
    <2> QED BY <2>3 DEF SumRule
  <1>9. Sum(P, w) = h[P] BY <1>8, <1>2, SolvedSum
  <1>10. MapThenSumSet(LAMBDA x : Cardinality(There(r, s, x)), P) = h[P]
    BY <1>6 DEF MapThenSumSet, MapThenFoldSet, First
  <1> QED BY <1>1, <1>9, <1>10

LEMMA CoverageHolds ==
  ASSUME BookedWell
  PROVE  CoverageIsExact
  <1> DEFINE page(r) == CoverageOf(RosterBookings(r), r)
             list(r) == CoverageOf(ChecklistBookings(r), r)
             mine(r) == {b \in booked : UnitsOver(Known(b)) = {r.unit}}
             there(r, s, x) == Cardinality(Spent(x, WorkKinds, mine(r)) \cap (s.from .. s.to - 1))
             present(r, s) == {x \in Person : 2 * there(r, s, x) >= s.to - s.from}
  <1>1. ASSUME NEW r \in Roster, NEW s \in r.shifts
        PROVE  /\ page(r)[s].planned = list(r)[s].planned /\ page(r)[s].actual = list(r)[s].actual
               /\ page(r)[s].actual = Cardinality(present(r, s))
               /\ page(r)[s].covered = MapThenSumSet(LAMBDA x : there(r, s, x), present(r, s))
    <2>1. PICK S, T : S = RosterBookings(r) /\ T = ChecklistBookings(r) OBVIOUS
    <2>2. StaffedBy(S, s, page(r)[s]) /\ StaffedBy(T, s, list(r)[s]) BY <2>1, BookingsAreStays, CountedBy
    <2>3. \A x : Held(S, x, s) = There(r, s, x) /\ Held(T, x, s) = There(r, s, x) BY <2>1, ThereIs
    <2>4. PICK P : P = {x \in Person : 2 * Cardinality(There(r, s, x)) >= s.to - s.from} OBVIOUS
    <2>5. Present(S, s) = P /\ Present(T, s) = P BY <2>3, <2>4 DEF Present
    <2>6. [x \in P |-> Cardinality(Held(S, x, s))] = [x \in P |-> Cardinality(There(r, s, x))] BY <2>3
    <2>7. /\ IsFiniteSet(P) /\ page(r)[s].planned = list(r)[s].planned
          /\ page(r)[s].actual = Cardinality(P) /\ list(r)[s].actual = Cardinality(P)
          /\ page(r)[s].covered = Sum(P, [x \in P |-> Cardinality(There(r, s, x))])
      BY <2>2, <2>5, <2>6 DEF StaffedBy
    <2>8. page(r)[s].covered = MapThenSumSet(LAMBDA x : Cardinality(There(r, s, x)), P) BY <2>7, ThereSummed
    <2>9. present(r, s) = P BY <2>4 DEF There
    <2>10. MapThenSumSet(LAMBDA x : there(r, s, x), P) = MapThenSumSet(LAMBDA x : Cardinality(There(r, s, x)), P)
      BY DEF There
    <2> QED BY <2>7, <2>8, <2>9, <2>10
  <1>2. ASSUME NEW r \in Roster PROVE Mismatched(list(r)) = Mismatched(page(r))
    <2>1. DOMAIN list(r) = r.shifts /\ DOMAIN page(r) = r.shifts BY DEF CoverageOf, Coverage
    <2> HIDE DEF list, page
    <2> QED BY <1>1, <2>1 DEF Mismatched
  <1> QED BY <1>1, <1>2 DEF CoverageIsExact

\* Whatever is booked and corrected: each shift is staffed by who worked half of it in the unit
\* of its roster, as its page and the checklist both say (plan-vs-actual.ts, -coverage.ts).
THEOREM CoverageStaysExact ==
  Spec => []CoverageIsExact
  <1>1. BookedWell => CoverageIsExact BY CoverageHolds
  <1> QED BY <1>1, BookingsStayWell, PTL

-----------------------------------------------------------------------------
(* Leave: intervals of days, the days of a term, and bijective images.      *)

Interval == [from : Int, to : Int]

LEMMA QuotientBounds ==
  ASSUME NEW x \in Int, NEW m \in Nat \ {0}, NEW d \in Int
  PROVE  /\ x \div m \in Int
         /\ x \div m <= d <=> x < (d + 1) * m
         /\ d <= x \div m <=> d * m <= x
  <1>1. x % m \in 0 .. m - 1 /\ x = m * (x \div m) + (x % m) /\ x \div m \in Int BY SMT
  <1>2. PICK q \in Int, r \in Int : q = x \div m /\ x = m * q + r /\ 0 <= r /\ r < m BY <1>1
  <1>3. q <= d => m * q <= m * d BY SMT
  <1>4. d + 1 <= q => m * (d + 1) <= m * q BY SMT
  <1>5. d <= q => m * d <= m * q BY SMT
  <1>6. q + 1 <= d => m * (q + 1) <= m * d BY SMT
  <1>7. m * (d + 1) = (d + 1) * m /\ m * d = d * m /\ m * (d + 1) = m * d + m /\ m * (q + 1) = m * q + m
    BY SMT
  <1>8. PICK a \in Int, b \in Int : a = m * q /\ b = m * d BY SMT
  <1>9. /\ q <= d => a <= b
        /\ d + 1 <= q => b + m <= a
        /\ d <= q => b <= a
        /\ q + 1 <= d => a + m <= b
        /\ x = a + r /\ (d + 1) * m = b + m /\ d * m = b
    BY <1>2, <1>3, <1>4, <1>5, <1>6, <1>7, <1>8
  <1>10. q <= d <=> x < b + m BY <1>2, <1>8, <1>9
  <1>11. d <= q <=> b <= x BY <1>2, <1>8, <1>9
  <1> QED BY <1>2, <1>9, <1>10, <1>11

LEMMA ClipIs ==
  ASSUME NEW i \in Interval, NEW j \in Interval
  PROVE  /\ Clip(i, j) \in Interval
         /\ \A d : d \in DaysOf(Clip(i, j)) <=> d \in DaysOf(i) /\ d \in DaysOf(j)
         /\ Clip(i, j).from >= i.from /\ Clip(i, j).from >= j.from
         /\ Clip(i, j).to <= i.to /\ Clip(i, j).to <= j.to
         /\ Clip(i, j) = [from |-> Max({i.from, j.from}), to |-> Min({i.to, j.to})]
  <1>1. i.from \in Int /\ i.to \in Int /\ j.from \in Int /\ j.to \in Int BY DEF Interval
  <1>2. PICK p \in Int, q \in Int, r \in Int, s \in Int : p = i.from /\ q = j.from /\ r = i.to /\ s = j.to
    BY <1>1
  <1>0. PICK a, b : a = Max({p, q}) /\ b = Min({r, s}) OBVIOUS
  <1>3. a \in Int /\ b \in Int /\ a = (IF p >= q THEN p ELSE q) /\ b = (IF r <= s THEN r ELSE s)
    BY <1>0, MaxOfTwo
  <1>4. PICK c : c = Clip(i, j) OBVIOUS
  <1>5. c = [from |-> a, to |-> b] BY <1>0, <1>2, <1>4 DEF Clip, Interval
  <1>6. c \in Interval /\ c.from = a /\ c.to = b BY <1>3, <1>5 DEF Interval
  <1>7. \A d : d \in a .. b <=> d \in i.from .. i.to /\ d \in j.from .. j.to BY <1>2, <1>3
  <1>8. c = [from |-> Max({i.from, j.from}), to |-> Min({i.to, j.to})] BY <1>0, <1>2, <1>5
  <1> QED BY <1>2, <1>3, <1>4, <1>6, <1>7, <1>8 DEF DaysOf

LEMMA DaysAreFinite ==
  ASSUME NEW i \in Interval, NEW S, S \subseteq DaysOf(i)
  PROVE  IsFiniteSet(S) /\ Cardinality(S) \in Nat
  <1>1. i.from \in Int /\ i.to \in Int /\ S \subseteq i.from .. i.to BY DEF Interval, DaysOf
  <1>2. PICK a \in Int, b \in Int : a = i.from /\ b = i.to BY <1>1
  <1> QED BY <1>1, <1>2, SubsetOfInterval

\* What tells elements apart keeps their number.
LEMMA SameNumber ==
  ASSUME NEW S, NEW f, IsFiniteSet(S), \A x, y \in S : f[x] = f[y] => x = y
  PROVE  IsFiniteSet({f[x] : x \in S}) /\ Cardinality({f[x] : x \in S}) = Cardinality(S)
  <1>1. PICK T : T = {f[x] : x \in S} OBVIOUS
  <1>2. IsFiniteSet(T) BY <1>1, Image
  <1>3. PICK g : g = [x \in S |-> f[x]] OBVIOUS
  <1>4. g \in [S -> T] /\ \A x, y \in S : g[x] = g[y] => x = y BY <1>1, <1>3
  <1>5. Cardinality(S) <= Cardinality(T) /\ Cardinality(S) \in Nat /\ Cardinality(T) \in Nat
    BY <1>2, <1>4, Smaller
  <1>6. PICK h : h = [t \in T |-> CHOOSE x \in S : f[x] = t] OBVIOUS
  <1>7. \A t \in T : h[t] \in S /\ f[h[t]] = t BY <1>1, <1>6
  <1>8. h \in [T -> S] /\ \A t, u \in T : h[t] = h[u] => t = u BY <1>6, <1>7
  <1>9. Cardinality(T) <= Cardinality(S) BY <1>8, Smaller
  <1> QED BY <1>1, <1>2, <1>5, <1>9

LEMMA MoreThanOne ==
  ASSUME NEW S, IsFiniteSet(S)
  PROVE  /\ Cardinality(S) > 1 <=> \E x, y \in S : x # y
         /\ Cardinality(S) = 1 <=> \E x : S = {x}
         /\ Cardinality(S) \in Nat
         /\ Cardinality(S) = 0 <=> S = {}
  <1>1. Cardinality(S) \in Nat /\ (Cardinality(S) = 0 <=> S = {}) BY FS_CardinalityType, FS_EmptySet
  <1>2. ASSUME NEW x \in S, NEW y \in S, x # y PROVE Cardinality(S) > 1
    <2>1. {x, y} \in SUBSET S OBVIOUS
    <2>2. IsFiniteSet({x}) /\ Cardinality({x}) = 1 /\ y \notin {x} BY <1>2, FS_Singleton
    <2>3. Cardinality({x} \cup {y}) = 2 /\ {x} \cup {y} = {x, y} BY <2>2, FS_AddElement
    <2>4. Cardinality({x, y}) <= Cardinality(S) BY <2>1, FS_Subset
    <2> QED BY <1>1, <2>3, <2>4
  <1>3. \A x : Cardinality({x}) = 1 BY FS_Singleton
  <1>4. S = {} \/ (\E x : S = {x}) \/ \E x, y \in S : x # y OBVIOUS
  <1>5. \A x : S = {x} => Cardinality(S) = 1 /\ ~ \E y, z \in S : y # z BY <1>3
  <1>6. PICK n \in Nat : n = Cardinality(S) BY <1>1
  <1>7. /\ S = {} <=> n = 0
        /\ (\E x, y \in S : x # y) => n > 1
        /\ (\E x : S = {x}) => n = 1 /\ ~ \E y, z \in S : y # z
    BY <1>1, <1>2, <1>5, <1>6
  <1>8. n > 1 <=> \E x, y \in S : x # y BY <1>4, <1>7
  <1>9. n = 1 <=> \E x : S = {x}
    <2>1. ASSUME n = 1 PROVE \E x : S = {x}
      <3>1. S # {} /\ ~ (n > 1) BY <1>7, <2>1
      <3>2. ~ \E x, y \in S : x # y BY <1>7, <3>1
      <3>3. PICK x \in S : TRUE BY <3>1
      <3>4. S = {x} BY <3>2, <3>3
      <3> QED BY <3>4
    <2>2. ASSUME NEW x, S = {x} PROVE n = 1 BY <1>7, <2>2
    <2> QED BY <2>1, <2>2
  <1> QED BY <1>1, <1>6, <1>8, <1>9

-----------------------------------------------------------------------------
(* Leave: what is paid from what was carried over.                          *)

Uses == [date : Int, days : Nat]
Rules == [annual : Nat, prorated : BOOLEAN, carries : BOOLEAN, maxCarried : Nat, deadline : Int]
Accounts == [left : Int, used : Int, forfeited : Int, expired : BOOLEAN]
Opening(c) == [left |-> c, used |-> 0, forfeited |-> 0, expired |-> FALSE]
Price(u) == 100 * u.days
Paid(S) == Sum(S, [u \in S |-> Price(u)])

LEMMA PriceSummed ==
  ASSUME NEW P, IsFiniteSet(P)
  PROVE  MapThenSumSet(LAMBDA x : Price(x), P) = Sum(P, [x \in P |-> Price(x)])
  <1>1. PICK w : w = [x \in P |-> Price(x)] OBVIOUS
  <1>2. SumSolved(P, w) BY SumsAreSolved
  <1>3. PICK g : g = SumRule(P, w, g) BY <1>2 DEF SumSolved
  <1>4. \A c \in SUBSET P : c # {} => First(c) \in c BY DEF First
  <1>5. g = [c \in SUBSET P |-> IF c = {} THEN 0 ELSE LET x == First(c) IN Price(x) + g[c \ {x}]]
    <2>1. \A c \in SUBSET P : g[c] = IF c = {} THEN 0 ELSE Price(First(c)) + g[c \ {First(c)}]
      <3>1. SUFFICES ASSUME NEW c \in SUBSET P
                     PROVE  g[c] = IF c = {} THEN 0 ELSE Price(First(c)) + g[c \ {First(c)}]
        OBVIOUS
      <3>2. /\ c = {} => g[c] = 0
            /\ c # {} => First(c) \in c /\ g[c] = w[First(c)] + g[c \ {First(c)}]
        BY <1>3, SumRuleAt
      <3>3. c # {} => w[First(c)] = Price(First(c)) BY <1>1, <3>2
      <3> QED BY <3>2, <3>3
    <2>2. g = [c \in SUBSET P |-> g[c]] BY <1>3 DEF SumRule
    <2> QED BY <2>1, <2>2
  <1>6. PICK h : h = CHOOSE e : e = [c \in SUBSET P |-> IF c = {} THEN 0
                                                        ELSE LET x == First(c) IN Price(x) + e[c \ {x}]]
    OBVIOUS
  <1>7. h = [c \in SUBSET P |-> IF c = {} THEN 0 ELSE LET x == First(c) IN Price(x) + h[c \ {x}]]
    BY <1>5, <1>6, Zenon
  <1>8. h = SumRule(P, w, h)
    <2>1. \A c \in SUBSET P : h[c] = IF c = {} THEN 0 ELSE w[First(c)] + h[c \ {First(c)}] BY <1>1, <1>4, <1>7
    <2>2. h = [c \in SUBSET P |-> h[c]] BY <1>7
    <2>3. h = [c \in SUBSET P |-> IF c = {} THEN 0 ELSE w[First(c)] + h[c \ {First(c)}]] BY <2>1, <2>2
    <2> QED BY <2>3 DEF SumRule
  <1>9. Sum(P, w) = h[P] BY <1>8, <1>2, SolvedSum
  <1>10. MapThenSumSet(LAMBDA x : Price(x), P) = h[P] BY <1>6 DEF MapThenSumSet, MapThenFoldSet, First
  <1> QED BY <1>1, <1>9, <1>10

LEMMA PaidIs ==
  ASSUME NEW S, IsFiniteSet(S), S \subseteq Uses
  PROVE  Paid(S) \in Nat /\ (S = {} => Paid(S) = 0)
  <1>1. PICK w : w = [u \in S |-> Price(u)] OBVIOUS
  <1>2. \A u \in S : w[u] \in Nat BY <1>1 DEF Price, Uses
  <1>3. Sum(S, w) \in Nat BY <1>2, NaturalSum
  <1>4. S = {} => Sum(S, w) = 0 BY SumStep
  <1> QED BY <1>1, <1>3, <1>4 DEF Paid

LEMMA OneMorePaid ==
  ASSUME NEW S, IsFiniteSet(S), S \subseteq Uses, NEW e \in Uses, e \notin S
  PROVE  Paid(S \cup {e}) = Paid(S) + Price(e)
  <1>1. PICK T : T = S \cup {e} OBVIOUS
  <1>2. PICK w : w = [u \in T |-> Price(u)] OBVIOUS
  <1>3. \A u \in T : w[u] \in Int BY <1>1, <1>2 DEF Price, Uses
  <1>4. Weighs(S \cup {e}, w) BY <1>1, <1>3 DEF Weighs
  <1>5. Sum(S \cup {e}, w) = Sum(S, w) + w[e] BY <1>4, SumAdded
  <1>6. PICK v : v = [u \in S |-> Price(u)] OBVIOUS
  <1>7. \A u \in S : v[u] = w[u] BY <1>1, <1>2, <1>6
  <1>8. Sum(S, v) = Sum(S, w) BY <1>7, SameWeights
  <1>9. w[e] = Price(e) BY <1>1, <1>2
  <1> QED BY <1>1, <1>2, <1>5, <1>6, <1>8, <1>9 DEF Paid

LEMMA DeadlineIs ==
  ASSUME NEW y \in Int, NEW rule \in Rules
  PROVE  Deadline(y, rule) \in Int /\ rule.carries \in BOOLEAN /\ rule.maxCarried \in Nat /\ rule.annual \in Nat
  <1>1. Months \in Nat /\ MonthDays \in Nat BY CalendarHasDays
  <1>2. PICK d \in Int : d = y * (Months * MonthDays) BY <1>1, SMT
  <1> QED BY <1>2 DEF Deadline, Year, YearDays, Rules

\* What is carried over pays for all leave, or for the leave up to the deadline.
Timely(y, rule, u) == rule.carries => u.date <= Deadline(y, rule)
Lapses(y, rule, u) == rule.carries /\ u.date > Deadline(y, rule)
Least(a, b) == IF a <= b THEN a ELSE b
Stands(c, e, x, acc) ==
  /\ acc \in Accounts /\ acc.expired = x /\ acc.used = Least(c, e)
  /\ acc.left = (IF x THEN 0 ELSE c - Least(c, e))
  /\ acc.forfeited = (IF x THEN c - Least(c, e) ELSE 0)

LEMMA SpendIs ==
  ASSUME NEW y \in Int, NEW rule \in Rules, NEW acc \in Accounts, NEW u \in Uses
  PROVE  Spend(y, rule, acc, u) \in Accounts
  <1>1. PICK left \in Int : left = IF rule.carries /\ ~ acc.expired /\ u.date > Deadline(y, rule) THEN 0 ELSE acc.left
    BY DEF Accounts
  <1>2. PICK p \in Int : p = 100 * u.days BY DEF Uses
  <1>3. PICK take \in Int : take = Min({left, p}) BY MaxOfTwo
  <1>4. acc.left \in Int /\ acc.used \in Int /\ acc.forfeited \in Int /\ acc.expired \in BOOLEAN
    BY DEF Accounts
  <1>5. Spend(y, rule, acc, u) =
          [left |-> left - take, used |-> acc.used + take,
           forfeited |-> acc.forfeited + (IF rule.carries /\ ~ acc.expired /\ u.date > Deadline(y, rule) THEN acc.left ELSE 0),
           expired |-> acc.expired \/ (rule.carries /\ ~ acc.expired /\ u.date > Deadline(y, rule))]
    BY <1>1, <1>2, <1>3 DEF Spend
  <1>6. (acc.expired \/ (rule.carries /\ ~ acc.expired /\ u.date > Deadline(y, rule))) \in BOOLEAN
    BY <1>4, DeadlineIs
  <1> QED BY <1>4, <1>5, <1>6 DEF Accounts

LEMMA SpendStands ==
  ASSUME NEW y \in Int, NEW rule \in Rules, NEW acc, NEW u \in Uses, NEW c \in Nat, NEW e \in Nat, NEW x \in BOOLEAN,
         Stands(c, e, x, acc), x => Lapses(y, rule, u)
  PROVE  Stands(c, IF Timely(y, rule, u) THEN e + Price(u) ELSE e, x \/ Lapses(y, rule, u), Spend(y, rule, acc, u))
  <1>1. PICK d \in Int, t \in Int, p \in Nat : d = Deadline(y, rule) /\ t = u.date /\ p = 100 * u.days
    BY DeadlineIs DEF Uses
  <1>2. PICK k \in BOOLEAN : k = rule.carries BY DeadlineIs
  <1>3. PICK a \in Int : a = acc.left BY DEF Stands, Accounts
  <1>4. /\ acc \in Accounts /\ acc.expired = x /\ acc.used = Least(c, e)
        /\ a = (IF x THEN 0 ELSE c - Least(c, e)) /\ acc.forfeited = (IF x THEN c - Least(c, e) ELSE 0)
    BY <1>3 DEF Stands
  <1>5. PICK left \in Int : left = IF k /\ ~ x /\ t > d THEN 0 ELSE a OBVIOUS
  <1>6. PICK take : take = Min({left, p}) OBVIOUS
  <1>7. take \in Int /\ take = (IF left <= p THEN left ELSE p)
    <2>1. p \in Int OBVIOUS
    <2>2. Min({left, p}) \in Int /\ Min({left, p}) = IF left <= p THEN left ELSE p
      BY <1>5, <2>1, MaxOfTwo, Zenon
    <2> QED BY <1>6, <2>2
  <1>8. PICK b : b = Spend(y, rule, acc, u) OBVIOUS
  <1>9. b = [left |-> left - take, used |-> acc.used + take,
             forfeited |-> acc.forfeited + (IF k /\ ~ x /\ t > d THEN a ELSE 0),
             expired |-> x \/ (k /\ ~ x /\ t > d)]
    BY <1>1, <1>2, <1>3, <1>4, <1>5, <1>6, <1>8 DEF Spend
  <1>10. b \in Accounts BY <1>4, <1>8, SpendIs
  <1>11. PICK l : l = Least(c, e) OBVIOUS
  <1>12. l \in Int /\ l = IF c <= e THEN c ELSE e BY <1>11 DEF Least
  <1>13. PICK f, z : f = (IF k => t <= d THEN e + p ELSE e) /\ z = (x \/ (k /\ t > d)) OBVIOUS
  <1>14. PICK m : m = Least(c, f) OBVIOUS
  <1>15. f \in Nat /\ m = (IF c <= f THEN c ELSE f) BY <1>13, <1>14 DEF Least
  <1>16. x => k /\ t > d BY <1>1, <1>2 DEF Lapses
  <1>17. /\ b.used = acc.used + take /\ b.left = left - take
         /\ b.forfeited = acc.forfeited + (IF k /\ ~ x /\ t > d THEN a ELSE 0)
         /\ b.expired = (x \/ (k /\ ~ x /\ t > d))
    BY <1>9
  <1>18. acc.used = l /\ a = (IF x THEN 0 ELSE c - l) /\ acc.forfeited = (IF x THEN c - l ELSE 0)
    BY <1>4, <1>11
  <1>19. CASE k /\ t > d
    <2>0. k /\ ~ (t <= d) /\ t > d BY <1>1, <1>19
    <2>1. f = e /\ z = TRUE /\ m = l
      <3>1. z = TRUE BY <1>13, <2>0, Zenon
      <3>2. f = e BY <1>13, <2>0, Zenon
      <3> QED BY <1>12, <1>15, <3>1, <3>2
    <2>2. left = 0 /\ take = 0 BY <1>5, <1>7, <1>18, <1>19
    <2>3. b.used = m /\ b.left = 0 /\ b.forfeited = c - m /\ b.expired = TRUE
      <3>1. b.expired = TRUE
        <4>1. CASE x BY <1>17, <4>1, Zenon
        <4>2. CASE ~ x BY <1>17, <2>0, <4>2, Zenon
        <4> QED BY <4>1, <4>2
      <3>2. CASE x
        <4>1. a = 0 /\ acc.forfeited = c - l /\ b.forfeited = acc.forfeited + 0 BY <1>17, <1>18, <3>2
        <4> QED BY <1>12, <1>17, <1>18, <2>1, <2>2, <3>1, <4>1
      <3>3. CASE ~ x
        <4>1. a = c - l /\ acc.forfeited = 0 /\ b.forfeited = acc.forfeited + a BY <1>17, <1>18, <2>0, <3>3
        <4> QED BY <1>12, <1>17, <1>18, <2>1, <2>2, <3>1, <4>1
      <3> QED BY <3>2, <3>3
    <2>4. Stands(c, f, z, b) BY <1>10, <1>14, <2>1, <2>3 DEF Stands
    <2> QED BY <1>1, <1>2, <1>8, <1>13, <2>4 DEF Timely, Lapses, Price
  <1>20. CASE ~ (k /\ t > d)
    <2>1. f = e + p /\ z = FALSE /\ x = FALSE BY <1>13, <1>16, <1>20
    <2>2. left = c - l BY <1>5, <1>18, <1>20, <2>1
    <2>3. l + take = m BY <1>7, <1>12, <1>15, <2>1, <2>2
    <2>4. b.used = m /\ b.left = c - m /\ b.forfeited = 0 /\ b.expired = FALSE
      BY <1>7, <1>12, <1>15, <1>17, <1>18, <1>20, <2>1, <2>2, <2>3
    <2>5. Stands(c, f, z, b) BY <1>10, <1>14, <2>1, <2>4 DEF Stands
    <2> QED BY <1>1, <1>2, <1>8, <1>13, <2>5 DEF Timely, Lapses, Price
  <1> QED BY <1>19, <1>20

Allotted(y, rule, c, s) == FoldLeft(LAMBDA acc, u : Spend(y, rule, acc, u), Opening(c), s)

LEMMA SpendingKeeps ==
  ASSUME NEW y \in Int, NEW rule \in Rules, NEW c \in Int
  PROVE  /\ \A v \in Accounts, i \in Uses : Spend(y, rule, v, i) \in Accounts
         /\ Opening(c) \in Accounts
  <1>1. \A v \in Accounts, i \in Uses : Spend(y, rule, v, i) \in Accounts BY SpendIs
  <1>2. Opening(c) \in Accounts BY DEF Opening, Accounts
  <1> QED BY <1>1, <1>2

AllottedBy(y, rule, c, n, s, f) ==
  /\ f \in [0 .. n -> Accounts] /\ f[0] = Opening(c) /\ Allotted(y, rule, c, s) = f[n]
  /\ \A k \in 1 .. n : f[k] = Spend(y, rule, f[k - 1], s[k])

LEMMA AllottedSteps ==
  ASSUME NEW y \in Int, NEW rule \in Rules, NEW c \in Int, NEW n \in Nat, NEW s \in [1 .. n -> Uses]
  PROVE  \E f : AllottedBy(y, rule, c, n, s, f)
  <1>1. PICK G : G = [p \in Accounts \X Uses |-> Spend(y, rule, p[1], p[2])] OBVIOUS
  <1>2. \A v \in Accounts, i \in Uses : Spend(y, rule, v, i) \in Accounts /\ G[<<v, i>>] = Spend(y, rule, v, i)
    BY <1>1, SpendingKeeps
  <1>3. G \in [Accounts \X Uses -> Accounts] /\ Opening(c) \in Accounts
    <2>1. \A p \in Accounts \X Uses : Spend(y, rule, p[1], p[2]) \in Accounts BY <1>2
    <2> QED BY <1>1, <2>1, SpendingKeeps
  <1>4. PICK g \in [SUBSET (1 .. n) -> Accounts] : g = FoldRule(1 .. n, G, Opening(c), s, g)
    <2>1. PICK A, a : A = Accounts /\ a = Opening(c) OBVIOUS
    <2>2. G \in [A \X Uses -> A] /\ a \in A BY <1>3, <2>1
    <2>3. FoldFound(n, G, A, a, s) BY <2>2, FoldExists
    <2> QED BY <2>1, <2>3 DEF FoldFound
  <1>5. ASSUME NEW t \in SUBSET (1 .. n)
        PROVE  g[t] = IF t = {} THEN Opening(c) ELSE Spend(y, rule, g[t \ {Max(t)}], s[Max(t)])
    <2>1. g[t] = IF t = {} THEN Opening(c) ELSE G[<<g[t \ {Max(t)}], s[Max(t)]>>] BY <1>4, Zenon DEF FoldRule
    <2>2. CASE t # {}
      <3>1. Max(t) \in 1 .. n /\ t \ {Max(t)} \in SUBSET (1 .. n) BY <2>2, Positions
      <3>2. s[Max(t)] \in Uses /\ g[t \ {Max(t)}] \in Accounts BY <3>1
      <3> QED BY <1>2, <2>1, <2>2, <3>2
    <2> QED BY <2>1, <2>2
  <1>6. g = [t \in SUBSET (1 .. n) |-> IF t = {} THEN Opening(c) ELSE LET x == Max(t) IN Spend(y, rule, g[t \ {x}], s[x])]
    BY <1>5
  <1>7. DOMAIN s = 1 .. n OBVIOUS
  <1>8. PICK h : h = CHOOSE e : e = [t \in SUBSET (1 .. n) |->
                                       IF t = {} THEN Opening(c) ELSE LET x == Max(t) IN Spend(y, rule, e[t \ {x}], s[x])]
    OBVIOUS
  <1>9. h = [t \in SUBSET (1 .. n) |-> IF t = {} THEN Opening(c) ELSE LET x == Max(t) IN Spend(y, rule, h[t \ {x}], s[x])]
    BY <1>6, <1>8, Zenon
  <1>10. Allotted(y, rule, c, s) = h[1 .. n] BY <1>7, <1>8 DEF Allotted, FoldLeft, MapThenFoldSet
  <1>11. h[1 .. 0] = Opening(c) /\ \A k \in 1 .. n : h[1 .. k] = Spend(y, rule, h[1 .. k - 1], s[k])
    <2>1. \A t \in SUBSET (1 .. n) : h[t] = IF t = {} THEN Opening(c) ELSE Spend(y, rule, h[t \ {Max(t)}], s[Max(t)])
      BY <1>9, Zenon
    <2>2. h[1 .. 0] = Opening(c) BY <2>1, Positions
    <2>3. ASSUME NEW k \in 1 .. n PROVE h[1 .. k] = Spend(y, rule, h[1 .. k - 1], s[k])
      <3>1. Max(1 .. k) = k /\ (1 .. k) \ {k} = 1 .. k - 1 /\ 1 .. k \in SUBSET (1 .. n) /\ 1 .. k # {}
        BY Positions
      <3>2. h[1 .. k] = Spend(y, rule, h[(1 .. k) \ {Max(1 .. k)}], s[Max(1 .. k)]) BY <2>1, <3>1, Zenon
      <3> QED BY <3>1, <3>2, Zenon
    <2> QED BY <2>2, <2>3
  <1>12. PICK T : T = {k \in 0 .. n : h[1 .. k] \in Accounts} OBVIOUS
  <1>13. 0 .. n \subseteq T
    <2>1. 0 \in T
      <3>1. 0 \in 0 .. n /\ h[1 .. 0] \in Accounts BY <1>3, <1>11
      <3> QED BY <1>12, <3>1
    <2>2. ASSUME NEW k \in 0 .. n - 1, k \in T PROVE k + 1 \in T
      <3>1. k + 1 \in 1 .. n /\ (k + 1) - 1 = k /\ k + 1 \in 0 .. n OBVIOUS
      <3>2. h[1 .. k + 1] = Spend(y, rule, h[1 .. k], s[k + 1]) /\ h[1 .. k] \in Accounts /\ s[k + 1] \in Uses
        BY <1>11, <1>12, <2>2, <3>1
      <3> QED BY <1>2, <1>12, <3>1, <3>2
    <2> QED BY <2>1, <2>2, CountingUp
  <1>14. PICK f : f = [k \in 0 .. n |-> h[1 .. k]] OBVIOUS
  <1>15. f \in [0 .. n -> Accounts] BY <1>12, <1>13, <1>14
  <1>16. f[0] = Opening(c) /\ Allotted(y, rule, c, s) = f[n] BY <1>10, <1>11, <1>14
  <1>17. ASSUME NEW k \in 1 .. n PROVE f[k] = Spend(y, rule, f[k - 1], s[k])
    <2>1. k \in 0 .. n /\ k - 1 \in 0 .. n OBVIOUS
    <2> QED BY <1>11, <1>14, <2>1
  <1> QED BY <1>15, <1>16, <1>17 DEF AllottedBy

LEMMA AllottedIs ==
  ASSUME NEW y \in Int, NEW rule \in Rules, NEW c \in Nat, NEW n \in Nat, NEW s \in [1 .. n -> Uses],
         \A i, j \in 1 .. n : i < j => s[i].date < s[j].date
  PROVE  \E x \in BOOLEAN : /\ Stands(c, Paid({u \in {s[i] : i \in 1 .. n} : Timely(y, rule, u)}), x, Allotted(y, rule, c, s))
                            /\ x <=> \E i \in 1 .. n : Lapses(y, rule, s[i])
  <1>1. PICK f : AllottedBy(y, rule, c, n, s, f) BY AllottedSteps
  <1>2. /\ f \in [0 .. n -> Accounts] /\ f[0] = Opening(c) /\ Allotted(y, rule, c, s) = f[n]
        /\ \A k \in 1 .. n : f[k] = Spend(y, rule, f[k - 1], s[k])
    BY <1>1 DEF AllottedBy
  <1> DEFINE first(k) == {u \in {s[i] : i \in 1 .. k} : Timely(y, rule, u)}
             over(k) == \E i \in 1 .. k : Lapses(y, rule, s[i])
  <1>3. PICK T : T = {k \in 0 .. n : Stands(c, Paid(first(k)), over(k), f[k])} OBVIOUS
  <1>4. 0 \in T
    <2>1. 1 .. 0 = {} OBVIOUS
    <2>2. first(0) = {} /\ over(0) = FALSE BY <2>1
    <2>3. IsFiniteSet({}) /\ {} \subseteq Uses BY FS_EmptySet
    <2>4. Paid(first(0)) = 0 BY <2>2, <2>3, PaidIs
    <2>5. PICK e, x : e = Paid(first(0)) /\ x = over(0) OBVIOUS
    <2>6. e = 0 /\ x = FALSE BY <2>2, <2>4, <2>5
    <2>7. Stands(c, e, x, f[0])
      <3>1. Least(c, 0) = 0 BY DEF Least
      <3>2. PICK o : o = Opening(c) OBVIOUS
      <3>3. o \in Accounts BY <3>2 DEF Opening, Accounts
      <3>4. o.expired = FALSE /\ o.used = 0 /\ o.left = c /\ o.forfeited = 0 BY <3>2 DEF Opening
      <3>5. Stands(c, 0, FALSE, o) BY <3>1, <3>3, <3>4 DEF Stands
      <3> QED BY <1>2, <2>6, <3>2, <3>5, Zenon
    <2> HIDE DEF first, over
    <2> QED BY <1>3, <2>5, <2>7
  <1>5. ASSUME NEW k \in 0 .. n - 1, k \in T PROVE k + 1 \in T
    <2>1. k + 1 \in 1 .. n /\ k + 1 \in 0 .. n /\ (k + 1) - 1 = k /\ 1 .. k + 1 = (1 .. k) \cup {k + 1}
      OBVIOUS
    <2>2. PICK u \in Uses : u = s[k + 1] BY <2>1
    <2>3. f[k + 1] = Spend(y, rule, f[k], u) BY <1>2, <2>1, <2>2
    <2>4. \A i \in 1 .. k : i \in 1 .. n /\ s[i] \in Uses /\ s[i].date < u.date BY <2>1, <2>2
    <2>5. over(k) => Lapses(y, rule, u)
      <3>1. ASSUME NEW i \in 1 .. k, Lapses(y, rule, s[i]) PROVE Lapses(y, rule, u)
        <4>1. PICK a \in Int, b \in Int, d \in Int : a = s[i].date /\ b = u.date /\ d = Deadline(y, rule)
          BY <2>4, DeadlineIs DEF Uses
        <4>2. a < b /\ rule.carries /\ a > d BY <2>4, <3>1, <4>1 DEF Lapses
        <4> QED BY <4>1, <4>2 DEF Lapses
      <3> QED BY <3>1
    <2>6. IsFiniteSet(first(k)) /\ first(k) \subseteq Uses /\ u \notin first(k)
      <3>1. IsFiniteSet(1 .. k) BY FS_Interval
      <3>2. IsFiniteSet({s[i] : i \in 1 .. k}) BY <3>1, Image
      <3>3. IsFiniteSet(first(k)) BY <3>2, FS_Subset
      <3>4. \A v \in first(k) : v \in Uses /\ v.date < u.date BY <2>4
      <3>5. u.date \in Int BY DEF Uses
      <3>6. u \notin first(k) BY <3>4, <3>5
      <3> QED BY <3>3, <3>4, <3>6
    <2>7. first(k + 1) = IF Timely(y, rule, u) THEN first(k) \cup {u} ELSE first(k)
      <3>1. {s[i] : i \in 1 .. k + 1} = {s[i] : i \in 1 .. k} \cup {u} BY <2>1, <2>2
      <3> QED BY <3>1
    <2>8. over(k + 1) <=> over(k) \/ Lapses(y, rule, u) BY <2>1, <2>2
    <2>9. over(k) \in BOOLEAN /\ over(k + 1) \in BOOLEAN OBVIOUS
    <2>10. Stands(c, Paid(first(k)), over(k), f[k]) BY <1>3, <1>5
    <2> HIDE DEF first, over
    <2>11. PICK S : S = first(k) OBVIOUS
    <2>12. PICK e : e = Paid(S) OBVIOUS
    <2>13. e \in Nat BY <2>6, <2>11, <2>12, PaidIs
    <2>14. PICK x \in BOOLEAN : x = over(k) BY <2>9
    <2>15. PICK acc : acc = f[k] OBVIOUS
    <2>16. Stands(c, e, x, acc) /\ (x => Lapses(y, rule, u)) BY <2>5, <2>10, <2>11, <2>12, <2>14, <2>15
    <2>17. Stands(c, IF Timely(y, rule, u) THEN e + Price(u) ELSE e, x \/ Lapses(y, rule, u), Spend(y, rule, acc, u))
      BY <2>13, <2>16, SpendStands
    <2>18. Paid(first(k + 1)) = IF Timely(y, rule, u) THEN e + Price(u) ELSE e
      <3>1. Paid(S \cup {u}) = Paid(S) + Price(u) BY <2>6, <2>11, OneMorePaid
      <3> QED BY <2>7, <2>11, <2>12, <3>1, Zenon
    <2>19. over(k + 1) = (x \/ Lapses(y, rule, u)) BY <2>8, <2>9, <2>14
    <2>20. Stands(c, Paid(first(k + 1)), over(k + 1), f[k + 1]) BY <2>3, <2>15, <2>17, <2>18, <2>19, Zenon
    <2> QED BY <1>3, <2>1, <2>20, Zenon
  <1>6. n \in T
    <2>1. 0 .. n \subseteq T BY <1>4, <1>5, CountingUp
    <2> QED BY <2>1
  <1>7. over(n) \in BOOLEAN OBVIOUS
  <1>8. Stands(c, Paid(first(n)), over(n), f[n]) BY <1>3, <1>6
  <1> QED BY <1>2, <1>7, <1>8

Allocates(y, rule, c, asOf, l, z) ==
  z.used = l /\ z.forfeited = IF rule.carries /\ asOf > Deadline(y, rule) THEN c - l ELSE 0

LEMMA AllocateIs ==
  ASSUME NEW y \in Int, NEW rule \in Rules, NEW c \in Nat, NEW asOf \in Int,
         NEW S, IsFiniteSet(S), S \subseteq Uses, \A u \in S : u.date <= asOf,
         \A u, v \in S : u.date = v.date => u = v,
         NEW l, l = Least(c, Paid({u \in S : Timely(y, rule, u)}))
  PROVE  Allocates(y, rule, c, asOf, l, Allocate(y, rule, c, S, asOf))
  <1>1. PICK rel : rel = {p \in S \X S : p[1].date < p[2].date} OBVIOUS
  <1>2. \A u \in S : u.date \in Int BY DEF Uses
  <1>3. \A u, v \in S : <<u, v>> \in rel <=> u.date < v.date BY <1>1
  <1>4. Orders(S, rel) BY <1>2, <1>3 DEF Orders
  <1>5. PICK q : q = InOrder(S, rel) OBVIOUS
  <1>6. InOrderOf(S, rel, q) BY <1>4, <1>5, InOrderIs
  <1>7. PICK n \in Nat : n = Cardinality(S) BY <1>6 DEF InOrderOf
  <1>8. q \in [1 .. n -> S] /\ \A u \in S : \E i \in 1 .. n : q[i] = u BY <1>6, <1>7 DEF InOrderOf
  <1>9. \A i, j \in 1 .. n : i < j => q[i].date < q[j].date BY <1>3, <1>6, <1>7, <1>8 DEF InOrderOf
  <1>10. q \in [1 .. n -> Uses] /\ S = {q[i] : i \in 1 .. n} BY <1>8
  <1>11. PICK x \in BOOLEAN : /\ Stands(c, Paid({u \in {q[i] : i \in 1 .. n} : Timely(y, rule, u)}), x, Allotted(y, rule, c, q))
                              /\ x <=> \E i \in 1 .. n : Lapses(y, rule, q[i])
    BY <1>9, <1>10, AllottedIs
  <1>12. PICK a : a = Allotted(y, rule, c, q) OBVIOUS
  <1>13. /\ a \in Accounts /\ a.expired = x /\ a.used = l
         /\ a.left = (IF x THEN 0 ELSE c - l) /\ a.forfeited = (IF x THEN c - l ELSE 0)
    BY <1>10, <1>11, <1>12, Zenon DEF Stands
  <1>14. PICK d \in Int, k \in BOOLEAN : d = Deadline(y, rule) /\ k = rule.carries BY DeadlineIs
  <1>15. x => k /\ asOf > d
    <2>1. ASSUME NEW i \in 1 .. n, Lapses(y, rule, q[i]) PROVE k /\ asOf > d
      <3>1. PICK b \in Int : b = q[i].date /\ b <= asOf BY <1>2, <1>8
      <3>2. k /\ b > d BY <1>14, <2>1, <3>1 DEF Lapses
      <3> QED BY <3>1, <3>2
    <2> QED BY <1>11, <2>1
  <1>16. Allocate(y, rule, c, S, asOf) =
           IF k /\ ~ a.expired /\ asOf > d THEN [a EXCEPT !.left = 0, !.forfeited = @ + a.left] ELSE a
    BY <1>1, <1>5, <1>12, <1>14 DEF Allocate, Allotted, Opening
  <1>17. PICK z : z = Allocate(y, rule, c, S, asOf) OBVIOUS
  <1>18. l \in Int BY <1>13 DEF Accounts
  <1>19. CASE k /\ asOf > d
    <2>1. CASE x
      <3>1. z = a BY <1>13, <1>16, <1>17, <2>1
      <3>2. a.forfeited = c - l BY <1>13, <2>1
      <3> QED BY <1>13, <1>14, <1>17, <1>19, <3>1, <3>2 DEF Allocates
    <2>2. CASE ~ x
      <3>1. z = [a EXCEPT !.left = 0, !.forfeited = @ + a.left] BY <1>13, <1>16, <1>17, <1>19, <2>2
      <3>2. a.forfeited = 0 /\ a.left = c - l BY <1>13, <2>2
      <3>3. z.used = l /\ z.forfeited = c - l BY <1>13, <1>18, <3>1, <3>2 DEF Accounts
      <3> QED BY <1>14, <1>17, <1>19, <3>3 DEF Allocates
    <2> QED BY <2>1, <2>2
  <1>20. CASE ~ (k /\ asOf > d)
    <2>1. ~ x BY <1>15, <1>20
    <2>2. z = a BY <1>16, <1>17, <1>20, Zenon
    <2>3. a.forfeited = 0 BY <1>13, <2>1
    <2> QED BY <1>13, <1>14, <1>17, <1>20, <2>2, <2>3 DEF Allocates
  <1> QED BY <1>19, <1>20

LEMMA CarriedOverIs ==
  ASSUME NEW rule \in Rules, NEW prior \in Int
  PROVE  /\ CarriedOver(prior, rule) \in Nat
         /\ prior >= 0 => CarriedOver(prior, rule) <= prior
         /\ CarriedOver(prior, rule) = Least(IF prior >= 0 THEN prior ELSE 0, 100 * rule.maxCarried)
  <1>1. PICK m \in Nat : m = 100 * rule.maxCarried BY DEF Rules
  <1>2. PICK p \in Nat : p = IF prior >= 0 THEN prior ELSE 0 OBVIOUS
  <1>3. 0 \in Int /\ p \in Int /\ m \in Int OBVIOUS
  <1>4. Max({prior, 0}) = p BY <1>2, <1>3, MaxOfTwo
  <1>5. Min({p, m}) = IF p <= m THEN p ELSE m BY <1>3, MaxOfTwo, Zenon
  <1>6. CarriedOver(prior, rule) = Least(p, m) BY <1>1, <1>4, <1>5 DEF CarriedOver, Least
  <1>7. Least(p, m) \in Nat /\ Least(p, m) <= p BY DEF Least
  <1> QED BY <1>1, <1>2, <1>6, <1>7

\* What an answer b of the ledger says of the leave S that it has seen.
LedgerSays(y, asOf, e, rule, prior, S, adj, b) ==
  LET c == CarriedOver(prior, rule)
      l == Least(c, Paid({u \in S : Timely(y, rule, u)}))
      f == IF rule.carries /\ asOf > Deadline(y, rule) THEN c - l ELSE 0 IN
  /\ b \in Answers
  /\ b.carriedOver = c /\ b.used = Paid(S) /\ b.carriedOverUsed = l /\ b.forfeited = f
  /\ b.remaining = e + c + adj - f - Paid(S)

\* Leave of different dates.
Dated(U) == IsFiniteSet(U) /\ U \subseteq Uses /\ \A u, v \in U : u.date = v.date => u = v

LEMMA LedgerIs ==
  ASSUME NEW y \in Int, NEW asOf \in Int, NEW e \in Int, NEW rule \in Rules, NEW prior \in Int,
         NEW U, Dated(U), NEW adj \in Int
  PROVE  LedgerSays(y, asOf, e, rule, prior, Visible(U, y, asOf), adj, Ledger(y, asOf, e, rule, prior, U, adj))
  <1>1. PICK S : S = Visible(U, y, asOf) OBVIOUS
  <1>2. /\ IsFiniteSet(S) /\ S \subseteq Uses /\ \A u \in S : u.date <= asOf
        /\ \A u, v \in S : u.date = v.date => u = v
    <2>1. S \subseteq U /\ \A u \in S : u.date <= asOf BY <1>1 DEF Visible
    <2> QED BY <2>1, FS_Subset DEF Dated
  <1>3. PICK c \in Nat : c = CarriedOver(prior, rule) BY CarriedOverIs
  <1>4. PICK P : P = {u \in S : Timely(y, rule, u)} OBVIOUS
  <1>5. IsFiniteSet(P) /\ P \subseteq Uses BY <1>2, <1>4, FS_Subset
  <1>6. PICK a \in Nat, p \in Nat : a = Paid(S) /\ p = Paid(P) BY <1>2, <1>5, PaidIs
  <1>7. PICK l : l = Least(c, p) OBVIOUS
  <1>8. l \in Nat BY <1>7 DEF Least
  <1>9. PICK g : g = Allocate(y, rule, c, S, asOf) OBVIOUS
  <1>10. l = Least(c, Paid({u \in S : Timely(y, rule, u)})) BY <1>4, <1>6, <1>7
  <1>11. g.used = l /\ g.forfeited = IF rule.carries /\ asOf > Deadline(y, rule) THEN c - l ELSE 0
    <2>1. Allocates(y, rule, c, asOf, l, Allocate(y, rule, c, S, asOf)) BY <1>2, <1>10, AllocateIs, Zenon
    <2> QED BY <1>9, <2>1 DEF Allocates
  <1>12. PICK f \in Int : f = IF rule.carries /\ asOf > Deadline(y, rule) THEN c - l ELSE 0
    <2>1. c - l \in Int /\ 0 \in Int BY <1>8
    <2> QED BY <2>1, Zenon
  <1>13. MapThenSumSet(LAMBDA x : Price(x), S) = a BY <1>2, <1>6, PriceSummed DEF Paid
  <1>14. MapThenSumSet(LAMBDA u : 100 * u.days, S) = a BY <1>13 DEF Price
  <1>15. PICK b : b = Ledger(y, asOf, e, rule, prior, U, adj) OBVIOUS
  <1>16. b = [entitlement |-> e, carriedOver |-> c, used |-> a, carriedOverUsed |-> l, forfeited |-> f,
              adjustments |-> adj, remaining |-> e + c + adj - f - a]
    BY <1>1, <1>3, <1>9, <1>11, <1>12, <1>14, <1>15 DEF Ledger
  <1>17. b \in Answers BY <1>8, <1>16 DEF Answers
  <1>18. /\ b.carriedOver = c /\ b.used = a /\ b.carriedOverUsed = l /\ b.forfeited = f
         /\ b.remaining = e + c + adj - f - a
    BY <1>16
  <1> QED BY <1>1, <1>3, <1>6, <1>10, <1>12, <1>15, <1>17, <1>18 DEF LedgerSays

-----------------------------------------------------------------------------
(* Leave: what always holds of the rows, which a record r holds like before. *)

Sayings == {n.is : n \in NextTerm \cup FirstTerm}
Standing == {"REQUESTED", "APPROVED"}
Decisions == {"NONE", "REQUESTED", "APPROVED", "REJECTED", "CANCELLED"}

\* No two terms share an instant.
TermsWell(r) ==
  /\ IsFiniteSet(r.terms) /\ r.terms \subseteq [from : Nat, to : Nat, is : Sayings]
  /\ \A t \in r.terms : t.from < t.to /\ t.to <= OpenEnd
  /\ \A t \in r.terms : \A u \in r.terms : t # u => t.to <= u.from \/ u.to <= t.from
\* Leave that is asked for or approved does not overlap.
LeaveWell(r) ==
  /\ r.leave \in [Leave -> Decisions]
  /\ \A k \in Leave : \A l \in Leave :
       k # l /\ r.leave[k] \in Standing /\ r.leave[l] \in Standing => k.to < l.from \/ l.to < k.from
  /\ r.adjusted \in [Years -> Int]
AccountWell(r) == TermsWell(r) /\ LeaveWell(r)

LEMMA OpenEndIs ==
  /\ OpenEnd \in Nat \ {0} /\ YearDays \in Nat \ {0}
  <1>1. Months \in Nat \ {0} /\ MonthDays \in Nat \ {0} /\ NumYears \in Nat \ {0} /\ Parts \in Nat \ {0}
    BY CalendarHasDays, BoundsOfLeave
  <1>2. YearDays \in Nat \ {0} BY <1>1, SMT DEF YearDays
  <1>3. PICK m \in Nat \ {0} : m = NumYears * YearDays BY <1>1, <1>2, SMT
  <1>4. OpenEnd = m * Parts BY <1>3 DEF OpenEnd
  <1>5. m * Parts \in Nat \ {0} BY <1>1, <1>3, SMT
  <1>6. OpenEnd \in Nat \ {0} BY <1>4, <1>5
  <1> QED BY <1>2, <1>6

LEMMA NewTermsAre ==
  ASSUME NEW n \in NextTerm \cup FirstTerm
  PROVE  n \in [from : Nat, to : Nat, is : Sayings] /\ n.from < n.to /\ n.to <= OpenEnd
  <1>1. n \in [from : Nat, to : Nat, is : {n.is}] /\ n.from < n.to /\ n.to <= OpenEnd BY TermsLast
  <1>2. n.is \in Sayings BY DEF Sayings
  <1> QED BY <1>1, <1>2

LEMMA FirstRowsAreWell ==
  ASSUME AccountInit
  PROVE  AccountWell(Rows) /\ AccountTypeOK
  <1>2. PICK t \in FirstTerm : terms = {t} BY DEF AccountInit
  <1>3. t \in [from : Nat, to : Nat, is : Sayings] /\ t.from < t.to /\ t.to <= OpenEnd BY NewTermsAre
  <1>4. IsFiniteSet(terms) BY <1>2, FS_Singleton
  <1>5. Rows.terms = terms /\ Rows.leave = leave /\ Rows.adjusted = adjusted BY DEF Rows
  <1>6. TermsWell(Rows) BY <1>2, <1>3, <1>4, <1>5 DEF TermsWell
  <1>7. leave \in [Leave -> Decisions] /\ \A l \in Leave : leave[l] \in Standing => l \in FirstLeave
    <2>1. leave = [l \in Leave |-> IF l \in FirstLeave /\ LeaveResolves(l) THEN "APPROVED" ELSE "NONE"]
      BY DEF AccountInit
    <2> QED BY <2>1 DEF Decisions, Standing
  <1>8. adjusted \in [Years -> Int] BY DEF AccountInit
  <1>9. LeaveWell(Rows) BY <1>5, <1>7, <1>8, LeaveIsProper DEF LeaveWell
  <1>10. AccountTypeOK
    <2>1. \A u \in terms : u.from \in 0 .. u.to /\ u.to \in 0 .. OpenEnd BY <1>2, <1>3, OpenEndIs
    <2>2. accountWritten \in 0 .. MaxAccountWrites BY BoundsOfLeave DEF AccountInit
    <2> QED BY <1>7, <1>8, <2>1, <2>2 DEF AccountTypeOK, Decisions
  <1> QED BY <1>6, <1>9, <1>10 DEF AccountWell

\* A term that is appended ends the one that would have gone on.
LEMMA AppendedIsWell ==
  ASSUME NEW r, TermsWell(r), NEW n \in NextTerm, NEW t \in r.terms, {u \in r.terms : n.from < u.to} = {t}, t.from < n.from,
         NEW s, s.terms = (r.terms \ {t}) \cup {[t EXCEPT !.to = n.from], n}
  PROVE  TermsWell(s)
  <1>1. PICK a, b : a = [t EXCEPT !.to = n.from] /\ b = n OBVIOUS
  <1>2. n.from \in Nat /\ n.to \in Nat /\ n.from < n.to /\ n.to <= OpenEnd /\ OpenEnd \in Nat
        /\ b \in [from : Nat, to : Nat, is : Sayings] /\ b.from = n.from /\ b.to = n.to
    BY <1>1, NewTermsAre, OpenEndIs
  <1>3. t \in [from : Nat, to : Nat, is : Sayings] BY DEF TermsWell
  <1>4. a \in [from : Nat, to : Nat, is : Sayings] /\ a.from = t.from /\ a.to = n.from BY <1>1, <1>2, <1>3
  <1>5. s.terms = (r.terms \ {t}) \cup {a, b} BY <1>1
  <1>6. IsFiniteSet(s.terms)
    <2>1. IsFiniteSet(r.terms \ {t}) /\ IsFiniteSet({a}) /\ IsFiniteSet({b})
      BY FS_Difference, FS_Singleton DEF TermsWell
    <2>2. IsFiniteSet((r.terms \ {t}) \cup {a}) BY <2>1, FS_Union
    <2>3. IsFiniteSet(((r.terms \ {t}) \cup {a}) \cup {b}) BY <2>1, <2>2, FS_Union
    <2> QED BY <1>5, <2>3
  <1>7. \A u \in r.terms : u \in [from : Nat, to : Nat, is : Sayings] /\ u.from < u.to /\ u.to <= OpenEnd
    BY DEF TermsWell
  <1>8. \A u \in r.terms \ {t} : u.to <= t.from
    <2>1. SUFFICES ASSUME NEW u \in r.terms \ {t} PROVE u.to <= t.from OBVIOUS
    <2>2. u.to <= t.from \/ t.to <= u.from BY DEF TermsWell
    <2>3. ~ (n.from < u.to) /\ n.from < t.to OBVIOUS
    <2> QED BY <1>2, <1>3, <1>7, <2>2, <2>3
  <1>9. \A u \in s.terms : u \in [from : Nat, to : Nat, is : Sayings] /\ u.from < u.to /\ u.to <= OpenEnd
    <2>1. n.from < t.to /\ t.to <= OpenEnd /\ t.to \in Nat BY <1>3, <1>7
    <2> QED BY <1>2, <1>4, <1>5, <1>7, <2>1
  <1>10. ASSUME NEW u \in s.terms, NEW v \in s.terms, u # v PROVE u.to <= v.from \/ v.to <= u.from
    <2>1. PICK f \in Nat : f = t.from /\ f < n.from BY <1>3
    <2>2. \A w \in s.terms : w \in r.terms \ {t} \/ w = a \/ w = b BY <1>5
    <2>3. \A w \in r.terms \ {t} : w.to <= f /\ w.to \in Nat BY <1>7, <1>8, <2>1
    <2>4. CASE u \in r.terms \ {t} /\ v \in r.terms \ {t} BY <1>10, <2>4 DEF TermsWell
    <2>5. CASE u \in r.terms \ {t} /\ v \in {a, b} BY <1>2, <1>4, <2>1, <2>3, <2>5
    <2>6. CASE u \in {a, b} /\ v \in r.terms \ {t} BY <1>2, <1>4, <2>1, <2>3, <2>6
    <2>7. CASE u \in {a, b} /\ v \in {a, b} BY <1>2, <1>4, <1>10, <2>7
    <2> QED BY <2>2, <2>4, <2>5, <2>6, <2>7
  <1> QED BY <1>6, <1>9, <1>10 DEF TermsWell

LEMMA StepsKeepRowsWell ==
  ASSUME AccountWell(Rows), AccountTypeOK, [AccountNext]_accountVars
  PROVE  AccountWell(Rows)' /\ AccountTypeOK'
  <1>1. /\ Rows.terms = terms /\ Rows.leave = leave /\ Rows.adjusted = adjusted
        /\ Rows'.terms = terms' /\ Rows'.leave = leave' /\ Rows'.adjusted = adjusted'
    BY DEF Rows
  <1>2. terms' = terms => TermsWell(Rows') BY <1>1 DEF AccountWell, TermsWell
  <1>3. leave' = leave /\ adjusted' = adjusted => LeaveWell(Rows') BY <1>1 DEF AccountWell, LeaveWell
  <1>4. accountWritten' = accountWritten \/ Commits => accountWritten' \in 0 .. MaxAccountWrites
    BY BoundsOfLeave DEF Commits, AccountTypeOK
  <1>5. /\ leave \in [Leave -> Decisions] /\ adjusted \in [Years -> Int]
        /\ \A k \in Leave : \A l \in Leave :
             k # l /\ leave[k] \in Standing /\ leave[l] \in Standing => k.to < l.from \/ l.to < k.from
    BY <1>1 DEF AccountWell, LeaveWell
  <1>6. TermsWell(Rows') => \A t \in terms' : t.from \in 0 .. t.to /\ t.to \in 0 .. OpenEnd
    <2>1. ASSUME TermsWell(Rows'), NEW t \in terms' PROVE t.from \in 0 .. t.to /\ t.to \in 0 .. OpenEnd
      <3>1. t \in [from : Nat, to : Nat, is : Sayings] /\ t.from < t.to /\ t.to <= OpenEnd
        BY <1>1, <2>1 DEF TermsWell
      <3> QED BY <3>1, OpenEndIs
    <2> QED BY <2>1
  <1>7. ASSUME TermsWell(Rows'), LeaveWell(Rows'), accountWritten' = accountWritten \/ Commits
        PROVE  AccountWell(Rows)' /\ AccountTypeOK'
    <2>1. accountWritten' \in 0 .. MaxAccountWrites BY <1>4, <1>7
    <2>2. leave' \in [Leave -> Decisions] /\ adjusted' \in [Years -> Int] BY <1>1, <1>7 DEF LeaveWell
    <2>3. \A t \in terms' : t.from \in 0 .. t.to /\ t.to \in 0 .. OpenEnd BY <1>6, <1>7
    <2> QED BY <1>7, <2>1, <2>2, <2>3 DEF AccountWell, AccountTypeOK, Decisions
  <1>8. TermsWell(Rows) /\ LeaveWell(Rows) BY DEF AccountWell
  <1>9. ASSUME NEW l \in Leave, NEW status \in Decisions, leave' = [leave EXCEPT ![l] = status], adjusted' = adjusted,
               status \in Standing => \A o \in Leave : leave[o] \in Standing => o = l \/ o.to < l.from \/ l.to < o.from
        PROVE  LeaveWell(Rows')
    <2>1. leave' \in [Leave -> Decisions] BY <1>5, <1>9
    <2>2. leave'[l] = status /\ \A o \in Leave : o # l => leave'[o] = leave[o] BY <1>5, <1>9
    <2>3. ASSUME NEW j \in Leave, NEW k \in Leave, j # k, leave'[j] \in Standing, leave'[k] \in Standing
          PROVE  j.to < k.from \/ k.to < j.from
      <3>1. CASE j = l BY <1>9, <2>2, <2>3, <3>1
      <3>2. CASE k = l BY <1>9, <2>2, <2>3, <3>2
      <3>3. CASE j # l /\ k # l BY <1>5, <2>2, <2>3, <3>3
      <3> QED BY <3>1, <3>2, <3>3
    <2> QED BY <1>1, <1>5, <1>9, <2>1, <2>3 DEF LeaveWell
  <1>10. ASSUME NEW l \in Leave, AskForLeave(l) PROVE AccountWell(Rows)' /\ AccountTypeOK'
    <2>1. ASSUME NEW o \in Leave, leave[o] \in Standing PROVE o.to < l.from \/ l.to < o.from
      <3>1. DaysOf(o) \cap DaysOf(l) = {} BY <1>10, <2>1 DEF AskForLeave, Standing
      <3>2. PICK a \in Nat, b \in Nat, c \in Nat, d \in Nat : a = o.from /\ b = o.to /\ c = l.from /\ d = l.to
        BY LeaveIsProper
      <3>3. a <= b /\ c <= d BY <3>2, LeaveIsProper
      <3>4. (a .. b) \cap (c .. d) = {} BY <3>1, <3>2 DEF DaysOf
      <3>5. b < c \/ d < a
        <4>1. SUFFICES ASSUME ~ (b < c), ~ (d < a) PROVE FALSE OBVIOUS
        <4>2. (IF a <= c THEN c ELSE a) \in (a .. b) \cap (c .. d) BY <3>3, <4>1
        <4> QED BY <3>4, <4>2
      <3> QED BY <3>2, <3>5
    <2>2. /\ leave' = [leave EXCEPT ![l] = "REQUESTED"] /\ terms' = terms /\ adjusted' = adjusted /\ Commits
      BY <1>10 DEF AskForLeave
    <2>3. LeaveWell(Rows') BY <1>9, <2>1, <2>2 DEF Decisions
    <2> QED BY <1>2, <1>7, <1>8, <2>2, <2>3
  <1>11. ASSUME NEW l \in Leave, CancelLeave(l) PROVE AccountWell(Rows)' /\ AccountTypeOK'
    <2>1. /\ leave' = [leave EXCEPT ![l] = "CANCELLED"] /\ terms' = terms /\ adjusted' = adjusted /\ Commits
      BY <1>11 DEF CancelLeave
    <2>2. LeaveWell(Rows') BY <1>9, <2>1 DEF Decisions, Standing
    <2> QED BY <1>2, <1>7, <1>8, <2>1, <2>2
  <1>12. ASSUME NEW l \in Leave, NEW status \in {"APPROVED", "REJECTED"}, DecideLeave(l, status)
         PROVE  AccountWell(Rows)' /\ AccountTypeOK'
    <2>1. /\ leave' = [leave EXCEPT ![l] = status] /\ terms' = terms /\ adjusted' = adjusted /\ Commits
          /\ leave[l] \in Standing
      BY <1>12 DEF DecideLeave, Standing
    <2>2. \A o \in Leave : leave[o] \in Standing => o = l \/ o.to < l.from \/ l.to < o.from BY <1>5, <2>1
    <2>3. LeaveWell(Rows') BY <1>9, <2>1, <2>2 DEF Decisions
    <2> QED BY <1>2, <1>7, <1>8, <2>1, <2>3
  <1>13. ASSUME NEW y \in Years, NEW delta \in Delta, AdjustLeave(y, delta) PROVE AccountWell(Rows)' /\ AccountTypeOK'
    <2>1. /\ adjusted' = [adjusted EXCEPT ![y] = @ + delta] /\ terms' = terms /\ leave' = leave /\ Commits
      BY <1>13 DEF AdjustLeave
    <2>2. adjusted' \in [Years -> Int]
      <3>1. adjusted[y] \in Int /\ delta \in Int BY <1>5, AdjustmentsAreAmounts
      <3>2. PICK e \in Int : e = adjusted[y] + delta BY <3>1
      <3> QED BY <1>5, <2>1, <3>2
    <2>3. LeaveWell(Rows') BY <1>1, <1>5, <2>1, <2>2 DEF LeaveWell
    <2> QED BY <1>2, <1>7, <1>8, <2>1, <2>3
  <1>14. ASSUME NEW n \in NextTerm, AppendTerm(n) PROVE AccountWell(Rows)' /\ AccountTypeOK'
    <2>1. PICK t \in terms : /\ {u \in terms : n.from < u.to} = {t} /\ t.from < n.from
                             /\ terms' = (terms \ {t}) \cup {[t EXCEPT !.to = n.from], n}
      BY <1>14 DEF AppendTerm
    <2>2. leave' = leave /\ adjusted' = adjusted /\ Commits BY <1>14 DEF AppendTerm
    <2>3. PICK r, s : r = Rows /\ s = Rows' OBVIOUS
    <2>4. TermsWell(r) /\ t \in r.terms /\ {u \in r.terms : n.from < u.to} = {t} BY <1>1, <1>8, <2>1, <2>3
    <2>5. s.terms = (r.terms \ {t}) \cup {[t EXCEPT !.to = n.from], n} BY <1>1, <2>1, <2>3
    <2>6. TermsWell(s) BY <2>1, <2>4, <2>5, AppendedIsWell
    <2> QED BY <1>3, <1>7, <1>8, <2>2, <2>3, <2>6
  <1>15. CASE UNCHANGED accountVars
    <2>1. terms' = terms /\ leave' = leave /\ adjusted' = adjusted /\ accountWritten' = accountWritten
      BY <1>15 DEF accountVars
    <2> QED BY <1>2, <1>3, <1>7, <1>8, <2>1
  <1> QED BY <1>10, <1>11, <1>12, <1>13, <1>14, <1>15 DEF AccountNext

LEMMA RowsStayWell ==
  AccountSpec => [](AccountWell(Rows) /\ AccountTypeOK)
  BY FirstRowsAreWell, StepsKeepRowsWell, PTL DEF AccountSpec

\* The rows of an account have their types, for any terms, leave and adjustments.
THEOREM AccountTyped ==
  AccountSpec => []AccountTypeOK
  BY RowsStayWell, PTL

-----------------------------------------------------------------------------
(* Leave: the balance as a function of the rows.                            *)

TermsOn(r, d) == {t \in r.terms : t.from < (d + 1) * Parts /\ t.to > d * Parts}
TermsWithin(r, i) == {t \in r.terms : TermDays(t).from <= i.to /\ TermDays(t).to >= i.from}
Approved(r) == {l \in Leave : r.leave[l] = "APPROVED"}
Cut(y, l, t) == Clip(Clip(l, Bounds(y)), TermDays(t))
Worked(y, x) == WorkingDays(Cut(y, x[1], x[2]), x[2].is)
Pieces(r, y) == {x \in Approved(r) \X TermsWithin(r, Bounds(y)) : Worked(y, x) # {}}
Used(y, x) == [date |-> Cut(y, x[1], x[2]).from, days |-> Cardinality(Worked(y, x))]
UsageOf(r, y) == {Used(y, x) : x \in Pieces(r, y)}
Part(y, t) == Segment(t, Clip(TermDays(t), Bounds(y)))
Shares(r, y) == {Part(y, t) : t \in TermsWithin(r, Bounds(y))}
PoliciesOf(r, y) == {t.is.policy : t \in TermsWithin(r, Bounds(y))} \ {Nothing}
YearOf(r, y, asOf, prior) ==
  IF Cardinality(PoliciesOf(r, y)) > 1 THEN Refused
  ELSE AssignmentLedger(y, asOf, Employed, Shares(r, y), PoliciesOf(r, y), prior, UsageOf(r, y), r.adjusted[y])
RestOf(b) == IF b = Refused THEN Refused ELSE Max({b.remaining, 0})
LeftIn(r, y) == IF y < 0 \/ DaysOf(Bounds(y)) = {} THEN 0 ELSE RestOf(YearOf(r, y, Year(y).to, 0))
BalanceOf(r, y, asOf) ==
  IF LeftIn(r, y - 1) = Refused THEN Refused ELSE YearOf(r, y, asOf, LeftIn(r, y - 1))

LEMMA BalanceNow ==
  /\ \A d : TermsOn(Rows, d) = Touching([from |-> d, to |-> d])
  /\ \A y : LeftOf(y) = LeftIn(Rows, y)
  /\ \A y, asOf : Balance(y, asOf) = BalanceOf(Rows, y, asOf)
  /\ \A y : TermsIn(Bounds(y)) = TermsWithin(Rows, Bounds(y))
  <1>1. Rows.terms = terms /\ Rows.leave = leave /\ Rows.adjusted = adjusted BY DEF Rows
  <1>2. \A i : TermsIn(i) = TermsWithin(Rows, i) BY <1>1 DEF TermsIn, TermsWithin
  <1>3. Approved(Rows) = {l \in Leave : leave[l] = "APPROVED"} BY <1>1 DEF Approved
  <1>4. \A y : Usage(y) = UsageOf(Rows, y) BY <1>2, <1>3 DEF Usage, UsageOf, Used, Pieces, Worked, Cut
  <1>5. \A y, asOf, prior : YearLedger(y, asOf, prior) = YearOf(Rows, y, asOf, prior)
    BY <1>1, <1>2, <1>4 DEF YearLedger, YearOf, PoliciesOf, Shares, Part
  <1>6. \A y : LeftOf(y) = LeftIn(Rows, y) BY <1>5 DEF LeftOf, LeftIn, RestOf
  <1>7. \A y, asOf : Balance(y, asOf) = BalanceOf(Rows, y, asOf) BY <1>5, <1>6 DEF Balance, BalanceOf
  <1>8. \A d : TermsOn(Rows, d) = Touching([from |-> d, to |-> d]) BY <1>1 DEF TermsOn, Touching
  <1> QED BY <1>2, <1>6, <1>7, <1>8


-----------------------------------------------------------------------------
(* Leave: the terms of the days of a year.                                  *)

LEMMA YearIs ==
  ASSUME NEW y \in Int
  PROVE  /\ Year(y) \in Interval /\ Year(y).from = y * YearDays /\ Year(y).to = (y + 1) * YearDays - 1
         /\ Bounds(y) \in Interval /\ Employed \in Interval
         /\ \A d : d \in DaysOf(Bounds(y)) <=> d \in DaysOf(Year(y)) /\ d \in DaysOf(Employed)
         /\ DaysOf(Bounds(y)) # {} => /\ Bounds(y).from <= Bounds(y).to
                                      /\ Bounds(y).from \in DaysOf(Bounds(y))
  <1>1. PICK n \in Nat \ {0} : n = YearDays BY OpenEndIs
  <1>2. y * n \in Int /\ (y + 1) * n - 1 \in Int OBVIOUS
  <1>3. Year(y) \in Interval /\ Year(y).from = y * YearDays /\ Year(y).to = (y + 1) * YearDays - 1
    BY <1>1, <1>2 DEF Year, Interval
  <1>4. Employed \in Interval BY TermsLast DEF Interval
  <1>5. PICK i \in Interval, j \in Interval : i = Employed /\ j = Year(y) BY <1>3, <1>4
  <1>6. Bounds(y) = Clip(i, j) BY <1>5 DEF Bounds
  <1>7. Clip(i, j) \in Interval /\ \A d : d \in DaysOf(Clip(i, j)) <=> d \in DaysOf(i) /\ d \in DaysOf(j)
    BY ClipIs
  <1>8. PICK b \in Interval : b = Bounds(y) BY <1>6, <1>7
  <1>9. DaysOf(b) # {} => b.from <= b.to /\ b.from \in DaysOf(b) BY DEF Interval, DaysOf
  <1> QED BY <1>3, <1>4, <1>5, <1>6, <1>7, <1>8, <1>9

LEMMA DaysOfTerm ==
  ASSUME NEW r, TermsWell(r), NEW t \in r.terms
  PROVE  /\ TermDays(t) \in Interval /\ TermDays(t).from <= TermDays(t).to
         /\ \A d \in Int : t \in TermsOn(r, d) <=> d \in DaysOf(TermDays(t))
  <1>1. PICK a \in Nat, z \in Nat : a = t.from /\ z = t.to /\ a < z BY DEF TermsWell
  <1>2. PICK m \in Nat \ {0} : m = Parts BY BoundsOfLeave
  <1>3. PICK e \in Int : e = z - 1 OBVIOUS
  <1>4. PICK p, q : p = a \div m /\ q = e \div m OBVIOUS
  <1>5. p \in Int /\ q \in Int BY <1>3, <1>4, QuotientBounds
  <1>6. TermDays(t) = [from |-> p, to |-> q] BY <1>1, <1>2, <1>3, <1>4 DEF TermDays
  <1>7. ASSUME NEW d \in Int PROVE /\ p <= d <=> a < (d + 1) * m
                                   /\ d <= q <=> d * m < z
    <2>1. a \div m <= d <=> a < (d + 1) * m BY QuotientBounds
    <2>2. d <= e \div m <=> d * m <= e BY QuotientBounds
    <2>3. PICK x \in Int : x = d * m OBVIOUS
    <2> QED BY <1>3, <1>4, <2>1, <2>2, <2>3
  <1>8. p <= q
    <2>1. p <= a \div m <=> p * m <= a BY <1>5, QuotientBounds
    <2>2. p * m \in Int /\ p * m <= a BY <1>4, <1>5, <2>1
    <2>3. p * m < z BY <1>1, <2>2
    <2> QED BY <1>5, <1>7, <2>3
  <1>9. ASSUME NEW d \in Int PROVE t \in TermsOn(r, d) <=> d \in p .. q
    <2>1. t \in TermsOn(r, d) <=> a < (d + 1) * m /\ z > d * m BY <1>1, <1>2 DEF TermsOn
    <2>2. z > d * m <=> d * m < z BY <1>1
    <2>3. t \in TermsOn(r, d) <=> p <= d /\ d <= q BY <1>7, <2>1, <2>2, Zenon
    <2> QED BY <1>5, <2>3
  <1> QED BY <1>5, <1>6, <1>8, <1>9 DEF Interval, DaysOf

\* The terms of the days of a year are those that it counts.
LEMMA TermsOfDays ==
  ASSUME NEW r, TermsWell(r), NEW y \in Years, DaysOf(Bounds(y)) # {}
  PROVE  /\ \A d \in DaysOf(Bounds(y)) : TermsOn(r, d) \subseteq TermsWithin(r, Bounds(y))
         /\ \A t \in TermsWithin(r, Bounds(y)) : \E d \in DaysOf(Bounds(y)) : t \in TermsOn(r, d)
         /\ TermsWithin(r, Bounds(y)) \subseteq r.terms /\ IsFiniteSet(TermsWithin(r, Bounds(y)))
  <1>0. y \in Int BY DEF Years
  <1>1. PICK b \in Interval : b = Bounds(y) BY <1>0, YearIs
  <1>2. b.from \in Int /\ b.to \in Int /\ b.from <= b.to /\ DaysOf(b) = b.from .. b.to
    BY <1>0, <1>1, YearIs DEF Interval, DaysOf
  <1>3. TermsWithin(r, b) \subseteq r.terms /\ IsFiniteSet(r.terms) BY DEF TermsWithin, TermsWell
  <1>4. IsFiniteSet(TermsWithin(r, b)) BY <1>3, FS_Subset
  <1>5. ASSUME NEW d \in DaysOf(b), NEW u \in TermsOn(r, d) PROVE u \in TermsWithin(r, b)
    <2>1. u \in r.terms BY DEF TermsOn
    <2>2. d \in DaysOf(TermDays(u)) /\ TermDays(u) \in Interval BY <1>2, <2>1, DaysOfTerm
    <2>3. TermDays(u).from <= b.to /\ TermDays(u).to >= b.from BY <1>2, <2>2 DEF DaysOf, Interval
    <2> QED BY <2>1, <2>3 DEF TermsWithin
  <1>6. ASSUME NEW t \in TermsWithin(r, b) PROVE \E d \in DaysOf(b) : t \in TermsOn(r, d)
    <2>1. t \in r.terms /\ TermDays(t).from <= b.to /\ TermDays(t).to >= b.from BY DEF TermsWithin
    <2>2. PICK p \in Int, q \in Int : p = TermDays(t).from /\ q = TermDays(t).to /\ p <= q
      BY <2>1, DaysOfTerm DEF Interval
    <2>3. PICK d \in Int : d = IF p >= b.from THEN p ELSE b.from BY <1>2
    <2>4. d \in b.from .. b.to /\ d \in p .. q BY <1>2, <2>1, <2>2, <2>3
    <2>5. t \in TermsOn(r, d) BY <2>1, <2>2, <2>4, DaysOfTerm DEF DaysOf
    <2> QED BY <1>2, <2>4, <2>5
  <1> QED BY <1>1, <1>3, <1>4, <1>5, <1>6

\* What says of a year what it entitles to: one term on each day.
Clear(r, y) == \A d \in DaysOf(Bounds(y)) : \E t : TermsOn(r, d) = {t}

LEMMA PartIs ==
  ASSUME NEW r, TermsWell(r), NEW y \in Years, DaysOf(Bounds(y)) # {}
  PROVE  /\ \A t \in TermsWithin(r, Bounds(y)) :
              /\ Part(y, t).from \in Int /\ Part(y, t).to \in Int /\ Part(y, t).hours = t.is.hours
              /\ Part(y, t).days = t.is.days /\ Part(y, t).rule = t.is.rule
              /\ \A d : d \in DaysOf(Part(y, t)) <=> d \in DaysOf(Bounds(y)) /\ t \in TermsOn(r, d)
         /\ \A t, u \in TermsWithin(r, Bounds(y)) : Part(y, t) = Part(y, u) => t = u
  <1>1. PICK b \in Interval : b = Bounds(y) BY YearIs DEF Years
  <1>2. TermsWithin(r, b) \subseteq r.terms BY DEF TermsWithin
  <1>3. ASSUME NEW t \in TermsWithin(r, b)
        PROVE  /\ Part(y, t).from \in Int /\ Part(y, t).to \in Int /\ Part(y, t).hours = t.is.hours
               /\ Part(y, t).days = t.is.days /\ Part(y, t).rule = t.is.rule /\ Part(y, t).since = t.from
               /\ \A d : d \in DaysOf(Part(y, t)) <=> d \in DaysOf(b) /\ t \in TermsOn(r, d)
    <2>1. PICK i \in Interval : i = TermDays(t) BY <1>2, DaysOfTerm
    <2>2. PICK c : c = Clip(i, b) OBVIOUS
    <2>3. c \in Interval /\ \A d : d \in DaysOf(c) <=> d \in DaysOf(i) /\ d \in DaysOf(b) BY <2>2, ClipIs
    <2>4. Part(y, t) = [from |-> c.from, to |-> c.to, since |-> t.from, hours |-> t.is.hours,
                        days |-> t.is.days, rule |-> t.is.rule]
      BY <1>1, <2>1, <2>2 DEF Part, Segment
    <2>5. DaysOf(Part(y, t)) = DaysOf(c) BY <2>4 DEF DaysOf
    <2>6. \A d \in Int : d \in DaysOf(i) <=> t \in TermsOn(r, d) BY <1>2, <2>1, DaysOfTerm
    <2>7. \A d \in DaysOf(b) : d \in Int BY DEF DaysOf, Interval
    <2>8. c.from \in Int /\ c.to \in Int BY <2>3 DEF Interval
    <2>9. \A d : d \in DaysOf(c) <=> d \in DaysOf(b) /\ t \in TermsOn(r, d) BY <2>3, <2>6, <2>7
    <2> QED BY <2>4, <2>5, <2>8, <2>9
  <1>4. ASSUME NEW t \in TermsWithin(r, b), NEW u \in TermsWithin(r, b), Part(y, t) = Part(y, u) PROVE t = u
    <2>1. t.from = u.from BY <1>3, <1>4
    <2>2. t \in r.terms /\ u \in r.terms BY <1>2
    <2>3. t.from \in Int /\ t.to \in Int /\ u.to \in Int /\ t.from < t.to /\ u.from < u.to
      BY <2>1, <2>2 DEF TermsWell
    <2>4. t # u => t.to <= u.from \/ u.to <= t.from BY <2>2 DEF TermsWell
    <2> QED BY <2>1, <2>3, <2>4
  <1> QED BY <1>1, <1>3, <1>4

LEMMA CoversIs ==
  ASSUME NEW r, TermsWell(r), NEW y \in Years, DaysOf(Bounds(y)) # {}
  PROVE  CoversOnce(Shares(r, y), Bounds(y)) <=> Clear(r, y)
  <1>1. PICK b \in Interval : b = Bounds(y) BY YearIs DEF Years
  <1>2. ASSUME NEW d \in DaysOf(b)
        PROVE  Cardinality({s \in Shares(r, y) : d \in DaysOf(s)}) = 1 <=> \E t : TermsOn(r, d) = {t}
    <2>1. PICK T : T = TermsOn(r, d) OBVIOUS
    <2>2. T \subseteq TermsWithin(r, b) /\ IsFiniteSet(T) BY <1>1, <2>1, TermsOfDays, FS_Subset
    <2>3. PICK f : f = [t \in T |-> Part(y, t)] OBVIOUS
    <2>4. {s \in Shares(r, y) : d \in DaysOf(s)} = {f[t] : t \in T}
      <3>1. \A t \in TermsWithin(r, b) : d \in DaysOf(Part(y, t)) <=> t \in T BY <1>1, <2>1, PartIs
      <3>2. Shares(r, y) = {Part(y, t) : t \in TermsWithin(r, b)} BY <1>1 DEF Shares
      <3> QED BY <2>2, <2>3, <3>1, <3>2
    <2>5. \A t, u \in T : f[t] = f[u] => t = u BY <1>1, <2>2, <2>3, PartIs
    <2>6. Cardinality({f[t] : t \in T}) = Cardinality(T) BY <2>2, <2>5, SameNumber
    <2>7. Cardinality(T) = 1 <=> \E t : T = {t} BY <2>2, MoreThanOne
    <2> QED BY <2>1, <2>4, <2>6, <2>7
  <1> QED BY <1>1, <1>2 DEF CoversOnce, Clear

-----------------------------------------------------------------------------
(* Leave: what a year entitles to, and when it says nothing.                *)

ShareBy(byHours, x) == x.rule.annual * (x.to - x.from + 1) * (IF byHours THEN x.hours ELSE Cardinality(x.days))

LEMMA SharesSummed ==
  ASSUME NEW byHours, NEW P, IsFiniteSet(P)
  PROVE  MapThenSumSet(LAMBDA x : ShareBy(byHours, x), P) = Sum(P, [x \in P |-> ShareBy(byHours, x)])
  <1>1. PICK w : w = [x \in P |-> ShareBy(byHours, x)] OBVIOUS
  <1>2. SumSolved(P, w) BY SumsAreSolved
  <1>3. PICK g : g = SumRule(P, w, g) BY <1>2 DEF SumSolved
  <1>4. \A c \in SUBSET P : c # {} => First(c) \in c BY DEF First
  <1>5. g = [c \in SUBSET P |-> IF c = {} THEN 0 ELSE LET x == First(c) IN ShareBy(byHours, x) + g[c \ {x}]]
    <2>1. \A c \in SUBSET P : g[c] = IF c = {} THEN 0 ELSE ShareBy(byHours, First(c)) + g[c \ {First(c)}]
      <3>1. SUFFICES ASSUME NEW c \in SUBSET P
                     PROVE  g[c] = IF c = {} THEN 0 ELSE ShareBy(byHours, First(c)) + g[c \ {First(c)}]
        OBVIOUS
      <3>2. /\ c = {} => g[c] = 0
            /\ c # {} => First(c) \in c /\ g[c] = w[First(c)] + g[c \ {First(c)}]
        BY <1>3, SumRuleAt
      <3>3. c # {} => w[First(c)] = ShareBy(byHours, First(c)) BY <1>1, <3>2
      <3> QED BY <3>2, <3>3
    <2>2. g = [c \in SUBSET P |-> g[c]] BY <1>3 DEF SumRule
    <2> QED BY <2>1, <2>2
  <1>6. PICK h : h = CHOOSE e : e = [c \in SUBSET P |-> IF c = {} THEN 0
                                                        ELSE LET x == First(c) IN ShareBy(byHours, x) + e[c \ {x}]]
    OBVIOUS
  <1>7. h = [c \in SUBSET P |-> IF c = {} THEN 0 ELSE LET x == First(c) IN ShareBy(byHours, x) + h[c \ {x}]]
    BY <1>5, <1>6, Zenon
  <1>8. h = SumRule(P, w, h)
    <2>1. \A c \in SUBSET P : h[c] = IF c = {} THEN 0 ELSE w[First(c)] + h[c \ {First(c)}] BY <1>1, <1>4, <1>7
    <2>2. h = [c \in SUBSET P |-> h[c]] BY <1>7
    <2>3. h = [c \in SUBSET P |-> IF c = {} THEN 0 ELSE w[First(c)] + h[c \ {First(c)}]] BY <2>1, <2>2
    <2> QED BY <2>3 DEF SumRule
  <1>9. Sum(P, w) = h[P] BY <1>8, <1>2, SolvedSum
  <1>10. MapThenSumSet(LAMBDA x : ShareBy(byHours, x), P) = h[P]
    BY <1>6 DEF MapThenSumSet, MapThenFoldSet, First
  <1> QED BY <1>1, <1>9, <1>10

LEMMA HundredthsIs ==
  ASSUME NEW n \in Int, NEW d \in Nat \ {0}
  PROVE  Hundredths(n, d) \in Int
  <1>1. PICK a \in Int, b \in Nat \ {0} : a = 200 * n + d /\ b = 2 * d OBVIOUS
  <1>2. a \div b \in Int BY QuotientBounds
  <1> QED BY <1>1, <1>2 DEF Hundredths

LEMMA EntitlementIs ==
  ASSUME NEW y \in Int, NEW hours \in Nat, NEW rule \in Rules
  PROVE  Entitlement(y, Employed, hours, rule) \in Int
  <1>1. PICK i \in Interval : i = Clip(Employed, Year(y)) BY YearIs DEF Bounds
  <1>2. PICK a \in Int, b \in Int : a = i.from /\ b = i.to BY DEF Interval
  <1>3. ASSUME NEW d \in Int PROVE MonthOf(d) \in Int
    <2>1. PICK n \in Nat \ {0}, m \in Nat \ {0} : n = YearDays /\ m = MonthDays BY OpenEndIs, CalendarHasDays
    <2>2. d % n \in Int BY SMT
    <2>3. PICK x \in Int : x = d % n BY <2>2
    <2>4. x \div m \in Int BY QuotientBounds
    <2> QED BY <2>1, <2>3, <2>4 DEF MonthOf
  <1>4. PICK p \in Int, q \in Int : p = MonthOf(a) /\ q = MonthOf(b) BY <1>3
  <1>5. CoveredMonths(y, Employed) = IF a > b THEN 0 ELSE q - p + 1 BY <1>1, <1>2, <1>4 DEF CoveredMonths
  <1>6. PICK k \in Int, m \in Nat \ {0}, f \in Nat \ {0} : k = CoveredMonths(y, Employed) /\ m = Months /\ f = FullTime
    BY <1>5, CalendarHasDays
  <1>7. PICK g \in Int : g = IF rule.prorated THEN CoveredMonths(y, Employed) ELSE Months BY <1>6
  <1>8. rule.annual \in Nat BY DEF Rules
  <1>9. PICK x \in Int : x = rule.annual * hours BY <1>8
  <1>10. x * g \in Int /\ f * m \in Nat \ {0} BY SMT
  <1>11. PICK z \in Int, w \in Nat \ {0} : z = x * g /\ w = f * m BY <1>10
  <1>12. Hundredths(z, w) \in Int BY HundredthsIs
  <1>13. Entitlement(y, Employed, hours, rule) = Hundredths(x * g, f * m) BY <1>6, <1>7, <1>9 DEF Entitlement
  <1> QED BY <1>11, <1>12, <1>13

LEMMA ShareIs ==
  ASSUME NEW x, x.rule \in Rules, x.from \in Int, x.to \in Int, x.hours \in Nat, x.days \subseteq 1 .. WeekDays, NEW h
  PROVE  ShareBy(h, x) \in Int
  <1>1. x.rule.annual \in Int /\ x.from \in Int /\ x.to \in Int /\ x.hours \in Int BY DEF Rules
  <1>2. Cardinality(x.days) \in Int
    <2>1. PICK a \in Int, b \in Int : a = 1 /\ b = WeekDays BY CalendarHasDays
    <2>2. PICK S : S = x.days OBVIOUS
    <2>3. S \subseteq a .. b BY <2>1, <2>2
    <2>4. Cardinality(S) \in Nat BY <2>3, SubsetOfInterval
    <2> QED BY <2>2, <2>4
  <1>3. PICK a \in Int, b \in Int, c \in Int :
          a = x.rule.annual /\ b = x.to - x.from + 1 /\ c = (IF h THEN x.hours ELSE Cardinality(x.days))
    BY <1>1, <1>2
  <1>4. a * b * c \in Int BY SMT
  <1>5. ShareBy(h, x) = a * b * c BY <1>3 DEF ShareBy
  <1> QED BY <1>4, <1>5

\* The shares of a year are divided once, after they are summed.
LEMMA SharedBySum ==
  ASSUME NEW P, IsFiniteSet(P), NEW policy
  PROVE  \E h \in BOOLEAN, n \in Nat \ {0} :
           /\ h <=> policy.basis = "WEEKLY_HOURS"
           /\ n = (IF policy.basis = "WEEKLY_HOURS" THEN FullTime ELSE PerWeek) * YearDays
           /\ Shared(P, policy) = Hundredths(Sum(P, [x \in P |-> ShareBy(h, x)]), n)
  <1> DEFINE h == policy.basis = "WEEKLY_HOURS"
  <1>1. h \in BOOLEAN /\ (h <=> policy.basis = "WEEKLY_HOURS") OBVIOUS
  <1>2. PICK m \in Nat \ {0}, f \in Nat \ {0} : m = YearDays /\ f = IF h THEN FullTime ELSE PerWeek
    BY OpenEndIs, CalendarHasDays
  <1>3. PICK n : n = (IF policy.basis = "WEEKLY_HOURS" THEN FullTime ELSE PerWeek) * YearDays /\ n = f * m
    BY <1>2
  <1> HIDE DEF h
  <1>4. n \in Nat \ {0} BY <1>3, SMT
  <1>5. MapThenSumSet(LAMBDA x : ShareBy(h, x), P) = Sum(P, [x \in P |-> ShareBy(h, x)]) BY SharesSummed
  <1>6. PICK z : z = MapThenSumSet(LAMBDA s : s.rule.annual * (s.to - s.from + 1)
                                        * (IF h THEN s.hours ELSE Cardinality(s.days)), P)
    OBVIOUS
  <1>7. z = Sum(P, [x \in P |-> ShareBy(h, x)]) BY <1>5, <1>6 DEF ShareBy
  <1>8. Shared(P, policy) = Hundredths(z, f * m) BY <1>2, <1>6 DEF Shared, h
  <1> QED BY <1>1, <1>3, <1>4, <1>7, <1>8

LEMMA SharedIs ==
  ASSUME NEW P, IsFiniteSet(P), NEW policy,
         \A s \in P : /\ s.rule \in Rules /\ s.from \in Int /\ s.to \in Int
                      /\ s.hours \in Nat /\ s.days \subseteq 1 .. WeekDays
  PROVE  Shared(P, policy) \in Int
  <1>1. PICK h \in BOOLEAN, n \in Nat \ {0} : Shared(P, policy) = Hundredths(Sum(P, [x \in P |-> ShareBy(h, x)]), n)
    BY SharedBySum
  <1>2. PICK w : w = [x \in P |-> ShareBy(h, x)] OBVIOUS
  <1>3. \A s \in P : w[s] \in Int BY <1>2, ShareIs
  <1>4. PICK z \in Int : z = Sum(P, w) BY <1>3, SumIsInt DEF Weighs
  <1>5. Hundredths(z, n) \in Int BY HundredthsIs
  <1> QED BY <1>1, <1>2, <1>4, <1>5

\* The rule and the entitlement that a year is calculated with.
ShareOn(r, y, d) == CHOOSE s \in Shares(r, y) : d \in DaysOf(s)
PolicyOf(r, y) == CHOOSE p \in PoliciesOf(r, y) : TRUE
RuleOf(r, y, asOf) ==
  IF Alike(Shares(r, y)) THEN ShareOn(r, y, Bounds(y).from).rule
  ELSE ShareOn(r, y, PolicyDay(y, asOf, PolicyOf(r, y), Bounds(y))).rule
GrantOf(r, y) ==
  IF Alike(Shares(r, y))
  THEN Entitlement(y, Employed, ShareOn(r, y, Bounds(y).from).hours, ShareOn(r, y, Bounds(y).from).rule)
  ELSE Shared(Shares(r, y), PolicyOf(r, y))
Vague(r, y) ==
  \/ ~ Clear(r, y)
  \/ Cardinality(PoliciesOf(r, y)) > 1
  \/ PoliciesOf(r, y) = {} /\ ~ Alike(Shares(r, y))

LEMMA ShareOnIs ==
  ASSUME NEW r, TermsWell(r), NEW y \in Years, Clear(r, y), NEW d \in DaysOf(Bounds(y))
  PROVE  \E t \in TermsWithin(r, Bounds(y)) : t \in TermsOn(r, d) /\ ShareOn(r, y, d) = Part(y, t)
  <1>1. PICK b \in Interval : b = Bounds(y) BY YearIs DEF Years
  <1>2. Shares(r, y) = {Part(y, t) : t \in TermsWithin(r, b)} BY <1>1 DEF Shares
  <1>3. PICK u \in TermsWithin(r, b) : u \in TermsOn(r, d) BY <1>1, TermsOfDays DEF Clear
  <1>4. \A t \in TermsWithin(r, b) : d \in DaysOf(Part(y, t)) <=> t \in TermsOn(r, d) BY <1>1, PartIs
  <1>5. \E s \in Shares(r, y) : d \in DaysOf(s) BY <1>2, <1>3, <1>4
  <1>6. ShareOn(r, y, d) \in Shares(r, y) /\ d \in DaysOf(ShareOn(r, y, d)) BY <1>5 DEF ShareOn
  <1>7. PICK t \in TermsWithin(r, b) : ShareOn(r, y, d) = Part(y, t) BY <1>2, <1>6
  <1> QED BY <1>1, <1>4, <1>6, <1>7

LEMMA TermSays ==
  ASSUME NEW r, TermsWell(r), NEW t \in r.terms
  PROVE  /\ t.is.rule \in Rules /\ t.is.hours \in Nat /\ t.is.days \subseteq 1 .. WeekDays
         /\ t.is.policy # Nothing => t.is.policy.at \in {"YEAR_START", "YEAR_END", "AS_OF"}
  <1>1. t.is \in Sayings BY DEF TermsWell
  <1>2. PICK n \in NextTerm \cup FirstTerm : t.is = n.is BY <1>1 DEF Sayings
  <1> QED BY <1>2, TermsAreTerms DEF Rules

LEMMA PolicyDayIs ==
  ASSUME NEW y \in Int, DaysOf(Bounds(y)) # {}, NEW asOf \in Int, NEW policy,
         policy.at \in {"YEAR_START", "YEAR_END", "AS_OF"}
  PROVE  PolicyDay(y, asOf, policy, Bounds(y)) \in DaysOf(Bounds(y))
  <1>1. PICK b \in Interval : b = Bounds(y) BY YearIs
  <1>2. PICK f \in Int, u \in Int : f = b.from /\ u = b.to /\ f <= u BY <1>1, YearIs DEF Interval
  <1>3. Year(y).from \in Int /\ Year(y).to \in Int BY YearIs DEF Interval
  <1>4. PICK d \in Int : d = CASE policy.at = "YEAR_START" -> Year(y).from
                               [] policy.at = "YEAR_END" -> Year(y).to
                               [] policy.at = "AS_OF" -> asOf
    BY <1>3
  <1>5. PICK m \in Int : m = Max({d, f}) /\ m >= f BY MaxOfTwo
  <1>6. Min({m, u}) = IF m <= u THEN m ELSE u BY MaxOfTwo
  <1>7. PolicyDay(y, asOf, policy, b) = Min({m, u}) BY <1>2, <1>4, <1>5 DEF PolicyDay
  <1> QED BY <1>1, <1>2, <1>5, <1>6, <1>7 DEF DaysOf

LEMMA SharesAre ==
  ASSUME NEW r, TermsWell(r), NEW y \in Years, DaysOf(Bounds(y)) # {}
  PROVE  /\ IsFiniteSet(Shares(r, y))
         /\ \A x \in Shares(r, y) : /\ x.rule \in Rules /\ x.from \in Int /\ x.to \in Int
                                    /\ x.hours \in Nat /\ x.days \subseteq 1 .. WeekDays
  <1>1. PICK M : M = TermsWithin(r, Bounds(y)) /\ M \subseteq r.terms /\ IsFiniteSet(M) BY TermsOfDays
  <1>2. PICK h : h = [t \in M |-> Part(y, t)] OBVIOUS
  <1>3. Shares(r, y) = {h[t] : t \in M} BY <1>1, <1>2 DEF Shares
  <1>4. IsFiniteSet(Shares(r, y)) BY <1>1, <1>3, Image
  <1>5. ASSUME NEW t \in M PROVE /\ h[t].rule \in Rules /\ h[t].from \in Int /\ h[t].to \in Int
                                 /\ h[t].hours \in Nat /\ h[t].days \subseteq 1 .. WeekDays
    BY <1>1, <1>2, PartIs, TermSays
  <1> QED BY <1>3, <1>4, <1>5

LEMMA YearSays ==
  ASSUME NEW r, TermsWell(r), NEW y \in Years, DaysOf(Bounds(y)) # {}, NEW asOf \in Int, NEW prior
  PROVE  /\ Vague(r, y) => YearOf(r, y, asOf, prior) = Refused
         /\ ~ Vague(r, y) =>
              /\ GrantOf(r, y) \in Int
              /\ \E t \in TermsWithin(r, Bounds(y)) : RuleOf(r, y, asOf) = t.is.rule
              /\ YearOf(r, y, asOf, prior) = Ledger(y, asOf, GrantOf(r, y), RuleOf(r, y, asOf), prior,
                                                    UsageOf(r, y), r.adjusted[y])
  <1>0. PICK b \in Interval : b = Bounds(y) BY YearIs DEF Years
  <1>1. PICK M : b = Bounds(y) /\ M = TermsWithin(r, b) BY <1>0
  <1>2. y \in Int /\ M \subseteq r.terms /\ b.from \in DaysOf(b) /\ DaysOf(b) # {}
    BY <1>1, YearIs, TermsOfDays DEF Years
  <1>3. CoversOnce(Shares(r, y), b) <=> Clear(r, y) BY <1>1, CoversIs
  <1>4. PICK P : P = Shares(r, y) OBVIOUS
  <1>5. ASSUME ~ Vague(r, y) PROVE \E t \in M : ShareOn(r, y, b.from) = Part(y, t)
    <2>1. Clear(r, y) BY <1>5 DEF Vague
    <2> QED BY <1>1, <1>2, <2>1, ShareOnIs
  <1>6. PICK f : f = ShareOn(r, y, b.from) OBVIOUS
  <1>7. ~ Vague(r, y) => \E t \in M : /\ f.rule = t.is.rule /\ f.hours = t.is.hours
                                     /\ t.is.rule \in Rules /\ t.is.hours \in Nat
    BY <1>1, <1>2, <1>5, <1>6, PartIs, TermSays
  <1>8. PICK g : g = ShareOn(r, y, PolicyDay(y, asOf, PolicyOf(r, y), b)) OBVIOUS
  <1>9. AssignmentLedger(y, asOf, Employed, P, PoliciesOf(r, y), prior, UsageOf(r, y), r.adjusted[y]) =
          CASE ~ CoversOnce(P, b) -> Refused
            [] CoversOnce(P, b) /\ Alike(P) ->
                 Ledger(y, asOf, Entitlement(y, Employed, f.hours, f.rule), f.rule, prior, UsageOf(r, y), r.adjusted[y])
            [] OTHER -> IF PoliciesOf(r, y) = {} THEN Refused
                        ELSE Ledger(y, asOf, Shared(P, PolicyOf(r, y)), g.rule, prior, UsageOf(r, y), r.adjusted[y])
    BY <1>1, <1>4, <1>6, <1>8 DEF AssignmentLedger, Bounds, ShareOn, PolicyOf
  <1>10. PICK x : x = AssignmentLedger(y, asOf, Employed, P, PoliciesOf(r, y), prior, UsageOf(r, y), r.adjusted[y])
    OBVIOUS
  <1>11. YearOf(r, y, asOf, prior) = IF Cardinality(PoliciesOf(r, y)) > 1 THEN Refused ELSE x
    BY <1>4, <1>10 DEF YearOf
  <1>12. Vague(r, y) <=> \/ ~ CoversOnce(P, b) \/ Cardinality(PoliciesOf(r, y)) > 1
                         \/ PoliciesOf(r, y) = {} /\ ~ Alike(P)
    BY <1>3, <1>4 DEF Vague
  <1>13. ASSUME Vague(r, y) PROVE YearOf(r, y, asOf, prior) = Refused
    <2>1. CASE Cardinality(PoliciesOf(r, y)) > 1 BY <1>11, <2>1
    <2>2. CASE ~ CoversOnce(P, b) BY <1>9, <1>10, <1>11, <2>2
    <2>3. CASE CoversOnce(P, b) /\ PoliciesOf(r, y) = {} /\ ~ Alike(P) BY <1>9, <1>10, <1>11, <2>3
    <2> QED BY <1>12, <1>13, <2>1, <2>2, <2>3
  <1>14. ASSUME ~ Vague(r, y), Alike(P)
         PROVE  /\ GrantOf(r, y) \in Int /\ \E t \in M : RuleOf(r, y, asOf) = t.is.rule
                /\ YearOf(r, y, asOf, prior) = Ledger(y, asOf, GrantOf(r, y), RuleOf(r, y, asOf), prior,
                                                      UsageOf(r, y), r.adjusted[y])
    <2>1. RuleOf(r, y, asOf) = f.rule /\ GrantOf(r, y) = Entitlement(y, Employed, f.hours, f.rule)
      BY <1>1, <1>4, <1>6, <1>14 DEF RuleOf, GrantOf
    <2>2. CoversOnce(P, b) /\ ~ (Cardinality(PoliciesOf(r, y)) > 1) BY <1>12, <1>14
    <2>3. YearOf(r, y, asOf, prior) = Ledger(y, asOf, Entitlement(y, Employed, f.hours, f.rule), f.rule, prior,
                                             UsageOf(r, y), r.adjusted[y])
      BY <1>9, <1>10, <1>11, <1>14, <2>2
    <2>4. Entitlement(y, Employed, f.hours, f.rule) \in Int BY <1>2, <1>7, <1>14, EntitlementIs
    <2> QED BY <1>7, <1>14, <2>1, <2>3, <2>4
  <1>15. ASSUME ~ Vague(r, y), ~ Alike(P)
         PROVE  /\ GrantOf(r, y) \in Int /\ \E u \in M : RuleOf(r, y, asOf) = u.is.rule
                /\ YearOf(r, y, asOf, prior) = Ledger(y, asOf, GrantOf(r, y), RuleOf(r, y, asOf), prior,
                                                      UsageOf(r, y), r.adjusted[y])
    <2>1. RuleOf(r, y, asOf) = g.rule /\ GrantOf(r, y) = Shared(P, PolicyOf(r, y))
      BY <1>1, <1>4, <1>8, <1>15 DEF RuleOf, GrantOf
    <2>2. CoversOnce(P, b) /\ ~ (Cardinality(PoliciesOf(r, y)) > 1) /\ PoliciesOf(r, y) # {} BY <1>12, <1>15
    <2>3. YearOf(r, y, asOf, prior) = Ledger(y, asOf, Shared(P, PolicyOf(r, y)), g.rule, prior,
                                             UsageOf(r, y), r.adjusted[y])
      BY <1>9, <1>10, <1>11, <1>15, <2>2
    <2>4. PolicyOf(r, y) \in PoliciesOf(r, y) BY <2>2 DEF PolicyOf
    <2>5. PICK v \in M : PolicyOf(r, y) = v.is.policy /\ v.is.policy # Nothing BY <1>1, <2>4 DEF PoliciesOf
    <2>6. PolicyOf(r, y).at \in {"YEAR_START", "YEAR_END", "AS_OF"} BY <1>2, <2>5, TermSays
    <2>7. PolicyDay(y, asOf, PolicyOf(r, y), b) \in DaysOf(b) BY <1>1, <1>2, <2>6, PolicyDayIs
    <2>8. PICK u \in M : g = Part(y, u)
      <3>1. Clear(r, y) BY <1>15 DEF Vague
      <3> QED BY <1>1, <1>8, <2>7, <3>1, ShareOnIs
    <2>9. g.rule = u.is.rule BY <1>1, <1>2, <2>8, PartIs
    <2>10. Shared(P, PolicyOf(r, y)) \in Int BY <1>1, <1>4, SharesAre, SharedIs
    <2> QED BY <2>1, <2>3, <2>9, <2>10
  <1> QED BY <1>1, <1>4, <1>13, <1>14, <1>15

LEMMA UnclearIs ==
  ASSUME TermsWell(Rows), NEW y \in Years
  PROVE  /\ DaysOf(Bounds(y)) # {} => (Unclear(y) <=> Vague(Rows, y))
         /\ DaysOf(Bounds(y)) = {} => ~ Unclear(y)
  <1>1. PICK b \in Interval : b = Bounds(y) BY YearIs DEF Years
  <1>2. PICK mine : mine = UNION {TermsOn(Rows, d) : d \in DaysOf(b)} OBVIOUS
  <1>3. PICK policies : policies = {t.is.policy : t \in mine} \ {Nothing} OBVIOUS
  <1>4. PICK kinds : kinds = {<<t.is.hours, t.is.days, t.is.rule>> : t \in mine} OBVIOUS
  <1>5. Unclear(y) <=> \/ \E d \in DaysOf(b) : Cardinality(TermsOn(Rows, d)) # 1
                       \/ Cardinality(policies) > 1
                       \/ policies = {} /\ Cardinality(kinds) > 1
    <2>1. \A d : TermsOn(Rows, d) = Touching([from |-> d, to |-> d]) BY BalanceNow
    <2>2. mine = UNION {Touching([from |-> d, to |-> d]) : d \in DaysOf(b)} BY <1>2, <2>1
    <2>3. Unclear(y) <=> \/ \E d \in DaysOf(b) : Cardinality(Touching([from |-> d, to |-> d])) # 1
                         \/ Cardinality(policies) > 1
                         \/ policies = {} /\ Cardinality(kinds) > 1
      BY <1>1, <1>3, <1>4, <2>2 DEF Unclear
    <2> QED BY <2>1, <2>3
  <1>6. ASSUME DaysOf(b) = {} PROVE ~ Unclear(y)
    <2>1. mine = {} BY <1>2, <1>6
    <2>2. policies = {} /\ kinds = {} BY <1>3, <1>4, <2>1
    <2>3. Cardinality({}) = 0 BY FS_EmptySet
    <2> QED BY <1>5, <1>6, <2>2, <2>3
  <1>7. ASSUME DaysOf(b) # {} PROVE Unclear(y) <=> Vague(Rows, y)
    <2>1. PICK M : M = TermsWithin(Rows, b) OBVIOUS
    <2>2. mine = M /\ IsFiniteSet(M) /\ \A d \in DaysOf(b) : TermsOn(Rows, d) \subseteq M
      BY <1>1, <1>2, <1>7, <2>1, TermsOfDays
    <2>3. policies = PoliciesOf(Rows, y) BY <1>1, <1>3, <2>1, <2>2 DEF PoliciesOf
    <2>4. (\E d \in DaysOf(b) : Cardinality(TermsOn(Rows, d)) # 1) <=> ~ Clear(Rows, y)
      <3>1. ASSUME NEW d \in DaysOf(b) PROVE Cardinality(TermsOn(Rows, d)) = 1 <=> \E t : TermsOn(Rows, d) = {t}
        <4>1. IsFiniteSet(TermsOn(Rows, d)) BY <2>2, FS_Subset
        <4> QED BY <4>1, MoreThanOne
      <3> QED BY <1>1, <3>1 DEF Clear
    <2>5. PICK f : f = [t \in M |-> <<t.is.hours, t.is.days, t.is.rule>>] /\ kinds = {f[t] : t \in M}
      <3>1. PICK f : f = [t \in M |-> <<t.is.hours, t.is.days, t.is.rule>>] OBVIOUS
      <3>2. kinds = {f[t] : t \in M} BY <1>4, <2>2, <3>1
      <3> QED BY <3>1, <3>2
    <2>6. Cardinality(kinds) > 1 <=> \E x, z \in kinds : x # z
      <3>1. IsFiniteSet(kinds) BY <2>2, <2>5, Image
      <3> QED BY <3>1, MoreThanOne
    <2>7. (\E x, z \in kinds : x # z) <=>
            \E t, u \in M : t.is.hours # u.is.hours \/ t.is.days # u.is.days \/ t.is.rule # u.is.rule
      <3>1. \A t, u \in M : f[t] # f[u] <=> t.is.hours # u.is.hours \/ t.is.days # u.is.days \/ t.is.rule # u.is.rule
        BY <2>5
      <3>2. (\E x, z \in kinds : x # z) <=> \E t, u \in M : f[t] # f[u] BY <2>5
      <3> QED BY <3>1, <3>2
    <2>8. Alike(Shares(Rows, y)) <=>
            \A t, u \in M : t.is.hours = u.is.hours /\ t.is.days = u.is.days /\ t.is.rule = u.is.rule
      <3>1. Shares(Rows, y) = {Part(y, t) : t \in M} BY <1>1, <2>1 DEF Shares
      <3>2. \A t \in M : Part(y, t).hours = t.is.hours /\ Part(y, t).days = t.is.days /\ Part(y, t).rule = t.is.rule
        BY <1>1, <1>7, <2>1, PartIs
      <3> QED BY <3>1, <3>2 DEF Alike
    <2> QED BY <1>5, <2>3, <2>4, <2>6, <2>7, <2>8 DEF Vague
  <1> QED BY <1>1, <1>6, <1>7

-----------------------------------------------------------------------------
(* Leave: the pieces of leave that a year sees lie apart, so what is paid    *)
(* for them is what their working days cost.                                *)

LEMMA CutIs ==
  ASSUME NEW r, TermsWell(r), NEW y \in Years, NEW x \in Leave \X r.terms
  PROVE  /\ Cut(y, x[1], x[2]) \in Interval
         /\ \A d : d \in DaysOf(Cut(y, x[1], x[2])) <=>
                     d \in DaysOf(x[1]) /\ d \in DaysOf(Bounds(y)) /\ x[2] \in TermsOn(r, d)
         /\ Cut(y, x[1], x[2]).from >= x[1].from
         /\ IsFiniteSet(Worked(y, x)) /\ Cardinality(Worked(y, x)) \in Nat
         /\ \A d : d \in Worked(y, x) <=> d \in DaysOf(Cut(y, x[1], x[2])) /\ Works(d, x[2].is)
  <1>1. PICK l \in Leave, t \in r.terms : l = x[1] /\ t = x[2] OBVIOUS
  <1>2. PICK i \in Interval, b \in Interval, k \in Interval : i = l /\ b = Bounds(y) /\ k = TermDays(t)
    BY LeaveIsProper, YearIs, DaysOfTerm DEF Years, Interval
  <1>3. PICK c : c = Clip(i, b) OBVIOUS
  <1>4. c \in Interval /\ c.from >= i.from /\ \A d : d \in DaysOf(c) <=> d \in DaysOf(i) /\ d \in DaysOf(b)
    BY <1>3, ClipIs
  <1>5. PICK e : e = Clip(c, k) OBVIOUS
  <1>6. e \in Interval /\ e.from >= c.from /\ \A d : d \in DaysOf(e) <=> d \in DaysOf(c) /\ d \in DaysOf(k)
    BY <1>4, <1>5, ClipIs
  <1>7. e = Cut(y, l, t) BY <1>2, <1>3, <1>5 DEF Cut
  <1>8. \A d \in Int : d \in DaysOf(k) <=> t \in TermsOn(r, d) BY <1>2, DaysOfTerm
  <1>9. \A d \in DaysOf(b) : d \in Int BY DEF DaysOf, Interval
  <1>10. \A d : d \in DaysOf(e) <=> d \in DaysOf(l) /\ d \in DaysOf(b) /\ t \in TermsOn(r, d)
    BY <1>2, <1>4, <1>6, <1>8, <1>9
  <1>11. e.from >= l.from
    <2>1. PICK p \in Int, q \in Int, s \in Int : p = e.from /\ q = c.from /\ s = i.from
      BY <1>4, <1>6 DEF Interval
    <2> QED BY <1>2, <1>4, <1>6, <2>1
  <1>12. Worked(y, x) = {d \in DaysOf(e) : Works(d, t.is)} BY <1>1, <1>7 DEF Worked, WorkingDays
  <1>13. IsFiniteSet(Worked(y, x)) /\ Cardinality(Worked(y, x)) \in Nat BY <1>6, <1>12, DaysAreFinite
  <1> QED BY <1>1, <1>2, <1>6, <1>7, <1>10, <1>11, <1>12, <1>13

\* A piece that is seen begins on one of its days, and no other piece has that day.
LEMMA PiecesLieApart ==
  ASSUME NEW r, AccountWell(r), NEW y \in Years, Clear(r, y)
  PROVE  /\ IsFiniteSet(Pieces(r, y)) /\ Pieces(r, y) \subseteq Leave \X r.terms
         /\ \A x \in Pieces(r, y) : /\ Used(y, x) \in Uses
                                    /\ Used(y, x).date \in DaysOf(Cut(y, x[1], x[2]))
                                    /\ \A d \in DaysOf(Cut(y, x[1], x[2])) : Used(y, x).date <= d
         /\ \A x, z \in Pieces(r, y) : \A d :
              d \in DaysOf(Cut(y, x[1], x[2])) /\ d \in DaysOf(Cut(y, z[1], z[2])) => x = z
  <1>1. TermsWell(r) /\ LeaveWell(r) BY DEF AccountWell
  <1>2. PICK Q : Q = Pieces(r, y) OBVIOUS
  <1>3. Q \subseteq Leave \X r.terms /\ \A x \in Q : Worked(y, x) # {} /\ x[1] \in Approved(r)
    BY <1>2 DEF Pieces, Approved, TermsWithin
  <1>4. IsFiniteSet(Q)
    <2>1. IsFiniteSet(Leave) /\ IsFiniteSet(r.terms) BY <1>1, LeaveIsProper DEF TermsWell
    <2>2. IsFiniteSet(Leave \X r.terms) BY <2>1, FS_Product
    <2> QED BY <1>3, <2>2, FS_Subset
  <1>5. ASSUME NEW x \in Q
        PROVE  /\ Used(y, x) \in Uses
               /\ Used(y, x).date \in DaysOf(Cut(y, x[1], x[2]))
               /\ \A d \in DaysOf(Cut(y, x[1], x[2])) : Used(y, x).date <= d
    <2>1. x \in Leave \X r.terms BY <1>3
    <2>2. PICK e \in Interval : e = Cut(y, x[1], x[2]) BY <1>1, <2>1, CutIs
    <2>3. Worked(y, x) \subseteq DaysOf(e) /\ Cardinality(Worked(y, x)) \in Nat BY <1>1, <2>1, <2>2, CutIs
    <2>4. PICK d \in DaysOf(e) : TRUE BY <1>3, <2>3
    <2>5. PICK f \in Int, u \in Int : f = e.from /\ u = e.to BY DEF Interval
    <2>6. DaysOf(e) = f .. u /\ f \in f .. u BY <2>4, <2>5 DEF DaysOf
    <2>7. Used(y, x).date = f /\ Used(y, x) \in Uses BY <2>2, <2>3, <2>5 DEF Used, Uses
    <2> QED BY <2>2, <2>6, <2>7
  <1>6. ASSUME NEW x \in Q, NEW z \in Q, NEW d, d \in DaysOf(Cut(y, x[1], x[2])), d \in DaysOf(Cut(y, z[1], z[2]))
        PROVE  x = z
    <2>1. PICK l \in Leave, t \in r.terms : x = <<l, t>> BY <1>3
    <2>2. PICK k \in Leave, u \in r.terms : z = <<k, u>> BY <1>3
    <2>3. d \in DaysOf(l) /\ d \in DaysOf(Bounds(y)) /\ t \in TermsOn(r, d) BY <1>1, <1>3, <1>6, <2>1, CutIs
    <2>4. d \in DaysOf(k) /\ u \in TermsOn(r, d) BY <1>1, <1>3, <1>6, <2>2, CutIs
    <2>5. t = u BY <2>3, <2>4 DEF Clear
    <2>6. r.leave[l] \in Standing /\ r.leave[k] \in Standing BY <1>3, <2>1, <2>2 DEF Approved, Standing
    <2>7. l = k
      <3>1. ASSUME l # k PROVE FALSE
        <4>1. l.to < k.from \/ k.to < l.from BY <1>1, <2>6, <3>1 DEF LeaveWell
        <4>2. l.from \in Int /\ l.to \in Int /\ k.from \in Int /\ k.to \in Int BY LeaveIsProper
        <4>3. d \in Int /\ l.from <= d /\ d <= l.to /\ k.from <= d /\ d <= k.to BY <2>3, <2>4, <4>2 DEF DaysOf
        <4> QED BY <4>1, <4>2, <4>3
      <3> QED BY <3>1
    <2> QED BY <2>1, <2>2, <2>5, <2>7
  <1>7. \A x, z \in Q : \A d : d \in DaysOf(Cut(y, x[1], x[2])) /\ d \in DaysOf(Cut(y, z[1], z[2])) => x = z
    BY <1>6, Zenon
  <1>8. Q \subseteq Leave \X r.terms BY <1>3, Zenon
  <1>9. \A x \in Q : /\ Used(y, x) \in Uses
                     /\ Used(y, x).date \in DaysOf(Cut(y, x[1], x[2]))
                     /\ \A d \in DaysOf(Cut(y, x[1], x[2])) : Used(y, x).date <= d
    BY <1>5, Zenon
  <1> QED BY <1>2, <1>4, <1>7, <1>8, <1>9

LEMMA UsageIsDated ==
  ASSUME NEW r, AccountWell(r), NEW y \in Years, Clear(r, y)
  PROVE  /\ Dated(UsageOf(r, y))
         /\ \A x, z \in Pieces(r, y) : Used(y, x).date = Used(y, z).date => x = z
  <1>1. PICK Q : Q = Pieces(r, y) OBVIOUS
  <1>2. /\ IsFiniteSet(Q)
        /\ \A x \in Q : Used(y, x) \in Uses /\ Used(y, x).date \in DaysOf(Cut(y, x[1], x[2]))
        /\ \A x, z \in Q : \A d : d \in DaysOf(Cut(y, x[1], x[2])) /\ d \in DaysOf(Cut(y, z[1], z[2])) => x = z
    BY <1>1, PiecesLieApart
  <1>3. \A x, z \in Q : Used(y, x).date = Used(y, z).date => x = z BY <1>2
  <1>4. PICK f : f = [x \in Q |-> Used(y, x)] OBVIOUS
  <1>5. UsageOf(r, y) = {f[x] : x \in Q} BY <1>1, <1>4 DEF UsageOf
  <1>6. IsFiniteSet(UsageOf(r, y)) BY <1>2, <1>5, Image
  <1>7. UsageOf(r, y) = {Used(y, x) : x \in Q} BY <1>1 DEF UsageOf
  <1> QED BY <1>1, <1>2, <1>3, <1>6, <1>7 DEF Dated

\* The working days of what is used.
DaysOfUse(r, y, S) == UNION {Worked(y, x) : x \in {z \in Pieces(r, y) : Used(y, z) \in S}}

LEMMA PaidByDays ==
  ASSUME NEW r, AccountWell(r), NEW y \in Years, Clear(r, y), NEW S \in SUBSET UsageOf(r, y)
  PROVE  IsFiniteSet(DaysOfUse(r, y, S)) /\ Paid(S) = 100 * Cardinality(DaysOfUse(r, y, S))
  <1>1. PICK Q, U : Q = Pieces(r, y) /\ U = UsageOf(r, y) OBVIOUS
  <1>2. /\ Q \subseteq Leave \X r.terms
        /\ \A x, z \in Q : \A d : d \in DaysOf(Cut(y, x[1], x[2])) /\ d \in DaysOf(Cut(y, z[1], z[2])) => x = z
    BY <1>1, PiecesLieApart
  <1>3. \A x \in Q : IsFiniteSet(Worked(y, x)) /\ Cardinality(Worked(y, x)) \in Nat
                     /\ Worked(y, x) \subseteq DaysOf(Cut(y, x[1], x[2]))
    BY <1>2, CutIs DEF AccountWell
  <1>4. IsFiniteSet(U) /\ U \subseteq Uses /\ \A x, z \in Q : Used(y, x) = Used(y, z) => x = z
    BY <1>1, UsageIsDated DEF Dated
  <1>5. U = {Used(y, x) : x \in Q} BY <1>1 DEF UsageOf
  <1>6. PICK T : T = {P \in SUBSET U : IsFiniteSet(DaysOfUse(r, y, P)) /\ Paid(P) = 100 * Cardinality(DaysOfUse(r, y, P))}
    OBVIOUS
  <1>7. {} \in T
    <2>1. DaysOfUse(r, y, {}) = {} BY DEF DaysOfUse
    <2>2. IsFiniteSet({}) /\ Cardinality({}) = 0 BY FS_EmptySet
    <2>3. Paid({}) = 0 BY <2>2, PaidIs
    <2>4. IsFiniteSet(DaysOfUse(r, y, {})) /\ Paid({}) = 100 * Cardinality(DaysOfUse(r, y, {}))
      BY <2>1, <2>2, <2>3
    <2> QED BY <1>6, <2>4
  <1>8. ASSUME NEW P \in T, NEW u \in U, P \subseteq U, u \notin P PROVE P \cup {u} \in T
    <2>1. PICK x \in Q : u = Used(y, x) BY <1>5
    <2>2. PICK D, W : D = DaysOfUse(r, y, P) /\ W = Worked(y, x) OBVIOUS
    <2>3. DaysOfUse(r, y, P \cup {u}) = D \cup W
      <3>1. \A z \in Q : Used(y, z) \in P \cup {u} <=> Used(y, z) \in P \/ z = x BY <1>4, <2>1
      <3>2. \A X : DaysOfUse(r, y, X) = UNION {Worked(y, z) : z \in {v \in Q : Used(y, v) \in X}}
        BY <1>1 DEF DaysOfUse
      <3> QED BY <2>1, <2>2, <3>1, <3>2
    <2>4. D \cap W = {}
      <3>1. SUFFICES ASSUME NEW d \in D, d \in W PROVE FALSE OBVIOUS
      <3>2. PICK z \in Q : Used(y, z) \in P /\ d \in Worked(y, z) BY <1>1, <2>2 DEF DaysOfUse
      <3>3. x = z BY <1>2, <1>3, <2>2, <3>1, <3>2
      <3> QED BY <1>8, <2>1, <3>2, <3>3
    <2>5. IsFiniteSet(D) /\ Paid(P) = 100 * Cardinality(D) BY <1>6, <2>2
    <2>6. IsFiniteSet(W) /\ Cardinality(W) \in Nat BY <1>3, <2>2
    <2>7. IsFiniteSet(D \cup W) /\ Cardinality(D \cup W) = Cardinality(D) + Cardinality(W) /\ Cardinality(D) \in Nat
      BY <2>4, <2>5, <2>6, CardinalityOfUnion
    <2>8. IsFiniteSet(P) /\ P \subseteq Uses /\ u \in Uses BY <1>4, <1>8, FS_Subset
    <2>9. Paid(P \cup {u}) = Paid(P) + Price(u) BY <1>8, <2>8, OneMorePaid
    <2>10. Price(u) = 100 * Cardinality(W) BY <2>1, <2>2 DEF Price, Used
    <2>11. Paid(P \cup {u}) = 100 * Cardinality(D \cup W)
      <3>1. PICK a \in Nat, c \in Nat : a = Cardinality(D) /\ c = Cardinality(W) BY <2>6, <2>7
      <3> QED BY <2>5, <2>7, <2>9, <2>10, <3>1
    <2> QED BY <1>6, <1>8, <2>3, <2>7, <2>11
  <1>9. S \in T
    <2>1. S \in SUBSET U BY <1>1
    <2>2. \A P \in T, u \in U : P \subseteq U /\ u \notin P => P \cup {u} \in T BY <1>8
    <2>3. \A P \in SUBSET U : P \in T BY <1>4, <1>7, <2>2, GrowingSets
    <2> QED BY <2>1, <2>3
  <1> QED BY <1>6, <1>9

\* The days of approved leave are those of the pieces that the year sees.
LEMMA TakenIs ==
  ASSUME AccountWell(Rows), NEW y \in Years, DaysOf(Bounds(y)) # {}, Clear(Rows, y), NEW L \in SUBSET Leave
  PROVE  /\ \A d : d \in TakenDays(y, L) <=> \E x \in Pieces(Rows, y) : x[1] \in L /\ d \in Worked(y, x)
         /\ IsFiniteSet(TakenDays(y, L)) /\ Cardinality(TakenDays(y, L)) \in Nat
  <1>1. TermsWell(Rows) /\ Rows.leave = leave /\ Rows.terms = terms BY DEF AccountWell, Rows
  <1>2. PICK b \in Interval : b = Bounds(y) BY YearIs DEF Years
  <1>3. \A l \in Leave : l \in Interval BY LeaveIsProper DEF Interval
  <1>4. \A d : TermsOn(Rows, d) = Touching([from |-> d, to |-> d]) BY BalanceNow
  <1>5. ASSUME NEW l \in Leave
        PROVE  \A d : d \in OffWork(l, y) <=> /\ d \in DaysOf(l) /\ d \in DaysOf(b)
                                              /\ \A t \in TermsOn(Rows, d) : Works(d, t.is)
    <2>1. PICK i \in Interval : i = l BY <1>3
    <2>2. PICK c : c = Clip(i, b) OBVIOUS
    <2>3. \A d : d \in DaysOf(c) <=> d \in DaysOf(i) /\ d \in DaysOf(b) BY <2>2, ClipIs
    <2>4. OffWork(l, y) = {d \in DaysOf(c) : \A t \in Touching([from |-> d, to |-> d]) : Works(d, t.is)}
      BY <1>2, <2>1, <2>2 DEF OffWork
    <2>5. \A d : d \in OffWork(l, y) <=> d \in DaysOf(c) /\ \A t \in Touching([from |-> d, to |-> d]) : Works(d, t.is)
      BY <2>4
    <2>6. ASSUME NEW d
          PROVE  d \in OffWork(l, y) <=> /\ d \in DaysOf(l) /\ d \in DaysOf(b)
                                         /\ \A t \in TermsOn(Rows, d) : Works(d, t.is)
      <3>1. TermsOn(Rows, d) = Touching([from |-> d, to |-> d]) BY <1>4
      <3>2. d \in DaysOf(c) <=> d \in DaysOf(l) /\ d \in DaysOf(b) BY <2>1, <2>3
      <3> QED BY <2>5, <3>1, <3>2, Zenon
    <2> QED BY <2>6
  <1>6. \A d : d \in TakenDays(y, L) <=> \E l \in L : leave[l] = "APPROVED" /\ d \in OffWork(l, y)
    BY DEF TakenDays
  <1>7. ASSUME NEW x \in Pieces(Rows, y)
        PROVE  /\ x[1] \in Leave /\ leave[x[1]] = "APPROVED"
               /\ \A d : d \in Worked(y, x) <=> /\ d \in DaysOf(x[1]) /\ d \in DaysOf(b)
                                                /\ x[2] \in TermsOn(Rows, d) /\ Works(d, x[2].is)
    <2>1. x \in Leave \X Rows.terms /\ leave[x[1]] = "APPROVED" BY <1>1 DEF Pieces, Approved, TermsWithin
    <2> QED BY <1>1, <1>2, <2>1, CutIs
  <1>8. ASSUME NEW d, NEW x \in Pieces(Rows, y), x[1] \in L, d \in Worked(y, x) PROVE d \in TakenDays(y, L)
    <2>0. PICK l \in L : l = x[1] BY <1>8
    <2>1. PICK t : l = x[1] /\ t = x[2] BY <2>0
    <2>2. l \in Leave /\ leave[l] = "APPROVED" /\ d \in DaysOf(l) /\ d \in DaysOf(b) /\ t \in TermsOn(Rows, d) /\ Works(d, t.is)
      BY <1>7, <1>8, <2>1
    <2>3. \A u \in TermsOn(Rows, d) : Works(d, u.is) BY <1>2, <2>2 DEF Clear
    <2> QED BY <1>5, <1>6, <2>2, <2>3
  <1>9. ASSUME NEW d \in TakenDays(y, L) PROVE \E x \in Pieces(Rows, y) : x[1] \in L /\ d \in Worked(y, x)
    <2>1. PICK l \in L : leave[l] = "APPROVED" /\ d \in OffWork(l, y) BY <1>6
    <2>2. l \in Leave /\ d \in DaysOf(l) /\ d \in DaysOf(b) /\ \A t \in TermsOn(Rows, d) : Works(d, t.is)
      BY <1>5, <2>1
    <2>3. PICK t \in TermsOn(Rows, d) : t \in TermsWithin(Rows, b) BY <1>1, <1>2, <2>2, TermsOfDays DEF Clear
    <2>4. t \in Rows.terms /\ Works(d, t.is) BY <2>2, <2>3 DEF TermsOn
    <2>5. PICK x : x = <<l, t>> OBVIOUS
    <2>6. x \in Leave \X Rows.terms /\ x[1] = l /\ x[2] = t BY <2>2, <2>4, <2>5
    <2>7. d \in Worked(y, x) BY <1>1, <1>2, <2>2, <2>3, <2>4, <2>6, CutIs
    <2>8. x \in Pieces(Rows, y) BY <1>1, <1>2, <2>1, <2>2, <2>3, <2>5, <2>7 DEF Pieces, Approved
    <2> QED BY <2>6, <2>7, <2>8
  <1>10. TakenDays(y, L) \subseteq DaysOf(b) BY <1>5, <1>6
  <1>11. IsFiniteSet(TakenDays(y, L)) /\ Cardinality(TakenDays(y, L)) \in Nat BY <1>10, DaysAreFinite
  <1> QED BY <1>8, <1>9, <1>11

\* What the leave of a set of dates costs is at most the days of the leave that begins by then.
LEMMA PaidAtMost ==
  ASSUME AccountWell(Rows), NEW y \in Years, DaysOf(Bounds(y)) # {}, Clear(Rows, y), NEW S \in SUBSET UsageOf(Rows, y),
         NEW e \in Int, \A u \in S : u.date <= e
  PROVE  Paid(S) \in Nat /\ Paid(S) <= 100 * Cardinality(TakenDays(y, {l \in Leave : l.from <= e}))
  <1>1. PICK D, L : D = DaysOfUse(Rows, y, S) /\ L = {l \in Leave : l.from <= e} OBVIOUS
  <1>2. IsFiniteSet(D) /\ Paid(S) = 100 * Cardinality(D) BY <1>1, PaidByDays
  <1>3. L \in SUBSET Leave BY <1>1
  <1>4. /\ \A d : d \in TakenDays(y, L) <=> \E x \in Pieces(Rows, y) : x[1] \in L /\ d \in Worked(y, x)
        /\ IsFiniteSet(TakenDays(y, L)) /\ Cardinality(TakenDays(y, L)) \in Nat
    BY <1>3, TakenIs
  <1>5. ASSUME NEW d \in D PROVE d \in TakenDays(y, L)
    <2>1. PICK x \in Pieces(Rows, y) : Used(y, x) \in S /\ d \in Worked(y, x) BY <1>1 DEF DaysOfUse
    <2>2. x \in Leave \X Rows.terms BY PiecesLieApart
    <2>3. PICK l \in Leave, c \in Interval : l = x[1] /\ c = Cut(y, x[1], x[2]) /\ c.from >= l.from
      BY <2>2, CutIs DEF AccountWell
    <2>4. c.from <= e BY <2>1, <2>3 DEF Used
    <2>5. l.from \in Int /\ c.from \in Int BY LeaveIsProper DEF Interval
    <2>6. l.from <= e BY <2>3, <2>4, <2>5
    <2>7. x[1] \in L BY <1>1, <2>3, <2>6
    <2> QED BY <1>4, <2>1, <2>7
  <1>6. D \in SUBSET TakenDays(y, L) BY <1>5
  <1>7. Cardinality(D) <= Cardinality(TakenDays(y, L)) /\ Cardinality(D) \in Nat
    BY <1>2, <1>4, <1>6, FS_Subset, FS_CardinalityType
  <1>8. PICK a \in Nat, c \in Nat : a = Cardinality(D) /\ c = Cardinality(TakenDays(y, L)) /\ a <= c
    BY <1>4, <1>7
  <1> QED BY <1>1, <1>2, <1>8

LEMMA PaidAtLeast ==
  ASSUME AccountWell(Rows), NEW y \in Years, DaysOf(Bounds(y)) # {}, Clear(Rows, y), NEW e \in Int
  PROVE  Paid(Visible(UsageOf(Rows, y), y, e)) >= 100 * Cardinality({d \in TakenDays(y, Leave) : d <= e})
  <1>1. PICK U, S : U = UsageOf(Rows, y) /\ S = Visible(U, y, e) OBVIOUS
  <1>2. S \in SUBSET UsageOf(Rows, y) BY <1>1 DEF Visible
  <1>3. PICK D, T : D = DaysOfUse(Rows, y, S) /\ T = {d \in TakenDays(y, Leave) : d <= e} OBVIOUS
  <1>4. IsFiniteSet(D) /\ Paid(S) = 100 * Cardinality(D) BY <1>2, <1>3, PaidByDays
  <1>5. ASSUME NEW d \in T PROVE d \in D
    <2>1. d \in TakenDays(y, Leave) /\ d <= e BY <1>3
    <2>2. PICK x \in Pieces(Rows, y) : d \in Worked(y, x) BY <2>1, TakenIs
    <2>3. x \in Leave \X Rows.terms /\ Used(y, x) \in Uses
          /\ Used(y, x).date \in DaysOf(Cut(y, x[1], x[2]))
          /\ \A z \in DaysOf(Cut(y, x[1], x[2])) : Used(y, x).date <= z
      BY PiecesLieApart
    <2>4. PICK f \in Int : f = Used(y, x).date BY <2>3 DEF Uses
    <2>5. /\ d \in DaysOf(Cut(y, x[1], x[2])) /\ Cut(y, x[1], x[2]) \in Interval
          /\ f \in DaysOf(Bounds(y))
      BY <2>2, <2>3, <2>4, CutIs DEF AccountWell
    <2>6. d \in Int BY <2>5 DEF DaysOf, Interval
    <2>7. f <= d BY <2>3, <2>4, <2>5
    <2>8. f <= e /\ f \in DaysOf(Year(y)) BY <2>1, <2>4, <2>5, <2>6, <2>7, YearIs DEF Years
    <2>9. Used(y, x) \in U BY <1>1 DEF UsageOf
    <2>10. Used(y, x) \in S BY <1>1, <2>4, <2>8, <2>9 DEF Visible
    <2> QED BY <1>3, <2>2, <2>10 DEF DaysOfUse
  <1>6. T \in SUBSET D BY <1>5
  <1>7. IsFiniteSet(T) /\ Cardinality(T) <= Cardinality(D) /\ Cardinality(D) \in Nat /\ Cardinality(T) \in Nat
    BY <1>4, <1>6, FS_Subset, FS_CardinalityType
  <1>8. PICK a \in Nat, c \in Nat : a = Cardinality(T) /\ c = Cardinality(D) /\ a <= c BY <1>7
  <1> QED BY <1>1, <1>3, <1>4, <1>8

\* A year that is clear answers, and with what its leave and its carry-over allow.
LEMMA YearAnswers ==
  ASSUME NEW r, AccountWell(r), NEW y \in Years, DaysOf(Bounds(y)) # {}, ~ Vague(r, y), NEW asOf \in Int, NEW prior \in Int
  PROVE  \E t \in TermsWithin(r, Bounds(y)) :
           /\ RuleOf(r, y, asOf) = t.is.rule /\ t.is.rule \in Rules /\ GrantOf(r, y) \in Int
           /\ LedgerSays(y, asOf, GrantOf(r, y), t.is.rule, prior, Visible(UsageOf(r, y), y, asOf), r.adjusted[y],
                         YearOf(r, y, asOf, prior))
  <1>1. TermsWell(r) /\ LeaveWell(r) /\ y \in Int BY DEF AccountWell, Years
  <1>2. GrantOf(r, y) \in Int BY <1>1, YearSays
  <1>3. PICK t \in TermsWithin(r, Bounds(y)) : RuleOf(r, y, asOf) = t.is.rule BY <1>1, YearSays
  <1>4. YearOf(r, y, asOf, prior) = Ledger(y, asOf, GrantOf(r, y), RuleOf(r, y, asOf), prior, UsageOf(r, y), r.adjusted[y])
    BY <1>1, YearSays
  <1>5. t.is.rule \in Rules
    <2>1. t \in r.terms BY DEF TermsWithin
    <2> QED BY <1>1, <2>1, TermSays
  <1>6. PICK rule \in Rules, e \in Int, adj \in Int : rule = t.is.rule /\ e = GrantOf(r, y) /\ adj = r.adjusted[y]
    BY <1>1, <1>2, <1>5 DEF LeaveWell
  <1>7. PICK U : U = UsageOf(r, y) OBVIOUS
  <1>8. Dated(U)
    <2>1. Clear(r, y) BY DEF Vague
    <2> QED BY <1>7, <2>1, UsageIsDated
  <1>9. LedgerSays(y, asOf, e, rule, prior, Visible(U, y, asOf), adj, Ledger(y, asOf, e, rule, prior, U, adj))
    BY <1>1, <1>8, LedgerIs
  <1>10. YearOf(r, y, asOf, prior) = Ledger(y, asOf, e, rule, prior, U, adj) BY <1>3, <1>4, <1>6, <1>7
  <1> QED BY <1>2, <1>3, <1>5, <1>6, <1>7, <1>9, <1>10

\* What is left of a year is an amount, or the year before is vague.
LEMMA LeftIs ==
  ASSUME NEW r, AccountWell(r), NEW y \in Int, y < 0 \/ y \in Years
  PROVE  /\ LeftIn(r, y) = Refused <=> y \in Years /\ DaysOf(Bounds(y)) # {} /\ Vague(r, y)
         /\ LeftIn(r, y) # Refused => LeftIn(r, y) \in Nat
  <1>1. Refused \notin Int BY RefusalIsNoAnswer
  <1>2. CASE y < 0 \/ DaysOf(Bounds(y)) = {}
    <2>1. LeftIn(r, y) = 0 BY <1>2 DEF LeftIn
    <2>2. ~ (y \in Years /\ DaysOf(Bounds(y)) # {}) BY <1>2, BoundsOfLeave DEF Years
    <2> QED BY <1>1, <2>1, <2>2
  <1>3. CASE ~ (y < 0 \/ DaysOf(Bounds(y)) = {})
    <2>1. y \in Years /\ DaysOf(Bounds(y)) # {} BY <1>3
    <2>2. PICK a \in Int : a = Year(y).to BY YearIs DEF Interval
    <2>3. LeftIn(r, y) = RestOf(YearOf(r, y, a, 0)) BY <1>3, <2>2 DEF LeftIn
    <2>4. ASSUME Vague(r, y) PROVE LeftIn(r, y) = Refused
      <3>1. YearOf(r, y, a, 0) = Refused BY <2>1, <2>4, YearSays DEF AccountWell
      <3> QED BY <2>3, <3>1 DEF RestOf
    <2>5. ASSUME ~ Vague(r, y) PROVE LeftIn(r, y) \in Nat
      <3>1. PICK b : b = YearOf(r, y, a, 0) OBVIOUS
      <3>2. 0 \in Int OBVIOUS
      <3>3. b \in Answers BY <2>1, <2>5, <3>1, <3>2, YearAnswers DEF LedgerSays
      <3>4. PICK z \in Int : z = b.remaining BY <3>3 DEF Answers
      <3>5. b # Refused BY <3>3, RefusalIsNoAnswer
      <3>6. Max({z, 0}) = IF z >= 0 THEN z ELSE 0 BY <3>2, MaxOfTwo
      <3>7. LeftIn(r, y) = Max({z, 0}) BY <2>3, <3>1, <3>4, <3>5 DEF RestOf
      <3> QED BY <3>6, <3>7
    <2>6. \A n \in Nat : n # Refused BY <1>1
    <2> QED BY <2>1, <2>4, <2>5, <2>6
  <1> QED BY <1>2, <1>3

\* What a balance that answers agrees with.
Agrees(y, asOf, prior, b) ==
  /\ b.used <= 100 * Cardinality(TakenDays(y, {l \in Leave : l.from <= asOf}))
  /\ b.used >= 100 * Cardinality({d \in TakenDays(y, Leave) : d <= asOf})
  /\ b.carriedOverUsed + b.forfeited <= b.carriedOver
  /\ b.carriedOver <= prior
  /\ \A d \in Int :
       (\A t \in TermsWithin(Rows, Bounds(y)) : t.is.rule.carries = TRUE /\ Deadline(y, t.is.rule) = d) =>
         /\ b.carriedOverUsed <= 100 * Cardinality(TakenDays(y, {l \in Leave : l.from <= d}))
         /\ asOf > d => b.carriedOverUsed + b.forfeited = b.carriedOver

LEMMA AnswerIsExact ==
  ASSUME AccountWell(Rows), NEW y \in Years, DaysOf(Bounds(y)) # {}, ~ Vague(Rows, y), NEW asOf \in Int,
         NEW prior \in Nat, NEW b, b = YearOf(Rows, y, asOf, prior)
  PROVE  b # Refused /\ Agrees(y, asOf, prior, b)
  <1>1. PICK S : S = Visible(UsageOf(Rows, y), y, asOf) OBVIOUS
  <1>2. prior \in Int /\ y \in Int /\ Clear(Rows, y) BY DEF Vague, Years
  <1>3. PICK t \in TermsWithin(Rows, Bounds(y)) :
          /\ t.is.rule \in Rules
          /\ LedgerSays(y, asOf, GrantOf(Rows, y), t.is.rule, prior, S, Rows.adjusted[y], b)
    BY <1>1, <1>2, YearAnswers
  <1>4. PICK rule \in Rules : rule = t.is.rule BY <1>3
  <1>5. PICK c \in Nat : c = CarriedOver(prior, rule) /\ c <= prior BY <1>2, CarriedOverIs
  <1>6. PICK P : P = {u \in S : Timely(y, rule, u)} OBVIOUS
  <1>7. S \in SUBSET UsageOf(Rows, y) /\ P \in SUBSET UsageOf(Rows, y) /\ \A u \in S : u.date <= asOf
    BY <1>1, <1>6 DEF Visible
  <1>8. Paid(S) \in Nat /\ Paid(S) <= 100 * Cardinality(TakenDays(y, {l \in Leave : l.from <= asOf}))
    BY <1>2, <1>7, PaidAtMost
  <1>9. Paid(S) >= 100 * Cardinality({d \in TakenDays(y, Leave) : d <= asOf}) BY <1>1, <1>2, PaidAtLeast
  <1>10. Paid(P) \in Nat
    <2>1. IsFiniteSet(UsageOf(Rows, y)) /\ UsageOf(Rows, y) \subseteq Uses BY <1>2, UsageIsDated DEF Dated
    <2>2. IsFiniteSet(P) /\ P \subseteq Uses BY <1>7, <2>1, FS_Subset
    <2> QED BY <2>2, PaidIs
  <1>11. PICK l \in Nat : l = Least(c, Paid(P)) /\ l <= c /\ l <= Paid(P) BY <1>10 DEF Least
  <1>12. PICK x \in BOOLEAN : x <=> rule.carries /\ asOf > Deadline(y, rule) OBVIOUS
  <1>13. /\ b \in Answers /\ b.carriedOver = c /\ b.used = Paid(S) /\ b.carriedOverUsed = l
         /\ b.forfeited = IF x THEN c - l ELSE 0
    BY <1>3, <1>4, <1>5, <1>6, <1>11, <1>12 DEF LedgerSays
  <1>14. b # Refused BY <1>13, RefusalIsNoAnswer
  <1>15. b.carriedOverUsed + b.forfeited <= b.carriedOver BY <1>11, <1>13
  <1>16. ASSUME NEW d \in Int, \A u \in TermsWithin(Rows, Bounds(y)) : u.is.rule.carries = TRUE /\ Deadline(y, u.is.rule) = d
         PROVE  /\ b.carriedOverUsed <= 100 * Cardinality(TakenDays(y, {k \in Leave : k.from <= d}))
                /\ asOf > d => b.carriedOverUsed + b.forfeited = b.carriedOver
    <2>1. rule.carries /\ Deadline(y, rule) = d BY <1>4, <1>16
    <2>2. \A u \in P : u.date <= d BY <1>6, <2>1 DEF Timely
    <2>3. PICK a \in Int : a = 100 * Cardinality(TakenDays(y, {k \in Leave : k.from <= d}))
      <3>1. PICK K : K = {k \in Leave : k.from <= d} OBVIOUS
      <3>2. K \in SUBSET Leave BY <3>1
      <3>3. PICK n \in Nat : n = Cardinality(TakenDays(y, K)) BY <1>2, <3>2, TakenIs
      <3>4. 100 * n \in Int BY <3>3
      <3> QED BY <3>1, <3>3, <3>4
    <2>4. Paid(P) <= a BY <1>2, <1>7, <2>2, <2>3, PaidAtMost
    <2>5. l <= a BY <1>10, <1>11, <2>4
    <2>6. asOf > d => x BY <1>12, <2>1
    <2>7. asOf > d => b.forfeited = c - l BY <1>13, <2>6
    <2>8. asOf > d => b.carriedOverUsed + b.forfeited = b.carriedOver BY <1>11, <1>13, <2>7
    <2> QED BY <1>13, <2>3, <2>5, <2>8
  <1>17. \A d \in Int :
           (\A u \in TermsWithin(Rows, Bounds(y)) : u.is.rule.carries = TRUE /\ Deadline(y, u.is.rule) = d) =>
             /\ b.carriedOverUsed <= 100 * Cardinality(TakenDays(y, {k \in Leave : k.from <= d}))
             /\ asOf > d => b.carriedOverUsed + b.forfeited = b.carriedOver
    BY <1>16
  <1>18. b.carriedOver <= prior BY <1>5, <1>13
  <1> QED BY <1>8, <1>9, <1>13, <1>14, <1>15, <1>17, <1>18 DEF Agrees

LEMMA WellRowsAreExact ==
  ASSUME AccountWell(Rows)
  PROVE  LedgerIsExact
  <1>1. SUFFICES ASSUME NEW y \in Years, DaysOf(Bounds(y)) # {}, NEW asOf \in DaysOf(Year(y))
                 PROVE  Exact(y, asOf, Balance(y, asOf))
    BY DEF LedgerIsExact
  <1>2. y \in Int /\ y - 1 \in Int /\ (y - 1 < 0 \/ y - 1 \in Years) /\ (y > 0 <=> y - 1 \in Years) /\ asOf \in Int
    <2>1. y \in Int /\ y - 1 \in Int /\ (y - 1 < 0 \/ y - 1 \in Years) /\ (y > 0 <=> y - 1 \in Years)
      BY BoundsOfLeave DEF Years
    <2>2. asOf \in Int BY DEF DaysOf
    <2> QED BY <2>1, <2>2
  <1>3. PICK prior, b : prior = LeftIn(Rows, y - 1) /\ b = Balance(y, asOf) OBVIOUS
  <1>4. b = IF prior = Refused THEN Refused ELSE YearOf(Rows, y, asOf, prior)
    BY <1>3, BalanceNow DEF BalanceOf
  <1>5. LeftOf(y - 1) = prior /\ TermsIn(Bounds(y)) = TermsWithin(Rows, Bounds(y)) BY <1>3, BalanceNow
  <1>6. TermsWell(Rows) BY DEF AccountWell
  <1>7. /\ prior = Refused <=> y - 1 \in Years /\ DaysOf(Bounds(y - 1)) # {} /\ Vague(Rows, y - 1)
        /\ prior # Refused => prior \in Nat
    BY <1>2, <1>3, LeftIs
  <1>8. Unclear(y) <=> Vague(Rows, y) BY <1>1, <1>6, UnclearIs
  <1>9. y > 0 /\ Unclear(y - 1) <=> prior = Refused
    <2>1. ASSUME y > 0 PROVE Unclear(y - 1) <=> prior = Refused
      <3>1. y - 1 \in Years BY <1>2, <2>1
      <3> QED BY <1>6, <1>7, <3>1, UnclearIs
    <2>2. ASSUME ~ (y > 0) PROVE prior # Refused BY <1>2, <1>7, <2>2
    <2> QED BY <2>1, <2>2
  <1>10. b = Refused <=> Unclear(y) \/ (y > 0 /\ Unclear(y - 1))
    <2>1. CASE prior = Refused BY <1>4, <1>9, <2>1
    <2>2. CASE prior # Refused /\ Vague(Rows, y)
      <3>1. b = Refused BY <1>1, <1>2, <1>4, <1>6, <2>2, YearSays
      <3> QED BY <1>8, <2>2, <3>1
    <2>3. CASE prior # Refused /\ ~ Vague(Rows, y)
      <3>1. b # Refused BY <1>1, <1>2, <1>4, <1>7, <2>3, AnswerIsExact
      <3> QED BY <1>8, <1>9, <2>3, <3>1
    <2> QED BY <2>1, <2>2, <2>3
  <1>11. ASSUME b # Refused
         PROVE  LET deadlines == {Deadline(y, t.is.rule) : t \in TermsIn(Bounds(y))}
                    carries == {t.is.rule.carries : t \in TermsIn(Bounds(y))}
                    begun(d) == TakenDays(y, {l \in Leave : l.from <= d}) IN
                /\ b.used <= 100 * Cardinality(begun(asOf))
                /\ b.used >= 100 * Cardinality({d \in TakenDays(y, Leave) : d <= asOf})
                /\ b.carriedOverUsed + b.forfeited <= b.carriedOver
                /\ b.carriedOver <= LeftOf(y - 1)
                /\ carries = {TRUE} /\ Cardinality(deadlines) = 1 =>
                     \A d \in deadlines :
                       /\ b.carriedOverUsed <= 100 * Cardinality(begun(d))
                       /\ asOf > d => b.carriedOverUsed + b.forfeited = b.carriedOver
    <2>0. /\ b.used <= 100 * Cardinality(TakenDays(y, {l \in Leave : l.from <= asOf}))
          /\ b.used >= 100 * Cardinality({d \in TakenDays(y, Leave) : d <= asOf})
          /\ b.carriedOverUsed + b.forfeited <= b.carriedOver
          /\ b.carriedOver <= prior
          /\ \A d \in Int :
               (\A t \in TermsWithin(Rows, Bounds(y)) : t.is.rule.carries = TRUE /\ Deadline(y, t.is.rule) = d) =>
                 /\ b.carriedOverUsed <= 100 * Cardinality(TakenDays(y, {l \in Leave : l.from <= d}))
                 /\ asOf > d => b.carriedOverUsed + b.forfeited = b.carriedOver
      <3>1. prior # Refused /\ b = YearOf(Rows, y, asOf, prior) /\ ~ Vague(Rows, y) /\ prior \in Nat
        BY <1>4, <1>7, <1>8, <1>10, <1>11
      <3>2. Agrees(y, asOf, prior, b) BY <1>1, <1>2, <3>1, AnswerIsExact
      <3> QED BY <3>2 DEF Agrees
    <2> DEFINE begun(d) == TakenDays(y, {l \in Leave : l.from <= d})
    <2>2. /\ b.used <= 100 * Cardinality(begun(asOf))
          /\ b.used >= 100 * Cardinality({d \in TakenDays(y, Leave) : d <= asOf})
          /\ b.carriedOverUsed + b.forfeited <= b.carriedOver
          /\ b.carriedOver <= prior
          /\ \A d \in Int :
               (\A t \in TermsWithin(Rows, Bounds(y)) : t.is.rule.carries = TRUE /\ Deadline(y, t.is.rule) = d) =>
                 /\ b.carriedOverUsed <= 100 * Cardinality(begun(d))
                 /\ asOf > d => b.carriedOverUsed + b.forfeited = b.carriedOver
      BY <2>0
    <2> HIDE DEF begun
    <2>3. PICK M : M = TermsIn(Bounds(y)) /\ M = TermsWithin(Rows, Bounds(y)) BY <1>5
    <2>4. PICK ds, cs : ds = {Deadline(y, t.is.rule) : t \in M} /\ cs = {t.is.rule.carries : t \in M} OBVIOUS
    <2>5. ASSUME cs = {TRUE}, Cardinality(ds) = 1, NEW d \in ds
          PROVE  /\ b.carriedOverUsed <= 100 * Cardinality(begun(d))
                 /\ asOf > d => b.carriedOverUsed + b.forfeited = b.carriedOver
      <3>1. \A t \in M : t.is.rule \in Rules BY <1>6, <2>3, TermSays DEF TermsWithin
      <3>2. ds \subseteq Int BY <1>2, <2>4, <3>1, DeadlineIs
      <3>3. IsFiniteSet(ds)
        <4>1. PICK f : f = [t \in M |-> Deadline(y, t.is.rule)] OBVIOUS
        <4>2. ds = {f[t] : t \in M} BY <2>4, <4>1
        <4>3. IsFiniteSet(M) BY <1>1, <1>6, <2>3, TermsOfDays
        <4> QED BY <4>2, <4>3, Image
      <3>4. \E z : ds = {z} BY <2>5, <3>3, MoreThanOne
      <3>5. \A t \in M : t.is.rule.carries = TRUE /\ Deadline(y, t.is.rule) = d BY <2>4, <2>5, <3>4
      <3>6. d \in Int BY <3>2
      <3> QED BY <2>2, <2>3, <3>5, <3>6
    <2>6. /\ b.used <= 100 * Cardinality(begun(asOf))
          /\ b.used >= 100 * Cardinality({d \in TakenDays(y, Leave) : d <= asOf})
          /\ b.carriedOverUsed + b.forfeited <= b.carriedOver
          /\ b.carriedOver <= LeftOf(y - 1)
          /\ cs = {TRUE} /\ Cardinality(ds) = 1 =>
               \A d \in ds :
                 /\ b.carriedOverUsed <= 100 * Cardinality(begun(d))
                 /\ asOf > d => b.carriedOverUsed + b.forfeited = b.carriedOver
      BY <1>5, <2>2, <2>5
    <2> QED BY <2>3, <2>4, <2>6 DEF begun
  <1> QED BY <1>3, <1>10, <1>11 DEF Exact

\* The balance of a year is refused exactly when a day of the appointment has no term, or two, or
\* when terms differ and no one policy shares the year, there or in the year before; otherwise the leave
\* used is that of the working days under the terms of the day, and what was carried over is used
\* by leave that began before the deadline, and is used up or forfeited behind it.
THEOREM LeaveIsExact ==
  AccountSpec => []LedgerIsExact
  BY RowsStayWell, WellRowsAreExact, PTL

-----------------------------------------------------------------------------
(* Leave: the ledger of the rows as they were.                              *)

LEMMA SameLedger ==
  /\ \A S : Earlier!Cardinality(S) = Cardinality(S)
  /\ \A S : Earlier!Max(S) = Max(S)
  /\ \A S : Earlier!Min(S) = Min(S)
  /\ \A i, j : Earlier!Clip(i, j) = Clip(i, j)
  /\ \A i : Earlier!DaysOf(i) = DaysOf(i)
  /\ \A y : Earlier!Year(y) = Year(y)
  /\ \A y : Earlier!Bounds(y) = Bounds(y)
  /\ \A t : Earlier!TermDays(t) = TermDays(t)
  /\ \A t, i : Earlier!Segment(t, i) = Segment(t, i)
  /\ \A i, is : Earlier!WorkingDays(i, is) = WorkingDays(i, is)
  /\ \A y, a, e, s, pp, p, U, adj :
       Earlier!AssignmentLedger(y, a, e, s, pp, p, U, adj) = AssignmentLedger(y, a, e, s, pp, p, U, adj)
  <1>1. \A S : Earlier!Cardinality(S) = Cardinality(S) BY DEF Earlier!Cardinality, Cardinality
  <1>2. (\A S : Earlier!Max(S) = Max(S)) /\ (\A S : Earlier!Min(S) = Min(S))
    BY DEF Earlier!Max, Max, Earlier!Min, Min
  <1>3. \A i, j : Earlier!Clip(i, j) = Clip(i, j) BY <1>2 DEF Earlier!Clip, Clip
  <1>4. /\ \A i : Earlier!DaysOf(i) = DaysOf(i)
        /\ \A y : Earlier!Year(y) = Year(y)
        /\ \A t : Earlier!TermDays(t) = TermDays(t)
        /\ \A t, i : Earlier!Segment(t, i) = Segment(t, i)
    BY DEF Earlier!DaysOf, DaysOf, Earlier!Year, Year, Earlier!YearDays, YearDays,
           Earlier!TermDays, TermDays, Earlier!Segment, Segment
  <1>5. \A y : Earlier!Bounds(y) = Bounds(y) BY <1>3, <1>4 DEF Earlier!Bounds, Bounds
  <1>6. \A i, is : Earlier!WorkingDays(i, is) = WorkingDays(i, is)
    BY <1>4 DEF Earlier!WorkingDays, WorkingDays, Earlier!Works, Works, Earlier!Weekday, Weekday
  <1>7. ASSUME NEW S, NEW rel PROVE Earlier!InOrder(S, rel) = InOrder(S, rel)
    <2>1. PICK rank : rank = [u \in S |-> Cardinality({v \in S : <<v, u>> \in rel})] OBVIOUS
    <2>2. rank = [u \in S |-> Earlier!Cardinality({v \in S : <<v, u>> \in rel})] BY <1>1, <2>1
    <2>3. InOrder(S, rel) = [i \in 1 .. Cardinality(S) |-> CHOOSE u \in S : rank[u] = i - 1]
      BY <2>1 DEF InOrder
    <2>4. Earlier!InOrder(S, rel) = [i \in 1 .. Earlier!Cardinality(S) |-> CHOOSE u \in S : rank[u] = i - 1]
      BY <2>2 DEF Earlier!InOrder
    <2> QED BY <1>1, <2>3, <2>4, Zenon
  <1>8. \A y, rule : Earlier!Deadline(y, rule) = Deadline(y, rule) BY <1>4 DEF Earlier!Deadline, Deadline
  <1>9. \A y, rule, acc, u : Earlier!Spend(y, rule, acc, u) = Spend(y, rule, acc, u)
    BY <1>2, <1>8 DEF Earlier!Spend, Spend
  <1>10. ASSUME NEW y, NEW rule, NEW c, NEW S, NEW a PROVE Earlier!Allocate(y, rule, c, S, a) = Allocate(y, rule, c, S, a)
    <2>1. PICK s : s = InOrder(S, {p \in S \X S : p[1].date < p[2].date}) OBVIOUS
    <2>2. PICK o : o = [left |-> c, used |-> 0, forfeited |-> 0, expired |-> FALSE] OBVIOUS
    <2>3. Earlier!FoldLeft(LAMBDA acc, u : Earlier!Spend(y, rule, acc, u), o, s) = FoldLeft(LAMBDA acc, u : Spend(y, rule, acc, u), o, s)
      BY <1>2, <1>9 DEF Earlier!FoldLeft, FoldLeft, Earlier!MapThenFoldSet, MapThenFoldSet
    <2> QED BY <1>7, <1>8, <2>1, <2>2, <2>3 DEF Earlier!Allocate, Allocate
  <1>11. \A y, a, e, rule, p, U, adj : Earlier!Ledger(y, a, e, rule, p, U, adj) = Ledger(y, a, e, rule, p, U, adj)
    <2>1. \A S : Earlier!MapThenSumSet(LAMBDA u : 100 * u.days, S) = MapThenSumSet(LAMBDA u : 100 * u.days, S)
      BY DEF Earlier!MapThenSumSet, MapThenSumSet, Earlier!MapThenFoldSet, MapThenFoldSet
    <2>2. \A U, y, a : Earlier!Visible(U, y, a) = Visible(U, y, a) BY <1>4 DEF Earlier!Visible, Visible
    <2>3. \A p, rule : Earlier!CarriedOver(p, rule) = CarriedOver(p, rule)
      BY <1>2 DEF Earlier!CarriedOver, CarriedOver
    <2>4. SUFFICES ASSUME NEW y, NEW a, NEW e, NEW rule, NEW p, NEW U, NEW adj
                   PROVE  Earlier!Ledger(y, a, e, rule, p, U, adj) = Ledger(y, a, e, rule, p, U, adj)
      OBVIOUS
    <2>5. PICK S, c : S = Visible(U, y, a) /\ c = CarriedOver(p, rule) OBVIOUS
    <2>6. PICK k, m : k = Allocate(y, rule, c, S, a) /\ m = MapThenSumSet(LAMBDA u : 100 * u.days, S) OBVIOUS
    <2>7. Earlier!Visible(U, y, a) = S /\ Earlier!CarriedOver(p, rule) = c /\ Earlier!Allocate(y, rule, c, S, a) = k
          /\ Earlier!MapThenSumSet(LAMBDA u : 100 * u.days, S) = m
      BY <1>10, <2>1, <2>2, <2>3, <2>5, <2>6
    <2>8. Ledger(y, a, e, rule, p, U, adj) =
            [entitlement |-> e, carriedOver |-> c, used |-> m, carriedOverUsed |-> k.used, forfeited |-> k.forfeited,
             adjustments |-> adj, remaining |-> e + c + adj - k.forfeited - m]
      BY <2>5, <2>6 DEF Ledger
    <2>9. Earlier!Ledger(y, a, e, rule, p, U, adj) =
            [entitlement |-> e, carriedOver |-> c, used |-> m, carriedOverUsed |-> k.used, forfeited |-> k.forfeited,
             adjustments |-> adj, remaining |-> e + c + adj - k.forfeited - m]
      BY <2>7 DEF Earlier!Ledger
    <2> QED BY <2>8, <2>9
  <1>12. \A s, p : Earlier!Shared(s, p) = Shared(s, p)
    BY DEF Earlier!Shared, Shared, Earlier!Hundredths, Hundredths, Earlier!MapThenSumSet, MapThenSumSet,
           Earlier!MapThenFoldSet, MapThenFoldSet, Earlier!YearDays, YearDays, Earlier!Cardinality, Cardinality
  <1>13. \A y, e, h, rule : Earlier!Entitlement(y, e, h, rule) = Entitlement(y, e, h, rule)
    BY <1>3, <1>4 DEF Earlier!Entitlement, Entitlement, Earlier!Hundredths, Hundredths, Earlier!CoveredMonths, CoveredMonths,
       Earlier!MonthOf, MonthOf, Earlier!YearDays, YearDays
  <1>14. \A y, a, p, c : Earlier!PolicyDay(y, a, p, c) = PolicyDay(y, a, p, c)
    BY <1>2, <1>4 DEF Earlier!PolicyDay, PolicyDay
  <1>15. \A s, c : Earlier!CoversOnce(s, c) <=> CoversOnce(s, c)
    BY <1>1, <1>4 DEF Earlier!CoversOnce, CoversOnce
  <1>16. \A s : Earlier!Alike(s) <=> Alike(s) BY DEF Earlier!Alike, Alike
  <1>17. ASSUME NEW y, NEW a, NEW e, NEW s, NEW pp, NEW p, NEW U, NEW adj
         PROVE  Earlier!AssignmentLedger(y, a, e, s, pp, p, U, adj) = AssignmentLedger(y, a, e, s, pp, p, U, adj)
    <2>1. PICK c, q : c = Clip(e, Year(y)) /\ q = CHOOSE z \in pp : TRUE OBVIOUS
    <2>2. PICK f : f = CHOOSE z \in s : c.from \in DaysOf(z) OBVIOUS
    <2>3. PICK g : g = CHOOSE z \in s : PolicyDay(y, a, q, c) \in DaysOf(z) OBVIOUS
    <2>4. Earlier!Clip(e, Earlier!Year(y)) = c BY <1>3, <1>4, <2>1
    <2>5. Earlier!PolicyDay(y, a, q, c) = PolicyDay(y, a, q, c) BY <1>14
    <2>6. PICK w : w = PolicyDay(y, a, q, c) OBVIOUS
    <2>7. (CHOOSE z \in s : c.from \in Earlier!DaysOf(z)) = f BY <2>2 DEF Earlier!DaysOf, DaysOf
    <2>8. (CHOOSE z \in s : Earlier!PolicyDay(y, a, q, c) \in Earlier!DaysOf(z)) = g
      <3>1. g = CHOOSE z \in s : w \in DaysOf(z) BY <2>3, <2>6
      <3>2. Earlier!PolicyDay(y, a, q, c) = w BY <2>5, <2>6
      <3>3. (CHOOSE z \in s : w \in Earlier!DaysOf(z)) = g BY <3>1 DEF Earlier!DaysOf, DaysOf
      <3> QED BY <3>2, <3>3
    <2>9. AssignmentLedger(y, a, e, s, pp, p, U, adj) =
            CASE ~ CoversOnce(s, c) -> Refused
              [] CoversOnce(s, c) /\ Alike(s) ->
                   Ledger(y, a, Entitlement(y, e, f.hours, f.rule), f.rule, p, U, adj)
              [] OTHER -> IF pp = {} THEN Refused ELSE Ledger(y, a, Shared(s, q), g.rule, p, U, adj)
      BY <2>1, <2>2, <2>3 DEF AssignmentLedger
    <2>10. Earlier!AssignmentLedger(y, a, e, s, pp, p, U, adj) =
            CASE ~ Earlier!CoversOnce(s, c) -> Refused
              [] Earlier!CoversOnce(s, c) /\ Earlier!Alike(s) ->
                   Earlier!Ledger(y, a, Earlier!Entitlement(y, e, f.hours, f.rule), f.rule, p, U, adj)
              [] OTHER -> IF pp = {} THEN Refused ELSE Earlier!Ledger(y, a, Earlier!Shared(s, q), g.rule, p, U, adj)
      <3>1. PICK k : k = Earlier!Clip(e, Earlier!Year(y)) OBVIOUS
      <3>2. PICK h, j : /\ h = (CHOOSE z \in s : k.from \in Earlier!DaysOf(z))
                        /\ j = (CHOOSE z \in s : Earlier!PolicyDay(y, a, q, k) \in Earlier!DaysOf(z))
        OBVIOUS
      <3>3. Earlier!AssignmentLedger(y, a, e, s, pp, p, U, adj) =
              CASE ~ Earlier!CoversOnce(s, k) -> Refused
                [] Earlier!CoversOnce(s, k) /\ Earlier!Alike(s) ->
                     Earlier!Ledger(y, a, Earlier!Entitlement(y, e, h.hours, h.rule), h.rule, p, U, adj)
                [] OTHER -> IF pp = {} THEN Refused ELSE Earlier!Ledger(y, a, Earlier!Shared(s, q), j.rule, p, U, adj)
        BY <2>1, <3>1, <3>2 DEF Earlier!AssignmentLedger
      <3>4. k = c BY <2>4, <3>1
      <3>5. h = f /\ j = g BY <2>7, <2>8, <3>2, <3>4, Zenon
      <3> QED BY <3>3, <3>4, <3>5
    <2> QED BY <1>11, <1>12, <1>13, <1>15, <1>16, <2>9, <2>10
  <1> QED BY <1>1, <1>2, <1>3, <1>4, <1>5, <1>6, <1>17

LEMMA BalanceBefore ==
  \A y, asOf : Earlier!Balance(y, asOf) = BalanceOf(before, y, asOf)
  <1>1. /\ \A i, j : Earlier!Clip(i, j) = Clip(i, j)
        /\ \A i : Earlier!DaysOf(i) = DaysOf(i)
        /\ \A y : Earlier!Year(y) = Year(y)
        /\ \A y : Earlier!Bounds(y) = Bounds(y)
        /\ \A t : Earlier!TermDays(t) = TermDays(t)
        /\ \A S : Earlier!Cardinality(S) = Cardinality(S)
        /\ \A S : Earlier!Max(S) = Max(S)
    BY SameLedger
  <1>2. \A i : Earlier!TermsIn(i) = TermsWithin(before, i)
    BY DEF Earlier!TermsIn, TermsWithin, Earlier!TermDays, TermDays
  <1>3. \A y : Earlier!TermsIn(Earlier!Bounds(y)) = TermsWithin(before, Bounds(y)) BY <1>1, <1>2
  <1>4. ASSUME NEW y PROVE Earlier!Usage(y) = UsageOf(before, y)
    <2>1. PICK A, M, b : A = {l \in Leave : before.leave[l] = "APPROVED"} /\ M = TermsWithin(before, Bounds(y)) /\ b = Bounds(y)
      OBVIOUS
    <2>2. PICK cut : cut = [x \in A \X M |-> Clip(Clip(x[1], b), TermDays(x[2]))] OBVIOUS
    <2>3. PICK off : off = [x \in A \X M |-> WorkingDays(cut[x], x[2].is)] OBVIOUS
    <2>4. UsageOf(before, y) = {[date |-> cut[x].from, days |-> Cardinality(off[x])] : x \in {z \in A \X M : off[z] # {}}}
      BY <2>1, <2>2, <2>3 DEF UsageOf, Used, Pieces, Worked, Cut, Approved
    <2>5. PICK was : was = [x \in A \X M |-> Earlier!Clip(Earlier!Clip(x[1], Earlier!Bounds(y)), Earlier!TermDays(x[2]))]
      OBVIOUS
    <2>6. was = cut BY <1>1, <2>1, <2>2, <2>5
    <2>7. PICK wd : wd = [x \in A \X M |-> Earlier!WorkingDays(was[x], x[2].is)] OBVIOUS
    <2>8. wd = off
      <3>1. \A i, is : Earlier!WorkingDays(i, is) = WorkingDays(i, is) BY SameLedger
      <3> QED BY <2>3, <2>6, <2>7, <3>1
    <2>9. PICK num : num = [x \in A \X M |-> Earlier!Cardinality(wd[x])] OBVIOUS
    <2>10. num = [x \in A \X M |-> Cardinality(off[x])] BY <1>1, <2>8, <2>9
    <2>11. PICK m : m = Earlier!TermsIn(Earlier!Bounds(y)) OBVIOUS
    <2>12. m = M BY <1>3, <2>1, <2>11
    <2>13. \A x \in A \X M :
             /\ was[x] = Earlier!Clip(Earlier!Clip(x[1], Earlier!Bounds(y)), Earlier!TermDays(x[2]))
             /\ wd[x] = Earlier!WorkingDays(was[x], x[2].is)
             /\ num[x] = Earlier!Cardinality(wd[x]) /\ num[x] = Cardinality(off[x])
      BY <2>5, <2>7, <2>9, <2>10
    <2>14. Earlier!Usage(y) =
            {[date |-> Earlier!Clip(Earlier!Clip(x[1], Earlier!Bounds(y)), Earlier!TermDays(x[2])).from,
              days |-> Earlier!Cardinality(Earlier!WorkingDays(
                         Earlier!Clip(Earlier!Clip(x[1], Earlier!Bounds(y)), Earlier!TermDays(x[2])), x[2].is))] :
               x \in {z \in A \X m :
                        Earlier!WorkingDays(Earlier!Clip(Earlier!Clip(z[1], Earlier!Bounds(y)), Earlier!TermDays(z[2])),
                                            z[2].is) # {}}}
      BY <2>1, <2>11 DEF Earlier!Usage
    <2>15. Earlier!Usage(y) = {[date |-> was[x].from, days |-> num[x]] : x \in {z \in A \X M : wd[z] # {}}}
      <3>1. PICK P : P = {z \in A \X m :
                        Earlier!WorkingDays(Earlier!Clip(Earlier!Clip(z[1], Earlier!Bounds(y)), Earlier!TermDays(z[2])),
                                            z[2].is) # {}}
        OBVIOUS
      <3>2. \A z \in A \X M : wd[z] = Earlier!WorkingDays(
                                        Earlier!Clip(Earlier!Clip(z[1], Earlier!Bounds(y)), Earlier!TermDays(z[2])), z[2].is)
        BY <2>5, <2>7
      <3>3. P = {z \in A \X M : wd[z] # {}} BY <2>12, <3>1, <3>2
      <3>4. PICK Q : Q = {[date |-> was[x].from, days |-> num[x]] : x \in P} OBVIOUS
      <3>5. PICK R : R = {[date |-> Earlier!Clip(Earlier!Clip(x[1], Earlier!Bounds(y)), Earlier!TermDays(x[2])).from,
                           days |-> Earlier!Cardinality(Earlier!WorkingDays(
                             Earlier!Clip(Earlier!Clip(x[1], Earlier!Bounds(y)), Earlier!TermDays(x[2])), x[2].is))] : x \in P}
        OBVIOUS
      <3>6. Earlier!Usage(y) = R BY <2>14, <3>1, <3>5
      <3>7. \A x \in P :
              /\ was[x].from = Earlier!Clip(Earlier!Clip(x[1], Earlier!Bounds(y)), Earlier!TermDays(x[2])).from
              /\ num[x] = Earlier!Cardinality(Earlier!WorkingDays(
                            Earlier!Clip(Earlier!Clip(x[1], Earlier!Bounds(y)), Earlier!TermDays(x[2])), x[2].is))
        BY <2>13, <3>2, <3>3
      <3>8. R = Q BY <3>4, <3>5, <3>7
      <3> QED BY <3>3, <3>4, <3>6, <3>8
    <2>16. UsageOf(before, y) = {[date |-> cut[x].from, days |-> num[x]] : x \in {z \in A \X M : off[z] # {}}}
      BY <2>4, <2>13
    <2> QED BY <2>6, <2>8, <2>15, <2>16
  <1>5. ASSUME NEW y, NEW asOf, NEW prior PROVE Earlier!YearLedger(y, asOf, prior) = YearOf(before, y, asOf, prior)
    <2>1. PICK M, pp : M = TermsWithin(before, Bounds(y)) /\ pp = {t.is.policy : t \in M} \ {Nothing} OBVIOUS
    <2>2. PICK S : S = {Segment(t, Clip(TermDays(t), Bounds(y))) : t \in M} OBVIOUS
    <2>3. YearOf(before, y, asOf, prior) =
            IF Cardinality(pp) > 1 THEN Refused
            ELSE AssignmentLedger(y, asOf, Employed, S, pp, prior, UsageOf(before, y), before.adjusted[y])
      BY <2>1, <2>2 DEF YearOf, PoliciesOf, Shares, Part
    <2>4. \A t : Earlier!Segment(t, Earlier!Clip(Earlier!TermDays(t), Earlier!Bounds(y))) = Segment(t, Clip(TermDays(t), Bounds(y)))
      BY SameLedger
    <2>5. S = {Earlier!Segment(t, Earlier!Clip(Earlier!TermDays(t), Earlier!Bounds(y))) : t \in M}
      BY <2>2, <2>4
    <2>6. Earlier!YearLedger(y, asOf, prior) =
            IF Earlier!Cardinality(pp) > 1 THEN Refused
            ELSE Earlier!AssignmentLedger(y, asOf, Employed, S, pp, prior, Earlier!Usage(y), before.adjusted[y])
      <3>1. PICK m : m = Earlier!TermsIn(Earlier!Bounds(y)) OBVIOUS
      <3>2. Earlier!YearLedger(y, asOf, prior) =
              IF Earlier!Cardinality({t.is.policy : t \in m} \ {Nothing}) > 1 THEN Refused
              ELSE Earlier!AssignmentLedger(y, asOf, Employed,
                     {Earlier!Segment(t, Earlier!Clip(Earlier!TermDays(t), Earlier!Bounds(y))) : t \in m},
                     {t.is.policy : t \in m} \ {Nothing}, prior, Earlier!Usage(y), before.adjusted[y])
        BY <3>1 DEF Earlier!YearLedger
      <3>3. m = M BY <1>3, <2>1, <3>1
      <3> QED BY <2>1, <2>5, <3>2, <3>3
    <2>7. Earlier!AssignmentLedger(y, asOf, Employed, S, pp, prior, Earlier!Usage(y), before.adjusted[y])
            = AssignmentLedger(y, asOf, Employed, S, pp, prior, UsageOf(before, y), before.adjusted[y])
      BY <1>4, SameLedger
    <2> QED BY <1>1, <2>3, <2>6, <2>7
  <1>6. ASSUME NEW y PROVE Earlier!LeftOf(y) = LeftIn(before, y)
    <2>1. PICK b : b = YearOf(before, y, Year(y).to, 0) OBVIOUS
    <2>2. LeftIn(before, y) = IF y < 0 \/ DaysOf(Bounds(y)) = {} THEN 0 ELSE IF b = Refused THEN Refused ELSE Max({b.remaining, 0})
      BY <2>1 DEF LeftIn, RestOf
    <2>3. Earlier!YearLedger(y, Earlier!Year(y).to, 0) = b /\ Earlier!DaysOf(Earlier!Bounds(y)) = DaysOf(Bounds(y))
          /\ Earlier!Max({b.remaining, 0}) = Max({b.remaining, 0})
      BY <1>1, <1>5, <2>1
    <2>4. Earlier!LeftOf(y) = IF y < 0 \/ DaysOf(Bounds(y)) = {} THEN 0 ELSE IF b = Refused THEN Refused ELSE Max({b.remaining, 0})
      BY <2>3 DEF Earlier!LeftOf
    <2> QED BY <2>2, <2>4
  <1> QED BY <1>5, <1>6 DEF Earlier!Balance, BalanceOf

-----------------------------------------------------------------------------
(* Leave: what a year leaves at its end, and how that moves with what was    *)
(* left before it and with the leave of the year.                           *)

LEMMA PaidTogether ==
  ASSUME NEW U, NEW N, IsFiniteSet(U), IsFiniteSet(N), U \subseteq Uses, N \subseteq Uses, U \cap N = {}
  PROVE  Paid(U \cup N) = Paid(U) + Paid(N) /\ Paid(U) \in Nat /\ Paid(N) \in Nat
  <1>1. PICK T : T = {P \in SUBSET N : Paid(U \cup P) = Paid(U) + Paid(P)} OBVIOUS
  <1>2. PICK a \in Nat : a = Paid(U) BY PaidIs
  <1>3. {} \in T
    <2>1. U \cup {} = U OBVIOUS
    <2>2. Paid({}) = 0 BY FS_EmptySet, PaidIs
    <2>3. Paid(U \cup {}) = Paid(U) + Paid({}) BY <1>2, <2>1, <2>2
    <2> QED BY <1>1, <2>3
  <1>4. ASSUME NEW P \in T, NEW e \in N, P \subseteq N, e \notin P PROVE P \cup {e} \in T
    <2>1. IsFiniteSet(P) /\ P \subseteq Uses /\ e \in Uses /\ e \notin U \cup P BY <1>4, FS_Subset
    <2>2. PICK V : V = U \cup P OBVIOUS
    <2>3. IsFiniteSet(V) /\ V \subseteq Uses /\ e \notin V BY <2>1, <2>2, FS_Union
    <2>4. Paid(V \cup {e}) = Paid(V) + Price(e) /\ Paid(P \cup {e}) = Paid(P) + Price(e)
      BY <1>4, <2>1, <2>3, OneMorePaid
    <2>5. Paid(V) = Paid(U) + Paid(P) BY <1>1, <2>2
    <2>6. PICK p \in Nat, c \in Nat : p = Paid(P) /\ c = Price(e) BY <2>1, PaidIs DEF Price, Uses
    <2>7. Paid(V \cup {e}) = Paid(U) + Paid(P \cup {e}) BY <1>2, <2>4, <2>5, <2>6
    <2>8. V \cup {e} = U \cup (P \cup {e}) BY <2>2
    <2> QED BY <1>1, <1>4, <2>7, <2>8
  <1>5. \A P \in T, e \in N : P \subseteq N /\ e \notin P => P \cup {e} \in T BY <1>4
  <1>6. \A P \in SUBSET N : P \in T BY <1>3, <1>5, GrowingSets
  <1> QED BY <1>1, <1>6, PaidIs

\* What is carried over into a year, less what is forfeited and used.
Lapsed(y, rule) == rule.carries /\ Year(y).to > Deadline(y, rule)
TimelyOf(y, rule, U) == {u \in U : Timely(y, rule, u)}
Gain(y, rule, prior, U) ==
  (IF Lapsed(y, rule) THEN Least(CarriedOver(prior, rule), Paid(TimelyOf(y, rule, U))) ELSE CarriedOver(prior, rule))
    - Paid(U)

LEMMA GainIs ==
  ASSUME NEW y \in Int, NEW rule \in Rules, NEW U, IsFiniteSet(U), U \subseteq Uses, NEW p \in Nat, NEW q \in Nat, p <= q
  PROVE  /\ Gain(y, rule, p, U) \in Int /\ Gain(y, rule, q, U) \in Int
         /\ Gain(y, rule, p, U) <= Gain(y, rule, q, U)
         /\ Gain(y, rule, q, U) <= Gain(y, rule, p, U) + (q - p)
  <1>1. PICK P : P = TimelyOf(y, rule, U) OBVIOUS
  <1>2. IsFiniteSet(P) /\ P \subseteq Uses BY <1>1, FS_Subset DEF TimelyOf
  <1>3. PICK a \in Nat, b \in Nat : a = Paid(U) /\ b = Paid(P) BY <1>2, PaidIs
  <1>4. PICK m \in Nat : m = 100 * rule.maxCarried BY DEF Rules
  <1>5. p \in Int /\ q \in Int OBVIOUS
  <1>6. CarriedOver(p, rule) = Least(p, m) /\ CarriedOver(q, rule) = Least(q, m) BY <1>4, <1>5, CarriedOverIs
  <1>7. PICK c \in Nat, d \in Nat : c = CarriedOver(p, rule) /\ d = CarriedOver(q, rule)
    BY <1>5, CarriedOverIs
  <1>8. c <= d /\ d <= c + (q - p) BY <1>6, <1>7 DEF Least
  <1>9. PICK x \in BOOLEAN : x <=> Lapsed(y, rule) OBVIOUS
  <1>10. PICK v, w : v = (IF x THEN Least(c, b) ELSE c) /\ w = (IF x THEN Least(d, b) ELSE d) OBVIOUS
  <1>11. v \in Nat /\ w \in Nat /\ v <= w /\ w <= v + (q - p) BY <1>8, <1>10 DEF Least
  <1>12. Gain(y, rule, p, U) = v - a /\ Gain(y, rule, q, U) = w - a BY <1>1, <1>3, <1>7, <1>9, <1>10 DEF Gain
  <1> QED BY <1>11, <1>12

\* More leave costs at most its days, and gives nothing.
LEMMA GainOfMore ==
  ASSUME NEW y \in Int, NEW rule \in Rules, NEW U, NEW N, IsFiniteSet(U), IsFiniteSet(N), U \subseteq Uses, N \subseteq Uses,
         U \cap N = {}, NEW p \in Nat
  PROVE  /\ Gain(y, rule, p, U \cup N) <= Gain(y, rule, p, U)
         /\ Gain(y, rule, p, U) - Paid(N) <= Gain(y, rule, p, U \cup N)
         /\ Paid(N) \in Nat /\ Gain(y, rule, p, U) \in Int /\ Gain(y, rule, p, U \cup N) \in Int
  <1>1. PICK P, Q, R : P = TimelyOf(y, rule, U) /\ Q = TimelyOf(y, rule, N) /\ R = N \ Q OBVIOUS
  <1>2. /\ IsFiniteSet(P) /\ P \subseteq Uses /\ IsFiniteSet(Q) /\ Q \subseteq Uses /\ P \cap Q = {}
        /\ IsFiniteSet(R) /\ R \subseteq Uses /\ Q \cap R = {} /\ Q \cup R = N
    <2>1. P \subseteq U /\ Q \subseteq N /\ R \subseteq N BY <1>1 DEF TimelyOf
    <2>2. IsFiniteSet(P) /\ IsFiniteSet(Q) /\ IsFiniteSet(R) BY <2>1, FS_Subset
    <2> QED BY <1>1, <2>1, <2>2
  <1>3. TimelyOf(y, rule, U \cup N) = P \cup Q BY <1>1 DEF TimelyOf
  <1>4. Paid(U \cup N) = Paid(U) + Paid(N) /\ Paid(P \cup Q) = Paid(P) + Paid(Q) /\ Paid(Q \cup R) = Paid(Q) + Paid(R)
    BY <1>2, PaidTogether
  <1>5. PICK a \in Nat, n \in Nat, b \in Nat, e \in Nat, f \in Nat :
          a = Paid(U) /\ n = Paid(N) /\ b = Paid(P) /\ e = Paid(Q) /\ f = Paid(R)
    BY <1>2, PaidIs
  <1>6. n = e + f BY <1>2, <1>4, <1>5
  <1>7. PICK c \in Nat : c = CarriedOver(p, rule) BY CarriedOverIs
  <1>8. PICK x \in BOOLEAN : x <=> Lapsed(y, rule) OBVIOUS
  <1>9. PICK v, w : v = (IF x THEN Least(c, b) ELSE c) /\ w = (IF x THEN Least(c, b + e) ELSE c) OBVIOUS
  <1>10. v \in Nat /\ w \in Nat /\ v <= w /\ w <= v + e BY <1>9 DEF Least
  <1>11. Gain(y, rule, p, U) = v - a /\ Gain(y, rule, p, U \cup N) = w - (a + n)
    BY <1>1, <1>3, <1>4, <1>5, <1>7, <1>8, <1>9 DEF Gain
  <1> QED BY <1>5, <1>6, <1>10, <1>11

\* What the rows leave at the end of a year, and what that passes on.
EndOf(r, y, prior) == GrantOf(r, y) + r.adjusted[y] + Gain(y, RuleOf(r, y, Year(y).to), prior, UsageOf(r, y))
Rest(z) == IF z >= 0 THEN z ELSE 0
PriorOf(r, y) == IF y \in Years /\ DaysOf(Bounds(y)) # {} THEN Rest(EndOf(r, y, 0)) ELSE 0

LEMMA EndIs ==
  ASSUME NEW r, AccountWell(r), NEW y \in Years, DaysOf(Bounds(y)) # {}, ~ Vague(r, y), NEW prior \in Nat
  PROVE  /\ RuleOf(r, y, Year(y).to) \in Rules /\ GrantOf(r, y) \in Int /\ r.adjusted[y] \in Int
         /\ IsFiniteSet(UsageOf(r, y)) /\ UsageOf(r, y) \subseteq Uses
         /\ YearOf(r, y, Year(y).to, prior).remaining = EndOf(r, y, prior)
         /\ YearOf(r, y, Year(y).to, prior) # Refused /\ EndOf(r, y, prior) \in Int
  <1>1. PICK e \in Int : e = Year(y).to BY YearIs DEF Interval, Years
  <1>2. y \in Int /\ prior \in Int /\ Clear(r, y) BY DEF Years, Vague
  <1>3. PICK U : U = UsageOf(r, y) OBVIOUS
  <1>4. Dated(U) BY <1>2, <1>3, UsageIsDated
  <1>5. Visible(U, y, e) = U
    <2>1. ASSUME NEW u \in U PROVE u.date \in DaysOf(Year(y)) /\ u.date <= e
      <3>1. PICK x \in Pieces(r, y) : u = Used(y, x) BY <1>3 DEF UsageOf
      <3>2. x \in Leave \X r.terms /\ u.date \in DaysOf(Cut(y, x[1], x[2])) BY <1>2, <3>1, PiecesLieApart
      <3>3. u.date \in DaysOf(Bounds(y)) BY <3>2, CutIs DEF AccountWell
      <3>4. u.date \in DaysOf(Year(y)) BY <1>2, <3>3, YearIs
      <3>5. Year(y) \in Interval BY <1>2, YearIs
      <3> QED BY <1>1, <3>4, <3>5 DEF DaysOf, Interval
    <2> QED BY <2>1 DEF Visible
  <1>6. PICK t \in TermsWithin(r, Bounds(y)) :
          /\ RuleOf(r, y, e) = t.is.rule /\ t.is.rule \in Rules /\ GrantOf(r, y) \in Int
          /\ LedgerSays(y, e, GrantOf(r, y), t.is.rule, prior, Visible(U, y, e), r.adjusted[y], YearOf(r, y, e, prior))
    BY <1>2, <1>3, YearAnswers
  <1>7. PICK rule \in Rules, g \in Int, adj \in Int : rule = RuleOf(r, y, e) /\ g = GrantOf(r, y) /\ adj = r.adjusted[y]
    BY <1>6 DEF AccountWell, LeaveWell
  <1>8. PICK b : b = YearOf(r, y, e, prior) OBVIOUS
  <1>9. LedgerSays(y, e, g, rule, prior, U, adj, b) BY <1>5, <1>6, <1>7, <1>8
  <1>10. TimelyOf(y, rule, U) = {u \in U : Timely(y, rule, u)} BY DEF TimelyOf
  <1>11. PICK c \in Nat : c = CarriedOver(prior, rule) BY <1>2, CarriedOverIs
  <1>12. PICK a \in Nat, p \in Nat : a = Paid(TimelyOf(y, rule, U)) /\ p = Paid(U)
    <2>1. IsFiniteSet(U) /\ U \subseteq Uses BY <1>4 DEF Dated
    <2>2. TimelyOf(y, rule, U) \subseteq U BY <1>10
    <2>3. IsFiniteSet(TimelyOf(y, rule, U)) /\ TimelyOf(y, rule, U) \subseteq Uses BY <2>1, <2>2, FS_Subset
    <2> QED BY <2>1, <2>3, PaidIs
  <1>13. PICK x \in BOOLEAN : x <=> Lapsed(y, rule) OBVIOUS
  <1>14. PICK l \in Nat : l = Least(c, a) BY DEF Least
  <1>15. b \in Answers /\ b.remaining = g + c + adj - (IF x THEN c - l ELSE 0) - p
    BY <1>1, <1>9, <1>10, <1>11, <1>12, <1>13, <1>14 DEF LedgerSays, Lapsed
  <1>16. Gain(y, rule, prior, U) = (IF x THEN l ELSE c) - p BY <1>11, <1>12, <1>13, <1>14 DEF Gain
  <1>17. EndOf(r, y, prior) = g + adj + ((IF x THEN l ELSE c) - p) BY <1>1, <1>3, <1>7, <1>16 DEF EndOf
  <1>18. b.remaining = EndOf(r, y, prior) /\ EndOf(r, y, prior) \in Int BY <1>15, <1>17
  <1>19. b # Refused BY <1>15, RefusalIsNoAnswer
  <1> QED BY <1>1, <1>3, <1>4, <1>7, <1>8, <1>18, <1>19 DEF Dated

\* A balance that answers, at the end of a year.
LEMMA BalanceAtEnd ==
  ASSUME NEW r, AccountWell(r), NEW y \in Years, DaysOf(Bounds(y)) # {}, BalanceOf(r, y, Year(y).to) # Refused
  PROVE  /\ ~ Vague(r, y) /\ (y - 1 \in Years /\ DaysOf(Bounds(y - 1)) # {} => ~ Vague(r, y - 1))
         /\ PriorOf(r, y - 1) \in Nat
         /\ BalanceOf(r, y, Year(y).to).remaining = EndOf(r, y, PriorOf(r, y - 1))
  <1>1. y \in Int /\ y - 1 \in Int /\ (y - 1 < 0 \/ y - 1 \in Years) /\ (y - 1 < 0 => y - 1 \notin Years)
    BY BoundsOfLeave DEF Years
  <1>0. PICK e \in Int : e = Year(y).to BY <1>1, YearIs DEF Interval
  <1>2. PICK prior : e = Year(y).to /\ prior = LeftIn(r, y - 1) BY <1>0
  <1>3. prior # Refused /\ BalanceOf(r, y, e) = YearOf(r, y, e, prior) BY <1>2 DEF BalanceOf
  <1>4. ~ Vague(r, y) BY <1>2, <1>3, YearSays DEF AccountWell
  <1>5. prior \in Nat /\ (y - 1 \in Years /\ DaysOf(Bounds(y - 1)) # {} => ~ Vague(r, y - 1))
    BY <1>1, <1>2, <1>3, LeftIs
  <1>6. prior = PriorOf(r, y - 1)
    <2>1. CASE ~ (y - 1 \in Years /\ DaysOf(Bounds(y - 1)) # {}) BY <1>1, <1>2, <2>1 DEF LeftIn, PriorOf
    <2>2. CASE y - 1 \in Years /\ DaysOf(Bounds(y - 1)) # {}
      <3>1. PICK x \in Years : x = y - 1 BY <2>2
      <3>2. PICK b : b = YearOf(r, x, Year(x).to, 0) OBVIOUS
      <3>3. b # Refused /\ b.remaining = EndOf(r, x, 0) /\ EndOf(r, x, 0) \in Int
        BY <1>5, <2>2, <3>1, <3>2, EndIs
      <3>4. prior = RestOf(b) BY <1>1, <1>2, <2>2, <3>1, <3>2 DEF LeftIn
      <3>5. PICK z \in Int : z = EndOf(r, x, 0) BY <3>3
      <3>6. 0 \in Int OBVIOUS
      <3>7. Max({z, 0}) = Rest(z) BY <3>6, MaxOfTwo DEF Rest
      <3> QED BY <2>2, <3>1, <3>3, <3>4, <3>5, <3>7 DEF RestOf, PriorOf
    <2> QED BY <2>1, <2>2
  <1>7. BalanceOf(r, y, e).remaining = EndOf(r, y, prior) BY <1>2, <1>3, <1>4, <1>5, EndIs
  <1> QED BY <1>2, <1>4, <1>5, <1>6, <1>7

-----------------------------------------------------------------------------
(* Leave: what approving and cancelling move, and what an adjustment moves.  *)

LEMMA SameTermsSay ==
  ASSUME NEW r, NEW s, s.terms = r.terms
  PROVE  /\ \A y : GrantOf(s, y) = GrantOf(r, y) /\ (Vague(s, y) <=> Vague(r, y)) /\ (Clear(s, y) <=> Clear(r, y))
         /\ \A y, a : RuleOf(s, y, a) = RuleOf(r, y, a)
         /\ \A d : TermsOn(s, d) = TermsOn(r, d)
         /\ \A i : TermsWithin(s, i) = TermsWithin(r, i)
  <1>1. \A d : TermsOn(s, d) = TermsOn(r, d) BY DEF TermsOn
  <1>2. \A i : TermsWithin(s, i) = TermsWithin(r, i) BY DEF TermsWithin
  <1>3. \A y : Clear(s, y) <=> Clear(r, y) BY <1>1 DEF Clear
  <1>4. \A y : Shares(s, y) = Shares(r, y) /\ PoliciesOf(s, y) = PoliciesOf(r, y)
    BY <1>2 DEF Shares, PoliciesOf
  <1>5. \A y, d : ShareOn(s, y, d) = ShareOn(r, y, d) BY <1>4 DEF ShareOn
  <1>6. \A y : PolicyOf(s, y) = PolicyOf(r, y) BY <1>4 DEF PolicyOf
  <1>7. \A y : GrantOf(s, y) = GrantOf(r, y) BY <1>4, <1>5, <1>6 DEF GrantOf
  <1>8. \A y, a : RuleOf(s, y, a) = RuleOf(r, y, a) BY <1>4, <1>5, <1>6 DEF RuleOf
  <1>9. \A y : Vague(s, y) <=> Vague(r, y) BY <1>3, <1>4 DEF Vague
  <1> QED BY <1>1, <1>2, <1>3, <1>7, <1>8, <1>9

\* What is left before a year moves its end by as much at most.
LEMMA EndMoves ==
  ASSUME NEW r, AccountWell(r), NEW y \in Years, DaysOf(Bounds(y)) # {}, ~ Vague(r, y),
         NEW p \in Nat, NEW q \in Nat, p <= q
  PROVE  /\ EndOf(r, y, p) \in Int /\ EndOf(r, y, q) \in Int
         /\ EndOf(r, y, p) <= EndOf(r, y, q) /\ EndOf(r, y, q) <= EndOf(r, y, p) + (q - p)
  <1>1. PICK rule \in Rules, g \in Int, j \in Int : rule = RuleOf(r, y, Year(y).to) /\ g = GrantOf(r, y) /\ j = r.adjusted[y]
    BY EndIs
  <1>2. PICK U : U = UsageOf(r, y) OBVIOUS
  <1>3. IsFiniteSet(U) /\ U \subseteq Uses /\ y \in Int BY <1>2, EndIs DEF Years
  <1>4. PICK v \in Int, w \in Int : v = Gain(y, rule, p, U) /\ w = Gain(y, rule, q, U) /\ v <= w /\ w <= v + (q - p)
    BY <1>3, GainIs
  <1>5. EndOf(r, y, p) = g + j + v /\ EndOf(r, y, q) = g + j + w BY <1>1, <1>2, <1>4 DEF EndOf
  <1> QED BY <1>4, <1>5

\* The days of leave that somebody would have worked under the terms of the rows.
OffIn(r, l, y) == {d \in DaysOf(Clip(l, Bounds(y))) : \A t \in TermsOn(r, d) : Works(d, t.is)}

LEMMA OffInIs ==
  ASSUME NEW r, NEW l \in Leave, NEW y \in Int
  PROVE  /\ IsFiniteSet(OffIn(r, l, y)) /\ Cardinality(OffIn(r, l, y)) \in Nat
         /\ \A d : d \in OffIn(r, l, y) <=> /\ d \in DaysOf(l) /\ d \in DaysOf(Bounds(y))
                                            /\ \A t \in TermsOn(r, d) : Works(d, t.is)
  <1>0. l \in Interval /\ Bounds(y) \in Interval
    <2>1. l \in Interval BY LeaveIsProper DEF Interval
    <2> QED BY <2>1, YearIs
  <1>1. PICK i \in Interval, b \in Interval : i = l /\ b = Bounds(y) BY <1>0
  <1>2. PICK c : c = Clip(i, b) OBVIOUS
  <1>3. c \in Interval /\ \A d : d \in DaysOf(c) <=> d \in DaysOf(i) /\ d \in DaysOf(b) BY <1>2, ClipIs
  <1>4. OffIn(r, l, y) = {d \in DaysOf(c) : \A t \in TermsOn(r, d) : Works(d, t.is)} BY <1>1, <1>2 DEF OffIn
  <1>5. OffIn(r, l, y) \subseteq DaysOf(c) BY <1>4
  <1>6. IsFiniteSet(OffIn(r, l, y)) /\ Cardinality(OffIn(r, l, y)) \in Nat BY <1>3, <1>5, DaysAreFinite
  <1> QED BY <1>1, <1>3, <1>4, <1>6

\* The rows s are the rows r with one more leave approved.
Adds(r, s, l) ==
  /\ AccountWell(r) /\ AccountWell(s) /\ s.terms = r.terms /\ s.adjusted = r.adjusted
  /\ s.leave[l] = "APPROVED" /\ r.leave[l] # "APPROVED" /\ \A k \in Leave : k # l => s.leave[k] = r.leave[k]

LEMMA MoreLeaveIsUsed ==
  ASSUME NEW r, NEW s, NEW l \in Leave, Adds(r, s, l), NEW y \in Years, DaysOf(Bounds(y)) # {}, ~ Vague(s, y)
  PROVE  \E N : /\ UsageOf(s, y) = UsageOf(r, y) \cup N /\ UsageOf(r, y) \cap N = {} /\ IsFiniteSet(N) /\ N \subseteq Uses
                /\ Paid(N) \in Nat /\ Paid(N) <= 100 * Cardinality(OffIn(s, l, y))
  <1>1. AccountWell(s) /\ TermsWell(s) /\ Clear(s, y) /\ y \in Int BY DEF Adds, AccountWell, Vague, Years
  <1>2. PICK P, Q, X : P = Pieces(r, y) /\ Q = Pieces(s, y) /\ X = {x \in Q : x[1] = l} OBVIOUS
  <1>3. \A x : x \in Q <=> x \in P \/ x \in X
    <2>1. TermsWithin(s, Bounds(y)) = TermsWithin(r, Bounds(y)) BY SameTermsSay DEF Adds
    <2>2. \A k \in Leave : k \in Approved(s) <=> k = l \/ k \in Approved(r) BY DEF Adds, Approved
    <2>3. l \notin Approved(r) BY DEF Adds, Approved
    <2>4. Approved(s) \subseteq Leave /\ Approved(r) \subseteq Leave BY DEF Approved
    <2> QED BY <1>2, <2>1, <2>2, <2>3, <2>4 DEF Pieces
  <1>4. \A x \in P : x[1] # l BY <1>2 DEF Pieces, Approved, Adds
  <1>5. PICK N : N = {Used(y, x) : x \in X} OBVIOUS
  <1>6. UsageOf(s, y) = {Used(y, x) : x \in Q} /\ UsageOf(r, y) = {Used(y, x) : x \in P} BY <1>2 DEF UsageOf
  <1>7. \A x, z \in Q : Used(y, x) = Used(y, z) => x = z BY <1>1, <1>2, UsageIsDated
  <1>8. UsageOf(s, y) = UsageOf(r, y) \cup N BY <1>3, <1>5, <1>6
  <1>9. UsageOf(r, y) \cap N = {}
    <2>1. SUFFICES ASSUME NEW x \in P, NEW z \in X, Used(y, x) = Used(y, z) PROVE FALSE BY <1>5, <1>6
    <2>2. x = z BY <1>3, <1>7, <2>1
    <2> QED BY <1>2, <1>4, <2>2
  <1>10. N \in SUBSET UsageOf(s, y) BY <1>8
  <1>11. IsFiniteSet(N) /\ N \subseteq Uses
    <2>1. IsFiniteSet(UsageOf(s, y)) /\ UsageOf(s, y) \subseteq Uses BY <1>1, UsageIsDated DEF Dated
    <2> QED BY <1>10, <2>1, FS_Subset
  <1>12. PICK D, O : D = DaysOfUse(s, y, N) /\ O = OffIn(s, l, y) OBVIOUS
  <1>13. IsFiniteSet(D) /\ Paid(N) = 100 * Cardinality(D) BY <1>1, <1>10, <1>12, PaidByDays
  <1>14. ASSUME NEW d \in D PROVE d \in O
    <2>1. PICK x \in Q : Used(y, x) \in N /\ d \in Worked(y, x) BY <1>2, <1>12 DEF DaysOfUse
    <2>2. x \in X BY <1>3, <1>5, <1>7, <2>1
    <2>3. x \in Leave \X s.terms /\ x[1] = l BY <1>1, <1>2, <2>2, PiecesLieApart
    <2>4. d \in DaysOf(x[1]) /\ d \in DaysOf(Bounds(y)) /\ x[2] \in TermsOn(s, d) /\ Works(d, x[2].is)
      BY <1>1, <2>1, <2>3, CutIs
    <2>5. \A t \in TermsOn(s, d) : Works(d, t.is) BY <1>1, <2>4 DEF Clear
    <2> QED BY <1>1, <1>12, <2>3, <2>4, <2>5, OffInIs
  <1>15. D \in SUBSET O BY <1>14
  <1>16. IsFiniteSet(O) /\ Cardinality(O) \in Nat BY <1>1, <1>12, OffInIs
  <1>17. PICK a \in Nat, c \in Nat : a = Cardinality(D) /\ c = Cardinality(O) /\ a <= c
    BY <1>13, <1>15, <1>16, FS_Subset, FS_CardinalityType
  <1>18. Paid(N) \in Nat /\ Paid(N) <= 100 * Cardinality(O) BY <1>13, <1>17
  <1> QED BY <1>8, <1>9, <1>11, <1>12, <1>18

LEMMA MoreLeaveCosts ==
  ASSUME NEW r, NEW s, NEW l \in Leave, Adds(r, s, l), NEW y \in Years, DaysOf(Bounds(y)) # {}, ~ Vague(s, y), NEW p \in Nat
  PROVE  /\ EndOf(s, y, p) \in Int /\ EndOf(r, y, p) \in Int
         /\ EndOf(s, y, p) <= EndOf(r, y, p)
         /\ EndOf(r, y, p) <= EndOf(s, y, p) + 100 * Cardinality(OffIn(s, l, y))
  <1>1. AccountWell(s) /\ AccountWell(r) /\ ~ Vague(r, y) /\ y \in Int /\ s.adjusted = r.adjusted
    BY SameTermsSay DEF Adds, Years
  <1>2. PICK rule \in Rules, g \in Int, j \in Int : rule = RuleOf(r, y, Year(y).to) /\ g = GrantOf(r, y) /\ j = r.adjusted[y]
    BY <1>1, EndIs
  <1>3. rule = RuleOf(s, y, Year(y).to) /\ g = GrantOf(s, y) /\ j = s.adjusted[y]
    BY <1>1, <1>2, SameTermsSay DEF Adds
  <1>4. PICK U, V : U = UsageOf(r, y) /\ V = UsageOf(s, y) OBVIOUS
  <1>5. PICK N : /\ V = U \cup N /\ U \cap N = {} /\ IsFiniteSet(N) /\ N \subseteq Uses
                 /\ Paid(N) \in Nat /\ Paid(N) <= 100 * Cardinality(OffIn(s, l, y))
    BY <1>4, MoreLeaveIsUsed
  <1>6. IsFiniteSet(U) /\ U \subseteq Uses BY <1>1, <1>4, EndIs
  <1>7. PICK n \in Nat, c \in Nat : n = Paid(N) /\ c = Cardinality(OffIn(s, l, y)) /\ n <= 100 * c
    BY <1>1, <1>5, OffInIs
  <1>8. PICK v \in Int, w \in Int : v = Gain(y, rule, p, U) /\ w = Gain(y, rule, p, V) /\ w <= v /\ v - n <= w
    BY <1>1, <1>5, <1>6, <1>7, GainOfMore
  <1>9. EndOf(r, y, p) = g + j + v /\ EndOf(s, y, p) = g + j + w BY <1>2, <1>3, <1>4, <1>8 DEF EndOf
  <1> QED BY <1>7, <1>8, <1>9

LEMMA LeaveMoves ==
  ASSUME NEW r, NEW s, NEW l \in Leave, Adds(r, s, l), NEW y \in Years, DaysOf(Bounds(y)) # {},
         NEW a, NEW b, a = BalanceOf(r, y, Year(y).to), b = BalanceOf(s, y, Year(y).to), a # Refused, b # Refused,
         NEW c, c = 100 * (Cardinality(OffIn(s, l, y)) + Cardinality(OffIn(s, l, y - 1)))
  PROVE  b.remaining - a.remaining \in - c .. 0 /\ a.remaining - b.remaining \in 0 .. c
  <1>1. AccountWell(s) /\ AccountWell(r) /\ y \in Int /\ y - 1 \in Int BY DEF Adds, Years
  <1>2. PICK m \in Nat, n \in Nat : m = Cardinality(OffIn(s, l, y)) /\ n = Cardinality(OffIn(s, l, y - 1))
    BY <1>1, OffInIs
  <1>3. PICK p \in Nat, q \in Nat : p = PriorOf(s, y - 1) /\ q = PriorOf(r, y - 1) BY <1>1, BalanceAtEnd
  <1>4. /\ ~ Vague(s, y) /\ ~ Vague(r, y) /\ b.remaining = EndOf(s, y, p) /\ a.remaining = EndOf(r, y, q)
        /\ y - 1 \in Years /\ DaysOf(Bounds(y - 1)) # {} => ~ Vague(s, y - 1)
    BY <1>1, <1>3, BalanceAtEnd
  <1>5. p <= q /\ q <= p + 100 * n
    <2>1. CASE y - 1 \in Years /\ DaysOf(Bounds(y - 1)) # {}
      <3>1. PICK x \in Years : x = y - 1 BY <2>1
      <3>2. 0 \in Nat OBVIOUS
      <3>3. /\ EndOf(s, x, 0) \in Int /\ EndOf(r, x, 0) \in Int /\ EndOf(s, x, 0) <= EndOf(r, x, 0)
            /\ EndOf(r, x, 0) <= EndOf(s, x, 0) + 100 * Cardinality(OffIn(s, l, x))
        BY <1>4, <2>1, <3>1, <3>2, MoreLeaveCosts
      <3>4. PICK v \in Int, w \in Int : v = EndOf(s, x, 0) /\ w = EndOf(r, x, 0) /\ v <= w /\ w <= v + 100 * n
        BY <1>2, <3>1, <3>3
      <3>5. p = Rest(v) /\ q = Rest(w) BY <1>3, <2>1, <3>1, <3>4 DEF PriorOf
      <3> QED BY <1>2, <3>4, <3>5 DEF Rest
    <2>2. CASE ~ (y - 1 \in Years /\ DaysOf(Bounds(y - 1)) # {}) BY <1>2, <1>3, <2>2 DEF PriorOf
    <2> QED BY <2>1, <2>2
  <1>6. PICK e \in Int, f \in Int : e = EndOf(s, y, p) /\ f = EndOf(r, y, p) /\ e <= f /\ f <= e + 100 * m
    BY <1>2, <1>4, MoreLeaveCosts
  <1>7. PICK g \in Int : g = EndOf(r, y, q) /\ f <= g /\ g <= f + (q - p) BY <1>1, <1>4, <1>5, <1>6, EndMoves
  <1>8. b.remaining = e /\ a.remaining = g /\ c = 100 * (m + n) BY <1>2, <1>4, <1>6, <1>7
  <1> QED BY <1>2, <1>5, <1>6, <1>7, <1>8

\* The rows s are the rows r with an amount added to one year.
Adjusts(r, s, x, d) ==
  /\ AccountWell(r) /\ AccountWell(s) /\ s.terms = r.terms /\ s.leave = r.leave
  /\ \A z \in Years : s.adjusted[z] = IF z = x THEN r.adjusted[z] + d ELSE r.adjusted[z]

LEMMA AdjustmentMoves ==
  ASSUME NEW r, NEW s, NEW x \in Years, NEW d \in Int, Adjusts(r, s, x, d), NEW y \in Years, DaysOf(Bounds(y)) # {},
         NEW a, NEW b, a = BalanceOf(r, y, Year(y).to), b = BalanceOf(s, y, Year(y).to), a # Refused, b # Refused
  PROVE  /\ x = y => b.remaining - a.remaining = d
         /\ y - 1 = x => /\ d > 0 => b.remaining - a.remaining \in 0 .. d
                         /\ d < 0 => b.remaining - a.remaining \in d .. 0
  <1>1. AccountWell(s) /\ AccountWell(r) /\ y \in Int /\ x \in Int /\ s.terms = r.terms BY DEF Adjusts, Years
  <1>2. ASSUME NEW z \in Years, DaysOf(Bounds(z)) # {}, ~ Vague(r, z), NEW p \in Nat
        PROVE  /\ EndOf(s, z, p) = EndOf(r, z, p) + (IF z = x THEN d ELSE 0)
               /\ EndOf(r, z, p) \in Int /\ EndOf(s, z, p) \in Int
    <2>1. PICK g \in Int, j \in Int, e \in Int : g = GrantOf(r, z) /\ j = r.adjusted[z] /\ e = EndOf(r, z, p)
      BY <1>1, <1>2, EndIs
    <2>2. PICK k : k = Gain(z, RuleOf(r, z, Year(z).to), p, UsageOf(r, z)) OBVIOUS
    <2>3. k \in Int
      <3>1. /\ RuleOf(r, z, Year(z).to) \in Rules /\ IsFiniteSet(UsageOf(r, z)) /\ UsageOf(r, z) \subseteq Uses
            /\ z \in Int /\ p <= p
        BY <1>1, <1>2, EndIs DEF Years
      <3> QED BY <2>2, <3>1, GainIs
    <2>4. TermsWithin(s, Bounds(z)) = TermsWithin(r, Bounds(z)) /\ GrantOf(s, z) = g
          /\ RuleOf(s, z, Year(z).to) = RuleOf(r, z, Year(z).to)
      BY <1>1, <2>1, SameTermsSay
    <2>5. UsageOf(s, z) = UsageOf(r, z) BY <2>4 DEF UsageOf, Pieces, Approved, Adjusts
    <2>6. s.adjusted[z] = j + (IF z = x THEN d ELSE 0) BY <2>1 DEF Adjusts
    <2>7. EndOf(s, z, p) = g + (j + (IF z = x THEN d ELSE 0)) + k /\ EndOf(r, z, p) = g + j + k
      BY <2>1, <2>2, <2>4, <2>5, <2>6 DEF EndOf
    <2> QED BY <2>3, <2>7
  <1>3. PICK p \in Nat, q \in Nat : p = PriorOf(s, y - 1) /\ q = PriorOf(r, y - 1) BY <1>1, BalanceAtEnd
  <1>4. /\ ~ Vague(s, y) /\ ~ Vague(r, y) /\ b.remaining = EndOf(s, y, p) /\ a.remaining = EndOf(r, y, q)
        /\ y - 1 \in Years /\ DaysOf(Bounds(y - 1)) # {} => ~ Vague(r, y - 1)
    BY <1>1, <1>3, BalanceAtEnd
  <1>5. PICK c \in Int : c = IF y - 1 = x THEN d ELSE 0 OBVIOUS
  <1>6. /\ c >= 0 => q <= p /\ p <= q + c
        /\ c <= 0 => p <= q /\ q <= p - c
    <2>1. CASE y - 1 \in Years /\ DaysOf(Bounds(y - 1)) # {}
      <3>1. PICK z \in Years : z = y - 1 BY <2>1
      <3>2. 0 \in Nat OBVIOUS
      <3>3. PICK v \in Int, w \in Int : v = EndOf(s, z, 0) /\ w = EndOf(r, z, 0) /\ v = w + c
        BY <1>2, <1>4, <1>5, <2>1, <3>1, <3>2
      <3>4. p = Rest(v) /\ q = Rest(w) BY <1>3, <2>1, <3>1, <3>3 DEF PriorOf
      <3> QED BY <3>3, <3>4 DEF Rest
    <2>2. CASE ~ (y - 1 \in Years /\ DaysOf(Bounds(y - 1)) # {}) BY <1>3, <2>2 DEF PriorOf
    <2> QED BY <2>1, <2>2
  <1>7. PICK e \in Int, f \in Int : e = EndOf(r, y, p) /\ f = EndOf(r, y, q) BY <1>1, <1>2, <1>4
  <1>8. /\ p <= q => e <= f /\ f <= e + (q - p)
        /\ q <= p => f <= e /\ e <= f + (p - q)
    BY <1>1, <1>4, <1>7, EndMoves
  <1>9. a.remaining = f /\ b.remaining = e + (IF y = x THEN d ELSE 0) BY <1>2, <1>4, <1>7
  <1>10. ASSUME x = y PROVE b.remaining - a.remaining = d
    <2>1. c = 0 BY <1>1, <1>5, <1>10
    <2> QED BY <1>6, <1>8, <1>9, <1>10, <2>1
  <1>11. ASSUME y - 1 = x PROVE /\ d > 0 => b.remaining - a.remaining \in 0 .. d
                                /\ d < 0 => b.remaining - a.remaining \in d .. 0
    <2>1. c = d /\ y # x BY <1>1, <1>5, <1>11
    <2>2. a.remaining = f /\ b.remaining = e BY <1>9, <2>1
    <2> QED BY <1>6, <1>8, <2>1, <2>2
  <1> QED BY <1>10, <1>11

-----------------------------------------------------------------------------
(* Leave: a term that is appended.                                          *)

EndedTerm(u, n) == [u EXCEPT !.to = n.from]

\* The rows s are the rows r with the term n, which begins within their term u.
Appended(r, s, n, u) ==
  /\ AccountWell(r) /\ AccountWell(s) /\ s.leave = r.leave /\ s.adjusted = r.adjusted
  /\ n \in NextTerm /\ u \in r.terms /\ u.from < n.from /\ n.from < u.to
  /\ s.terms = (r.terms \ {u}) \cup {EndedTerm(u, n), n}
  /\ \A l \in Leave : r.leave[l] = "NONE" \/ l.to * Parts < n.from
\* Two terms say the same about leave.
Alikes(t, v) ==
  t.is.hours = v.is.hours /\ t.is.days = v.is.days /\ t.is.rule = v.is.rule /\ t.is.policy = v.is.policy
\* The year ends before the new term, or that begins with a day and changes nothing about leave.
Keeps(y, n, u) == Bounds(y).to < n.from \div Parts \/ (n.from % Parts = 0 /\ Alikes(n, u))

LEMMA AppendedAre ==
  ASSUME NEW r, NEW s, NEW n, NEW u, Appended(r, s, n, u), NEW a, NEW b, a = EndedTerm(u, n), b = n
  PROVE  /\ a.from = u.from /\ a.to = n.from /\ a.is = u.is
         /\ u.from \in Nat /\ b.from \in Nat /\ u.to \in Nat /\ b.to \in Nat
         /\ u.from < b.from /\ b.from < u.to /\ b.from < b.to
         /\ s.terms = (r.terms \ {u}) \cup {a, b} /\ a \in s.terms /\ b \in s.terms
         /\ TermsWell(r) /\ TermsWell(s) /\ u \in r.terms
         /\ \A t \in r.terms : t # u => t # a /\ t # b
  <1>1. TermsWell(r) /\ TermsWell(s) /\ u \in r.terms /\ u.from < n.from /\ n.from < u.to /\ n \in NextTerm
    BY DEF Appended, AccountWell
  <1>2. u \in [from : Nat, to : Nat, is : Sayings] BY <1>1 DEF TermsWell
  <1>3. a.from = u.from /\ a.to = n.from /\ a.is = u.is BY <1>2 DEF EndedTerm
  <1>4. n.from \in Nat /\ n.to \in Nat /\ n.from < n.to /\ u.from \in Nat /\ u.to \in Nat
    BY <1>1, <1>2, NewTermsAre
  <1>5. s.terms = (r.terms \ {u}) \cup {a, b} BY DEF Appended
  <1>6. ASSUME NEW t \in r.terms, t # u PROVE t # a /\ t # b
    <2>1. t.from \in Nat /\ t.to \in Nat /\ t.from < t.to BY <1>1 DEF TermsWell
    <2>2. t.to <= u.from \/ u.to <= t.from BY <1>1, <1>6 DEF TermsWell
    <2> QED BY <1>1, <1>3, <1>4, <2>1, <2>2
  <1> QED BY <1>1, <1>3, <1>4, <1>5, <1>6

\* The days of the terms: u now ends on day k instead of e, and the new one lasts from m to q.
DaysMeet(r, n, u, a, b, f, k, m, e, q) ==
  /\ TermDays(u) = [from |-> f, to |-> e] /\ TermDays(a) = [from |-> f, to |-> k] /\ TermDays(b) = [from |-> m, to |-> q]
  /\ f <= k /\ k <= m /\ m <= e /\ m <= q /\ m <= k + 1 /\ (n.from % Parts = 0 => k = m - 1) /\ m = n.from \div Parts
  /\ \A l \in Leave : r.leave[l] = "APPROVED" => l.to <= k

LEMMA AppendedDays ==
  ASSUME NEW r, NEW s, NEW n, NEW u, Appended(r, s, n, u), NEW a, NEW b, a = EndedTerm(u, n), b = n
  PROVE  \E f \in Int, k \in Int, m \in Int, e \in Int, q \in Int : DaysMeet(r, n, u, a, b, f, k, m, e, q)
  <1>1. PICK p \in Nat \ {0} : p = Parts BY BoundsOfLeave
  <1>2. PICK g \in Nat, h \in Nat, o \in Nat, z \in Nat :
          g = u.from /\ h = n.from /\ o = u.to /\ z = n.to /\ g < h /\ h < o /\ h < z
    BY AppendedAre
  <1>3. PICK h1 \in Int, o1 \in Int, z1 \in Int : h1 = h - 1 /\ o1 = o - 1 /\ z1 = z - 1 OBVIOUS
  <1>4. g \div p \in Int /\ h1 \div p \in Int /\ h \div p \in Int /\ o1 \div p \in Int /\ z1 \div p \in Int
    BY QuotientBounds
  <1>5. PICK f \in Int, k \in Int, m \in Int, e \in Int, q \in Int :
          f = g \div p /\ k = h1 \div p /\ m = h \div p /\ e = o1 \div p /\ q = z1 \div p
    BY <1>4
  <1>6. /\ TermDays(u) = [from |-> f, to |-> e] /\ TermDays(a) = [from |-> f, to |-> k]
        /\ TermDays(b) = [from |-> m, to |-> q]
    BY <1>1, <1>2, <1>3, <1>5, AppendedAre DEF TermDays
  <1>7. f * p <= g /\ k * p <= h1 /\ m * p <= h /\ h1 < (k + 1) * p
    <2>1. /\ f <= g \div p <=> f * p <= g
          /\ k <= h1 \div p <=> k * p <= h1
          /\ m <= h \div p <=> m * p <= h
          /\ h1 \div p <= k <=> h1 < (k + 1) * p
      BY QuotientBounds
    <2> QED BY <1>5, <2>1
  <1>8. PICK fp \in Int, kp \in Int, mp \in Int : fp = f * p /\ kp = k * p /\ mp = m * p OBVIOUS
  <1>9. (k + 1) * p = kp + p /\ (k + 1 + 1) * p = kp + p + p /\ (m - 1 + 1) * p = mp BY <1>8
  <1>10. f <= k
    <2>1. f <= h1 \div p <=> f * p <= h1 BY QuotientBounds
    <2> QED BY <1>2, <1>3, <1>5, <1>7, <1>8, <2>1
  <1>11. k <= m
    <2>1. k <= h \div p <=> k * p <= h BY QuotientBounds
    <2> QED BY <1>3, <1>5, <1>7, <1>8, <2>1
  <1>12. m <= e /\ m <= q
    <2>1. (m <= o1 \div p <=> m * p <= o1) /\ (m <= z1 \div p <=> m * p <= z1) BY QuotientBounds
    <2> QED BY <1>2, <1>3, <1>5, <1>7, <1>8, <2>1
  <1>13. m <= k + 1
    <2>1. PICK j \in Int : j = k + 1 OBVIOUS
    <2>2. h \div p <= j <=> h < (j + 1) * p BY QuotientBounds
    <2>3. h < kp + p + p BY <1>3, <1>7, <1>9
    <2> QED BY <1>5, <1>9, <2>1, <2>2, <2>3
  <1>14. n.from % Parts = 0 => k = m - 1
    <2>1. SUFFICES ASSUME h % p = 0 PROVE k = m - 1 BY <1>1, <1>2
    <2>2. h = p * m BY <1>5, <2>1, SMT
    <2>3. h = mp BY <1>8, <2>2
    <2>4. PICK j \in Int : j = m - 1 OBVIOUS
    <2>5. h1 \div p <= j <=> h1 < (j + 1) * p BY QuotientBounds
    <2>6. k <= m - 1 BY <1>3, <1>5, <1>9, <2>3, <2>4, <2>5
    <2> QED BY <1>13, <2>6
  <1>15. ASSUME NEW l \in Leave, r.leave[l] = "APPROVED" PROVE l.to <= k
    <2>1. PICK x \in Int : x = l.to BY LeaveIsProper
    <2>2. x * p < h BY <1>1, <1>2, <1>15, <2>1 DEF Appended
    <2>3. x <= h1 \div p <=> x * p <= h1 BY QuotientBounds
    <2>4. PICK v \in Int : v = x * p OBVIOUS
    <2> QED BY <1>3, <1>5, <2>1, <2>2, <2>3, <2>4
  <1>16. DaysMeet(r, n, u, a, b, f, k, m, e, q)
    BY <1>1, <1>2, <1>5, <1>6, <1>10, <1>11, <1>12, <1>13, <1>14, <1>15 DEF DaysMeet
  <1> QED BY <1>16

\* A piece is an approved leave with a term that it has working days under.
LEMMA PiecesAre ==
  ASSUME NEW r, AccountWell(r), NEW y \in Years, DaysOf(Bounds(y)) # {}, NEW x
  PROVE  x \in Pieces(r, y) <=> x \in Approved(r) \X r.terms /\ Worked(y, x) # {}
  <1>1. TermsWell(r) BY DEF AccountWell
  <1>2. TermsWithin(r, Bounds(y)) \subseteq r.terms BY DEF TermsWithin
  <1>3. ASSUME x \in Approved(r) \X r.terms, Worked(y, x) # {} PROVE x[2] \in TermsWithin(r, Bounds(y))
    <2>1. x \in Leave \X r.terms BY <1>3 DEF Approved
    <2>2. PICK d : d \in Worked(y, x) BY <1>3
    <2>3. d \in DaysOf(Bounds(y)) /\ x[2] \in TermsOn(r, d) BY <1>1, <2>1, <2>2, CutIs
    <2> QED BY <1>1, <2>3, TermsOfDays
  <1> QED BY <1>2, <1>3 DEF Pieces

LEMMA UsageIsKept ==
  ASSUME NEW r, NEW s, NEW n, NEW u, Appended(r, s, n, u), NEW y \in Years, DaysOf(Bounds(y)) # {}, Keeps(y, n, u)
  PROVE  UsageOf(s, y) = UsageOf(r, y)
  <1>1. PICK a, b : a = EndedTerm(u, n) /\ b = n OBVIOUS
  <1>2. PICK f \in Int, k \in Int, m \in Int, e \in Int, q \in Int : DaysMeet(r, n, u, a, b, f, k, m, e, q)
    BY <1>1, AppendedDays
  <1>3. /\ s.terms = (r.terms \ {u}) \cup {a, b} /\ a \in s.terms /\ b \in s.terms /\ u \in r.terms /\ a.is = u.is
        /\ TermsWell(r) /\ TermsWell(s)
    BY <1>1, AppendedAre
  <1>4. PICK A : A = Approved(r) /\ A = Approved(s) BY DEF Approved, Appended
  <1>5. A \subseteq Leave /\ \A l \in A : l.to <= k BY <1>2, <1>4 DEF Approved, DaysMeet
  <1>6. PICK B \in Interval : B = Bounds(y) BY YearIs DEF Years
  <1>7. ASSUME NEW l \in A
        PROVE  /\ Worked(y, <<l, a>>) = Worked(y, <<l, u>>) /\ Used(y, <<l, a>>) = Used(y, <<l, u>>)
               /\ Worked(y, <<l, b>>) = {}
    <2>1. PICK i \in Interval : i = l BY <1>5, LeaveIsProper DEF Interval
    <2>2. PICK c \in Interval : c = Clip(i, B) /\ c.to <= i.to /\ c.to <= B.to BY ClipIs
    <2>3. PICK v \in Int, w \in Int : v = c.from /\ w = c.to /\ w <= k /\ w <= B.to
      <3>1. i.to <= k /\ i.to \in Int /\ c.to \in Int /\ c.from \in Int BY <1>5, <2>1 DEF Interval
      <3> QED BY <2>2, <3>1
    <2>4. Min({w, k}) = w /\ Min({w, e}) = w
      <3>1. w <= e BY <1>2, <2>3 DEF DaysMeet
      <3>2. Min({w, k}) = (IF w <= k THEN w ELSE k) /\ Min({w, e}) = (IF w <= e THEN w ELSE e) BY MaxOfTwo
      <3> QED BY <2>3, <3>1, <3>2
    <2>5. Clip(c, TermDays(a)) = Clip(c, TermDays(u))
      <3>1. TermDays(a).from = f /\ TermDays(u).from = f /\ TermDays(a).to = k /\ TermDays(u).to = e
        BY <1>2 DEF DaysMeet
      <3>2. PICK g : g = Max({v, f}) OBVIOUS
      <3>3. Clip(c, TermDays(a)) = [c EXCEPT !.from = g, !.to = w] BY <2>3, <2>4, <3>1, <3>2 DEF Clip
      <3>4. Clip(c, TermDays(u)) = [c EXCEPT !.from = g, !.to = w] BY <2>3, <2>4, <3>1, <3>2 DEF Clip
      <3> QED BY <3>3, <3>4
    <2>6. Cut(y, l, a) = Cut(y, l, u) BY <1>6, <2>1, <2>2, <2>5 DEF Cut
    <2>7. Worked(y, <<l, a>>) = Worked(y, <<l, u>>) BY <1>3, <2>6 DEF Worked
    <2>8. Used(y, <<l, a>>) = Used(y, <<l, u>>) BY <2>6, <2>7 DEF Used
    <2>9. ASSUME NEW d \in Worked(y, <<l, b>>) PROVE FALSE
      <3>1. PICK x : x = <<l, b>> OBVIOUS
      <3>2. x \in Leave \X s.terms /\ x[1] = l /\ x[2] = b BY <1>3, <1>5, <3>1
      <3>3. d \in DaysOf(l) /\ d \in DaysOf(B) /\ b \in TermsOn(s, d) BY <1>3, <1>6, <2>9, <3>1, <3>2, CutIs
      <3>4. d \in Int /\ d <= i.to /\ d <= B.to BY <2>1, <3>3 DEF DaysOf, Interval
      <3>5. d \in DaysOf(TermDays(b)) BY <1>3, <3>3, <3>4, DaysOfTerm
      <3>6. m <= d BY <1>2, <3>5 DEF DaysOf, DaysMeet
      <3>7. i.to <= k /\ i.to \in Int /\ B.to \in Int BY <1>5, <2>1 DEF Interval
      <3>8. B.to < m \/ k = m - 1 BY <1>2, <1>6 DEF Keeps, DaysMeet
      <3> QED BY <3>4, <3>6, <3>7, <3>8
    <2> QED BY <2>7, <2>8, <2>9
  <1>8. UsageOf(s, y) = {Used(y, x) : x \in Pieces(s, y)} /\ UsageOf(r, y) = {Used(y, x) : x \in Pieces(r, y)}
    BY DEF UsageOf
  <1>9. /\ \A x : x \in Pieces(r, y) <=> x \in A \X r.terms /\ Worked(y, x) # {}
        /\ \A x : x \in Pieces(s, y) <=> x \in A \X s.terms /\ Worked(y, x) # {}
    BY <1>4, PiecesAre DEF Appended
  <1>10. ASSUME NEW x \in Pieces(s, y) PROVE Used(y, x) \in UsageOf(r, y)
    <2>1. PICK l \in A, t \in s.terms : x = <<l, t>> /\ Worked(y, x) # {} BY <1>9
    <2>2. CASE t \in r.terms
      <3>1. x \in Pieces(r, y) BY <1>9, <2>1, <2>2
      <3> QED BY <1>8, <3>1
    <2>3. CASE t = a
      <3>1. <<l, u>> \in Pieces(r, y) /\ Used(y, x) = Used(y, <<l, u>>) BY <1>3, <1>7, <1>9, <2>1, <2>3
      <3> QED BY <1>8, <3>1
    <2>4. t # b BY <1>7, <2>1
    <2> QED BY <1>3, <2>2, <2>3, <2>4
  <1>11. ASSUME NEW x \in Pieces(r, y) PROVE Used(y, x) \in UsageOf(s, y)
    <2>1. PICK l \in A, t \in r.terms : x = <<l, t>> /\ Worked(y, x) # {} BY <1>9
    <2>2. CASE t # u
      <3>1. x \in Pieces(s, y) BY <1>3, <1>9, <2>1, <2>2
      <3> QED BY <1>8, <3>1
    <2>3. CASE t = u
      <3>1. <<l, a>> \in Pieces(s, y) /\ Used(y, x) = Used(y, <<l, a>>) BY <1>3, <1>7, <1>9, <2>1, <2>3
      <3> QED BY <1>8, <3>1
    <2> QED BY <2>2, <2>3
  <1> QED BY <1>8, <1>10, <1>11

LEMMA TermsAreKept ==
  ASSUME NEW r, NEW s, NEW n, NEW u, Appended(r, s, n, u), NEW y \in Years, DaysOf(Bounds(y)) # {}, Keeps(y, n, u),
         Clear(r, y), Clear(s, y), NEW M, NEW N, M = TermsWithin(r, Bounds(y)), N = TermsWithin(s, Bounds(y)),
         NEW a, NEW b, a = EndedTerm(u, n), b = n
  PROVE  /\ \A t \in r.terms \ {u} : t \in M <=> t \in N
         /\ \A t \in N : t \in r.terms \ {u} \/ t = a \/ t = b
         /\ a \in N \/ b \in N <=> u \in M
         /\ b \in N => Alikes(b, u)
         /\ Alikes(a, u)
         /\ \A d \in DaysOf(Bounds(y)) : a \in TermsOn(s, d) \/ b \in TermsOn(s, d) <=> u \in TermsOn(r, d)
  <1>2. PICK f \in Int, k \in Int, m \in Int, e \in Int, q \in Int : DaysMeet(r, n, u, a, b, f, k, m, e, q)
    BY AppendedDays
  <1>3. /\ s.terms = (r.terms \ {u}) \cup {a, b} /\ a \in s.terms /\ b \in s.terms /\ u \in r.terms /\ a.is = u.is
        /\ TermsWell(r) /\ TermsWell(s) /\ \A t \in r.terms : t # u => t # a /\ t # b
    BY AppendedAre
  <1>4. PICK B \in Interval : B = Bounds(y) BY YearIs DEF Years
  <1>5. PICK v \in Int, w \in Int : v = B.from /\ w = B.to /\ v <= w
    <2>1. B.from \in Int /\ B.to \in Int BY DEF Interval
    <2>2. B.from <= B.to BY <1>4, YearIs DEF Years
    <2> QED BY <2>1, <2>2
  <1>6. ASSUME NEW d \in DaysOf(B) PROVE a \in TermsOn(s, d) \/ b \in TermsOn(s, d) <=> u \in TermsOn(r, d)
    <2>1. PICK t, z : TermsOn(r, d) = {t} /\ TermsOn(s, d) = {z} BY <1>4 DEF Clear
    <2>2. t \in r.terms /\ z \in s.terms BY <2>1 DEF TermsOn
    <2>3. \A x : x \in r.terms /\ x \in s.terms => (x \in TermsOn(r, d) <=> x \in TermsOn(s, d))
      BY DEF TermsOn
    <2>4. ASSUME z = a \/ z = b PROVE t = u
      <3>1. SUFFICES ASSUME t # u PROVE FALSE OBVIOUS
      <3>2. t \in s.terms /\ t # a /\ t # b BY <1>3, <2>2, <3>1
      <3>3. t = z BY <2>1, <2>2, <2>3, <3>2
      <3> QED BY <2>4, <3>2, <3>3
    <2>5. ASSUME t = u PROVE z = a \/ z = b
      <3>1. SUFFICES ASSUME z \in r.terms \ {u} PROVE FALSE BY <1>3, <2>2
      <3>2. z = t BY <2>1, <2>2, <2>3, <3>1
      <3> QED BY <2>5, <3>1, <3>2
    <2> QED BY <2>1, <2>4, <2>5
  <1>7. b \in N <=> m <= w /\ q >= v BY <1>2, <1>3, <1>4, <1>5 DEF TermsWithin, DaysMeet
  <1>8. a \in N \/ b \in N <=> u \in M
    <2>1. /\ \A t : t \in M <=> \E d \in DaysOf(B) : t \in TermsOn(r, d)
          /\ \A t : t \in N <=> \E d \in DaysOf(B) : t \in TermsOn(s, d)
      BY <1>3, <1>4, TermsOfDays
    <2> QED BY <1>6, <2>1
  <1>9. ASSUME b \in N PROVE Alikes(b, u)
    <2>1. m <= w BY <1>7, <1>9
    <2>2. ~ (B.to < n.from \div Parts) BY <1>2, <1>5, <2>1 DEF DaysMeet
    <2> QED BY <1>4, <2>2 DEF Keeps
  <1>10. Alikes(a, u) BY <1>3 DEF Alikes
  <1>12. \A t \in r.terms \ {u} : t \in M <=> t \in N BY <1>3 DEF TermsWithin
  <1>13. \A t \in N : t \in r.terms \ {u} \/ t = a \/ t = b BY <1>3 DEF TermsWithin
  <1> QED BY <1>4, <1>6, <1>8, <1>9, <1>10, <1>12, <1>13

LEMMA SayingsAreKept ==
  ASSUME NEW r, NEW s, NEW n, NEW u, Appended(r, s, n, u), NEW y \in Years, DaysOf(Bounds(y)) # {}, Keeps(y, n, u),
         Clear(r, y), Clear(s, y)
  PROVE  /\ PoliciesOf(s, y) = PoliciesOf(r, y)
         /\ Alike(Shares(s, y)) <=> Alike(Shares(r, y))
         /\ \A d \in DaysOf(Bounds(y)) :
              ShareOn(s, y, d).rule = ShareOn(r, y, d).rule /\ ShareOn(s, y, d).hours = ShareOn(r, y, d).hours
  <1>1. PICK M, N : M = TermsWithin(r, Bounds(y)) /\ N = TermsWithin(s, Bounds(y)) OBVIOUS
  <1>2. PICK a, b : a = EndedTerm(u, n) /\ b = n OBVIOUS
  <1>3. /\ \A t \in r.terms \ {u} : t \in M <=> t \in N
        /\ \A t \in N : t \in r.terms \ {u} \/ t = a \/ t = b
        /\ a \in N \/ b \in N <=> u \in M
        /\ b \in N => Alikes(b, u)
        /\ Alikes(a, u)
        /\ \A d \in DaysOf(Bounds(y)) : a \in TermsOn(s, d) \/ b \in TermsOn(s, d) <=> u \in TermsOn(r, d)
    BY <1>1, <1>2, TermsAreKept
  <1>4. TermsWell(r) /\ TermsWell(s) /\ M \subseteq r.terms BY <1>1 DEF Appended, AccountWell, TermsWithin
  <1>5. \A t \in N : \E v \in M : Alikes(t, v) BY <1>3 DEF Alikes
  <1>6. \A v \in M : \E t \in N : Alikes(t, v) BY <1>3, <1>4 DEF Alikes
  <1>7. PoliciesOf(s, y) = PoliciesOf(r, y)
    <2>1. \A x : (\E t \in N : x = t.is.policy) <=> (\E v \in M : x = v.is.policy) BY <1>5, <1>6 DEF Alikes
    <2>2. {t.is.policy : t \in N} = {v.is.policy : v \in M} BY <2>1
    <2> QED BY <1>1, <2>2 DEF PoliciesOf
  <1>8. ASSUME NEW q, TermsWell(q), NEW K, K = TermsWithin(q, Bounds(y))
        PROVE  Alike(Shares(q, y)) <=>
                 \A t, v \in K : t.is.hours = v.is.hours /\ t.is.days = v.is.days /\ t.is.rule = v.is.rule
    <2>1. Shares(q, y) = {Part(y, t) : t \in K} BY <1>8 DEF Shares
    <2>2. \A t \in K : Part(y, t).hours = t.is.hours /\ Part(y, t).days = t.is.days /\ Part(y, t).rule = t.is.rule
      BY <1>8, PartIs
    <2> QED BY <2>1, <2>2 DEF Alike
  <1>9. Alike(Shares(s, y)) <=> Alike(Shares(r, y))
    <2>1. Alike(Shares(r, y)) <=>
                 \A t, v \in M : t.is.hours = v.is.hours /\ t.is.days = v.is.days /\ t.is.rule = v.is.rule
      BY <1>1, <1>4, <1>8
    <2>2. Alike(Shares(s, y)) <=>
                 \A t, v \in N : t.is.hours = v.is.hours /\ t.is.days = v.is.days /\ t.is.rule = v.is.rule
      BY <1>1, <1>4, <1>8
    <2>3. (\A t, v \in M : t.is.hours = v.is.hours /\ t.is.days = v.is.days /\ t.is.rule = v.is.rule)
            => \A t, v \in N : t.is.hours = v.is.hours /\ t.is.days = v.is.days /\ t.is.rule = v.is.rule
      BY <1>5 DEF Alikes
    <2>4. (\A t, v \in N : t.is.hours = v.is.hours /\ t.is.days = v.is.days /\ t.is.rule = v.is.rule)
            => \A t, v \in M : t.is.hours = v.is.hours /\ t.is.days = v.is.days /\ t.is.rule = v.is.rule
      BY <1>6 DEF Alikes
    <2> QED BY <2>1, <2>2, <2>3, <2>4
  <1>10. ASSUME NEW d \in DaysOf(Bounds(y))
         PROVE  ShareOn(s, y, d).rule = ShareOn(r, y, d).rule /\ ShareOn(s, y, d).hours = ShareOn(r, y, d).hours
    <2>1. PICK t \in N : t \in TermsOn(s, d) /\ ShareOn(s, y, d) = Part(y, t) BY <1>1, <1>4, ShareOnIs
    <2>2. PICK v \in M : v \in TermsOn(r, d) /\ ShareOn(r, y, d) = Part(y, v) BY <1>1, <1>4, ShareOnIs
    <2>3. \A x \in TermsOn(r, d) : x = v BY <1>10, <2>2 DEF Clear
    <2>4. t.is.rule = v.is.rule /\ t.is.hours = v.is.hours
      <3>1. CASE t \in r.terms \ {u}
        <4>1. t \in TermsOn(r, d) BY <2>1, <3>1 DEF TermsOn
        <4> QED BY <2>3, <4>1
      <3>2. CASE t = a \/ t = b
        <4>1. u = v BY <1>3, <2>1, <2>3, <3>2
        <4> QED BY <1>3, <2>1, <3>2, <4>1 DEF Alikes
      <3> QED BY <1>3, <3>1, <3>2
    <2>5. Part(y, t).rule = t.is.rule /\ Part(y, t).hours = t.is.hours BY <1>1, <1>4, PartIs
    <2>6. Part(y, v).rule = v.is.rule /\ Part(y, v).hours = v.is.hours BY <1>1, <1>4, PartIs
    <2> QED BY <2>1, <2>2, <2>4, <2>5, <2>6
  <1> QED BY <1>7, <1>9, <1>10

\* The shares of the new term and of the one before it add up to the share that the latter had.
LEMMA SharesAddUp ==
  ASSUME NEW r, NEW s, NEW n, NEW u, Appended(r, s, n, u), NEW y \in Years, DaysOf(Bounds(y)) # {}, Keeps(y, n, u),
         Clear(r, y), Clear(s, y), NEW N, N = TermsWithin(s, Bounds(y)), NEW a, NEW b, a = EndedTerm(u, n), b = n, NEW h,
         u \in TermsWithin(r, Bounds(y))
  PROVE  /\ a \in N /\ b \notin N => Part(y, a) = Part(y, u)
         /\ a \notin N /\ b \in N => ShareBy(h, Part(y, b)) = ShareBy(h, Part(y, u))
         /\ a \in N /\ b \in N => ShareBy(h, Part(y, a)) + ShareBy(h, Part(y, b)) = ShareBy(h, Part(y, u))
  <1>1. PICK f \in Int, k \in Int, m \in Int, e \in Int, q \in Int : DaysMeet(r, n, u, a, b, f, k, m, e, q)
    BY AppendedDays
  <1>2. PICK B \in Interval : B = Bounds(y) BY YearIs DEF Years
  <1>3. PICK v \in Int, w \in Int : v = B.from /\ w = B.to /\ v <= w
    <2>1. B.from \in Int /\ B.to \in Int BY DEF Interval
    <2>2. B.from <= B.to BY <1>2, YearIs DEF Years
    <2> QED BY <2>1, <2>2
  <1>4. /\ TermDays(u) = [from |-> f, to |-> e] /\ TermDays(a) = [from |-> f, to |-> k] /\ TermDays(b) = [from |-> m, to |-> q]
        /\ f <= k /\ k <= m /\ m <= e /\ m <= q /\ m <= k + 1
    BY <1>1 DEF DaysMeet
  <1>5. a \in s.terms /\ b \in s.terms /\ a.from = u.from /\ a.is = u.is /\ u \in r.terms /\ TermsWell(r) /\ TermsWell(s)
    BY AppendedAre
  <1>6. /\ a \in N <=> f <= w /\ k >= v
        /\ b \in N <=> m <= w /\ q >= v
        /\ f <= w /\ e >= v
    BY <1>2, <1>3, <1>4, <1>5 DEF TermsWithin
  <1>7. PICK fv \in Int, mv \in Int, kw \in Int, ew \in Int, qw \in Int :
          /\ fv = Max({f, v}) /\ mv = Max({m, v}) /\ kw = Min({k, w}) /\ ew = Min({e, w}) /\ qw = Min({q, w})
          /\ fv = (IF f >= v THEN f ELSE v) /\ mv = (IF m >= v THEN m ELSE v)
          /\ kw = (IF k <= w THEN k ELSE w) /\ ew = (IF e <= w THEN e ELSE w)
          /\ qw = (IF q <= w THEN q ELSE w)
    <2>1. /\ Max({f, v}) = (IF f >= v THEN f ELSE v) /\ Max({m, v}) = (IF m >= v THEN m ELSE v)
          /\ Min({k, w}) = (IF k <= w THEN k ELSE w) /\ Min({e, w}) = (IF e <= w THEN e ELSE w)
          /\ Min({q, w}) = (IF q <= w THEN q ELSE w)
      BY MaxOfTwo
    <2> QED BY <2>1
  <1>8. /\ Clip(TermDays(u), B) = [from |-> fv, to |-> ew]
        /\ Clip(TermDays(a), B) = [from |-> fv, to |-> kw]
        /\ Clip(TermDays(b), B) = [from |-> mv, to |-> qw]
    <2>1. ASSUME NEW i \in Int, NEW j \in Int PROVE Clip([from |-> i, to |-> j], B) = [from |-> Max({i, v}), to |-> Min({j, w})]
      <3>1. PICK x : x = [from |-> i, to |-> j] OBVIOUS
      <3>2. x \in Interval /\ x.from = i /\ x.to = j BY <3>1 DEF Interval
      <3>3. Clip(x, B) = [from |-> Max({x.from, B.from}), to |-> Min({x.to, B.to})] BY <3>2, ClipIs
      <3> QED BY <1>3, <3>1, <3>2, <3>3
    <2>2. /\ Clip([from |-> f, to |-> e], B) = [from |-> Max({f, v}), to |-> Min({e, w})]
          /\ Clip([from |-> f, to |-> k], B) = [from |-> Max({f, v}), to |-> Min({k, w})]
          /\ Clip([from |-> m, to |-> q], B) = [from |-> Max({m, v}), to |-> Min({q, w})]
      BY <2>1
    <2> QED BY <1>4, <1>7, <2>2
  <1>9. /\ Part(y, u) = [from |-> fv, to |-> ew, since |-> u.from, hours |-> u.is.hours, days |-> u.is.days, rule |-> u.is.rule]
        /\ Part(y, a) = [from |-> fv, to |-> kw, since |-> u.from, hours |-> u.is.hours, days |-> u.is.days, rule |-> u.is.rule]
        /\ Part(y, b) = [from |-> mv, to |-> qw, since |-> b.from, hours |-> b.is.hours, days |-> b.is.days, rule |-> b.is.rule]
    BY <1>2, <1>5, <1>8 DEF Part, Segment
  <1>10. ASSUME a \in N, b \notin N PROVE Part(y, a) = Part(y, u)
    <2>1. kw = ew BY <1>4, <1>6, <1>7, <1>10
    <2> QED BY <1>9, <2>1
  <1>11. u.is.rule \in Rules /\ u.is.hours \in Nat /\ u.is.days \subseteq 1 .. WeekDays BY <1>5, TermSays
  <1>12. PICK c \in Int : c = Cardinality(u.is.days)
    <2>0. PICK S : S = u.is.days OBVIOUS
    <2>1. PICK z \in Int, i \in Int : z = WeekDays /\ i = 1 BY CalendarHasDays
    <2>2. S \subseteq i .. z BY <1>11, <2>0, <2>1
    <2>3. Cardinality(S) \in Nat BY <2>2, SubsetOfInterval
    <2> QED BY <2>0, <2>3
  <1>13. PICK g \in Int, j \in Int : g = u.is.rule.annual /\ j = (IF h THEN u.is.hours ELSE c)
    BY <1>11 DEF Rules
  <1>14. /\ ShareBy(h, Part(y, u)) = g * (ew - fv + 1) * j
         /\ ShareBy(h, Part(y, a)) = g * (kw - fv + 1) * j
    BY <1>9, <1>12, <1>13 DEF ShareBy
  <1>15. ASSUME b \in N PROVE ShareBy(h, Part(y, b)) = g * (ew - mv + 1) * j
    <2>1. Alikes(b, u) /\ \A d \in DaysOf(B) : a \in TermsOn(s, d) \/ b \in TermsOn(s, d) <=> u \in TermsOn(r, d)
      BY <1>2, <1>15, TermsAreKept
    <2>2. ASSUME NEW d \in v .. w PROVE f <= d /\ d <= e <=> (f <= d /\ d <= k) \/ (m <= d /\ d <= q)
      <3>1. d \in DaysOf(B) /\ d \in Int BY <1>3 DEF DaysOf
      <3>2. /\ u \in TermsOn(r, d) <=> d \in f .. e
            /\ a \in TermsOn(s, d) <=> d \in f .. k
            /\ b \in TermsOn(s, d) <=> d \in m .. q
        BY <1>4, <1>5, <3>1, DaysOfTerm DEF DaysOf
      <3>3. d \in f .. e <=> d \in f .. k \/ d \in m .. q BY <2>1, <3>1, <3>2
      <3> QED BY <3>1, <3>3
    <2>3. v <= w /\ f <= w /\ e >= v /\ m <= w /\ q >= v BY <1>3, <1>6, <1>15
    <2>4. ew = (IF e <= w THEN e ELSE w) /\ qw = (IF q <= w THEN q ELSE w) BY <1>7
    <2>5. ew \in v .. w /\ qw \in v .. w BY <2>3, <2>4
    <2>6. ew <= q BY <1>4, <2>2, <2>3, <2>5, <2>4
    <2>7. qw <= e BY <1>4, <2>2, <2>3, <2>5, <2>4
    <2>8. qw = ew BY <2>6, <2>7, <2>4
    <2> QED BY <1>9, <1>12, <1>13, <2>1, <2>8 DEF ShareBy, Alikes
  <1>16. ASSUME a \notin N, b \in N PROVE ShareBy(h, Part(y, b)) = ShareBy(h, Part(y, u))
    <2>1. mv = fv BY <1>4, <1>6, <1>7, <1>16
    <2> QED BY <1>14, <1>15, <1>16, <2>1
  <1>17. ASSUME a \in N, b \in N PROVE ShareBy(h, Part(y, a)) + ShareBy(h, Part(y, b)) = ShareBy(h, Part(y, u))
    <2>1. ~ (B.to < n.from \div Parts) BY <1>1, <1>3, <1>6, <1>17 DEF DaysMeet
    <2>2. k = m - 1 BY <1>1, <1>2, <2>1 DEF Keeps, DaysMeet
    <2>3. PICK p \in Int, z \in Int : p = kw - fv + 1 /\ z = ew - mv + 1 OBVIOUS
    <2>6. m <= w /\ k >= v BY <1>6, <1>17
    <2>7. mv = m /\ kw = k BY <1>4, <1>7, <2>2, <2>6
    <2>4. ew - fv + 1 = p + z BY <2>2, <2>3, <2>7
    <2>5. g * p * j + g * z * j = g * (p + z) * j BY SMT
    <2> QED BY <1>14, <1>15, <1>17, <2>3, <2>4, <2>5
  <1> QED BY <1>10, <1>16, <1>17

LEMMA SharesAreKept ==
  ASSUME NEW r, NEW s, NEW n, NEW u, Appended(r, s, n, u), NEW y \in Years, DaysOf(Bounds(y)) # {}, Keeps(y, n, u),
         Clear(r, y), Clear(s, y), NEW h, NEW P, NEW Q, P = Shares(r, y), Q = Shares(s, y)
  PROVE  /\ Sum(P, [x \in P |-> ShareBy(h, x)]) = Sum(Q, [x \in Q |-> ShareBy(h, x)])
         /\ IsFiniteSet(P) /\ IsFiniteSet(Q)
  <1>1. PICK M, N : M = TermsWithin(r, Bounds(y)) /\ N = TermsWithin(s, Bounds(y)) OBVIOUS
  <1>2. PICK a, b : a = EndedTerm(u, n) /\ b = n OBVIOUS
  <1>3. /\ \A t \in r.terms \ {u} : t \in M <=> t \in N
        /\ \A t \in N : t \in r.terms \ {u} \/ t = a \/ t = b
        /\ a \in N \/ b \in N <=> u \in M
    BY <1>1, <1>2, TermsAreKept
  <1>4. /\ TermsWell(r) /\ TermsWell(s) /\ u \in r.terms /\ a # b
        /\ \A t \in r.terms : t # u => t # a /\ t # b
    <2>1. a.from < b.from /\ a.from \in Nat /\ b.from \in Nat BY <1>2, AppendedAre
    <2>2. a # b BY <2>1
    <2> QED BY <1>2, <2>2, AppendedAre
  <1>5. M \subseteq r.terms /\ N \subseteq s.terms BY <1>1 DEF TermsWithin
  <1>6. PICK f, g : f = [t \in M |-> Part(y, t)] /\ g = [t \in N |-> Part(y, t)] OBVIOUS
  <1>7. /\ P = {f[t] : t \in M} /\ \A t, v \in M : f[t] = f[v] => t = v
        /\ Q = {g[t] : t \in N} /\ \A t, v \in N : g[t] = g[v] => t = v
        /\ \A t \in M \cap N : f[t] = g[t]
    <2>1. P = {Part(y, t) : t \in M} /\ Q = {Part(y, t) : t \in N} BY <1>1 DEF Shares
    <2>2. \A t, v \in M : Part(y, t) = Part(y, v) => t = v BY <1>1, <1>4, PartIs
    <2>3. \A t, v \in N : Part(y, t) = Part(y, v) => t = v BY <1>1, <1>4, PartIs
    <2> QED BY <1>6, <2>1, <2>2, <2>3
  <1>8. IsFiniteSet(P) /\ IsFiniteSet(Q) /\ \A x \in P \cup Q : ShareBy(h, x) \in Int
    <2>1. /\ IsFiniteSet(P)
          /\ \A x \in P : /\ x.rule \in Rules /\ x.from \in Int /\ x.to \in Int
                          /\ x.hours \in Nat /\ x.days \subseteq 1 .. WeekDays
      BY <1>4, SharesAre
    <2>2. /\ IsFiniteSet(Q)
          /\ \A x \in Q : /\ x.rule \in Rules /\ x.from \in Int /\ x.to \in Int
                          /\ x.hours \in Nat /\ x.days \subseteq 1 .. WeekDays
      BY <1>4, SharesAre
    <2>3. \A x \in P \cup Q : /\ x.rule \in Rules /\ x.from \in Int /\ x.to \in Int
                              /\ x.hours \in Nat /\ x.days \subseteq 1 .. WeekDays
      BY <2>1, <2>2
    <2> QED BY <2>1, <2>2, <2>3, ShareIs
  <1>9. PICK w : w = [x \in P \cup Q |-> ShareBy(h, x)] OBVIOUS
  <1>10. /\ Sum(P, [x \in P |-> ShareBy(h, x)]) = Sum(P, w)
         /\ Sum(Q, [x \in Q |-> ShareBy(h, x)]) = Sum(Q, w)
    <2>1. PICK v, z : v = [x \in P |-> ShareBy(h, x)] /\ z = [x \in Q |-> ShareBy(h, x)] OBVIOUS
    <2>2. (\A x \in P : v[x] = w[x]) /\ \A x \in Q : z[x] = w[x] BY <1>9, <2>1
    <2> QED BY <1>8, <2>1, <2>2, SameWeights
  <1>11. CASE u \notin M
    <2>1. M = N BY <1>3, <1>5, <1>11
    <2>2. P = Q BY <1>1, <2>1 DEF Shares
    <2> QED BY <1>8, <2>2
  <1>12. CASE u \in M
    <2>1. PICK L, K : L = M \ {u} /\ K = {f[t] : t \in L} OBVIOUS
    <2>2. /\ M = L \cup {u} /\ u \notin L /\ L \subseteq N /\ a \notin L /\ b \notin L
          /\ \A t \in N : t \in L \/ t = a \/ t = b
      BY <1>3, <1>4, <1>5, <1>12, <2>1
    <2>3. P = K \cup {f[u]} /\ f[u] \notin K BY <1>7, <1>12, <2>1, <2>2
    <2>4. K = {g[t] : t \in L} BY <1>7, <2>1, <2>2
    <2>5. IsFiniteSet(K) /\ K \subseteq P BY <1>8, <2>3, FS_Subset
    <2>6. /\ a \in N => g[a] \notin K /\ g[a] \in Q
          /\ b \in N => g[b] \notin K /\ g[b] \in Q
          /\ a \in N /\ b \in N => g[a] # g[b]
      BY <1>4, <1>7, <2>2, <2>4
    <2>7. /\ a \in N /\ b \notin N => g[a] = f[u]
          /\ a \notin N /\ b \in N => w[g[b]] = w[f[u]]
          /\ a \in N /\ b \in N => w[g[a]] + w[g[b]] = w[f[u]]
      <3>1. /\ a \in N /\ b \notin N => Part(y, a) = Part(y, u)
            /\ a \notin N /\ b \in N => ShareBy(h, Part(y, b)) = ShareBy(h, Part(y, u))
            /\ a \in N /\ b \in N => ShareBy(h, Part(y, a)) + ShareBy(h, Part(y, b)) = ShareBy(h, Part(y, u))
        BY <1>1, <1>2, <1>12, SharesAddUp
      <3>2. f[u] = Part(y, u) /\ (a \in N => g[a] = Part(y, a)) /\ (b \in N => g[b] = Part(y, b))
        BY <1>6, <1>12
      <3>3. \A x \in P \cup Q : w[x] = ShareBy(h, x) BY <1>9
      <3>4. f[u] \in P BY <2>3
      <3> QED BY <2>6, <3>1, <3>2, <3>3, <3>4
    <2>8. \A x \in P \cup Q : w[x] \in Int BY <1>8, <1>9
    <2>9. /\ Sum(P, w) = Sum(K, w) + w[f[u]] /\ Sum(K, w) \in Int /\ w[f[u]] \in Int
      <3>1. PICK x : x = f[u] OBVIOUS
      <3>2. P = K \cup {x} /\ x \notin K /\ Weighs(K \cup {x}, w) BY <2>3, <2>8, <3>1 DEF Weighs
      <3>3. Sum(K \cup {x}, w) = Sum(K, w) + w[x] /\ Sum(K, w) \in Int /\ w[x] \in Int BY <2>5, <3>2, SumAdded
      <3> QED BY <3>1, <3>2, <3>3
    <2>10. ASSUME NEW x \in Q, x \notin K PROVE Sum(K \cup {x}, w) = Sum(K, w) + w[x] /\ IsFiniteSet(K \cup {x})
      <3>1. Weighs(K \cup {x}, w) BY <2>5, <2>8 DEF Weighs
      <3> QED BY <2>5, <2>10, <3>1, SumAdded
    <2>11. CASE a \in N /\ b \notin N
      <3>1. N = L \cup {a} BY <2>2, <2>11
      <3>2. Q = K \cup {g[a]} BY <1>7, <2>4, <3>1
      <3> QED BY <1>8, <1>10, <2>3, <2>7, <2>11, <3>2
    <2>12. CASE a \notin N /\ b \in N
      <3>1. N = L \cup {b} BY <2>2, <2>12
      <3>2. Q = K \cup {g[b]} BY <1>7, <2>4, <3>1
      <3>3. Sum(Q, w) = Sum(K, w) + w[f[u]] BY <2>6, <2>7, <2>10, <2>12, <3>2
      <3> QED BY <1>8, <1>10, <2>9, <3>3
    <2>13. CASE a \in N /\ b \in N
      <3>1. N = L \cup {a, b} BY <2>2, <2>13
      <3>2. PICK i, j : i = g[a] /\ j = g[b] OBVIOUS
      <3>3. i \in Q /\ j \in Q /\ i \notin K /\ j \notin K \cup {i} BY <2>6, <2>13, <3>2
      <3>4. Q = (K \cup {i}) \cup {j} BY <1>7, <2>4, <3>1, <3>2
      <3>5. Weighs((K \cup {i}) \cup {j}, w) BY <2>8, <3>4 DEF Weighs
      <3>6. IsFiniteSet(K \cup {i}) /\ Sum(K \cup {i}, w) = Sum(K, w) + w[i] BY <2>10, <3>3
      <3>7. Sum((K \cup {i}) \cup {j}, w) = Sum(K \cup {i}, w) + w[j] BY <3>3, <3>5, <3>6, SumAdded
      <3>8. PICK k \in Int, c \in Int, d \in Int, e \in Int : k = Sum(K, w) /\ c = w[i] /\ d = w[j] /\ e = w[f[u]]
        BY <2>8, <2>9, <3>3
      <3>9. Sum(Q, w) = k + c + d /\ c + d = e BY <2>7, <2>13, <3>2, <3>4, <3>6, <3>7, <3>8
      <3>10. Sum(P, w) = k + e BY <2>9, <3>8
      <3> QED BY <1>8, <1>10, <3>8, <3>9, <3>10
    <2> QED BY <1>3, <1>12, <2>11, <2>12, <2>13
  <1> QED BY <1>11, <1>12

LEMMA GrantIsKept ==
  ASSUME NEW r, NEW s, NEW n, NEW u, Appended(r, s, n, u), NEW y \in Years, DaysOf(Bounds(y)) # {}, Keeps(y, n, u),
         ~ Vague(r, y), ~ Vague(s, y)
  PROVE  GrantOf(s, y) = GrantOf(r, y) /\ RuleOf(s, y, Year(y).to) = RuleOf(r, y, Year(y).to)
  <1>1. /\ PoliciesOf(s, y) = PoliciesOf(r, y)
        /\ Alike(Shares(s, y)) <=> Alike(Shares(r, y))
        /\ \A d \in DaysOf(Bounds(y)) :
             ShareOn(s, y, d).rule = ShareOn(r, y, d).rule /\ ShareOn(s, y, d).hours = ShareOn(r, y, d).hours
    BY SayingsAreKept DEF Vague
  <1>2. PolicyOf(s, y) = PolicyOf(r, y) BY <1>1 DEF PolicyOf
  <1>3. y \in Int /\ TermsWell(r) BY DEF Years, Appended, AccountWell
  <1>4. Bounds(y).from \in DaysOf(Bounds(y)) BY <1>3, YearIs
  <1>5. CASE Alike(Shares(r, y))
    <2>1. PICK f, g : f = ShareOn(r, y, Bounds(y).from) /\ g = ShareOn(s, y, Bounds(y).from) OBVIOUS
    <2>2. g.rule = f.rule /\ g.hours = f.hours BY <1>1, <1>4, <2>1
    <2>3. GrantOf(s, y) = Entitlement(y, Employed, g.hours, g.rule) /\ RuleOf(s, y, Year(y).to) = g.rule
      BY <1>1, <1>5, <2>1 DEF GrantOf, RuleOf
    <2>4. GrantOf(r, y) = Entitlement(y, Employed, f.hours, f.rule) /\ RuleOf(r, y, Year(y).to) = f.rule
      BY <1>5, <2>1 DEF GrantOf, RuleOf
    <2> QED BY <2>2, <2>3, <2>4
  <1>6. CASE ~ Alike(Shares(r, y))
    <2>1. PICK P, Q, p : P = Shares(r, y) /\ Q = Shares(s, y) /\ p = PolicyOf(r, y) OBVIOUS
    <2>2. \A h : /\ Sum(P, [x \in P |-> ShareBy(h, x)]) = Sum(Q, [x \in Q |-> ShareBy(h, x)])
                 /\ IsFiniteSet(P) /\ IsFiniteSet(Q)
      BY <2>1, SharesAreKept DEF Vague
    <2>3. PICK h \in BOOLEAN, m \in Nat \ {0} :
            /\ h <=> p.basis = "WEEKLY_HOURS"
            /\ m = (IF p.basis = "WEEKLY_HOURS" THEN FullTime ELSE PerWeek) * YearDays
            /\ Shared(P, p) = Hundredths(Sum(P, [x \in P |-> ShareBy(h, x)]), m)
      BY <2>2, SharedBySum
    <2>4. PICK k \in BOOLEAN, l \in Nat \ {0} :
            /\ k <=> p.basis = "WEEKLY_HOURS"
            /\ l = (IF p.basis = "WEEKLY_HOURS" THEN FullTime ELSE PerWeek) * YearDays
            /\ Shared(Q, p) = Hundredths(Sum(Q, [x \in Q |-> ShareBy(k, x)]), l)
      BY <2>2, SharedBySum
    <2>5. k = h /\ l = m BY <2>3, <2>4
    <2>6. Shared(Q, p) = Shared(P, p) BY <2>2, <2>3, <2>4, <2>5
    <2>7. GrantOf(s, y) = GrantOf(r, y) BY <1>1, <1>2, <1>6, <2>1, <2>6 DEF GrantOf
    <2>8. p \in PoliciesOf(r, y)
      <3>1. PoliciesOf(r, y) # {} BY <1>6 DEF Vague
      <3> QED BY <2>1, <3>1 DEF PolicyOf
    <2>9. PICK v \in TermsWithin(r, Bounds(y)) : p = v.is.policy /\ v.is.policy # Nothing
      BY <2>8 DEF PoliciesOf
    <2>10. p.at \in {"YEAR_START", "YEAR_END", "AS_OF"}
      <3>1. v \in r.terms BY DEF TermsWithin
      <3> QED BY <1>3, <2>9, <3>1, TermSays
    <2>11. PICK e \in Int : e = Year(y).to BY <1>3, YearIs DEF Interval
    <2>12. PICK d \in DaysOf(Bounds(y)) : d = PolicyDay(y, e, p, Bounds(y)) BY <1>3, <2>10, PolicyDayIs
    <2>13. RuleOf(s, y, e) = ShareOn(s, y, d).rule /\ RuleOf(r, y, e) = ShareOn(r, y, d).rule
      BY <1>1, <1>2, <1>6, <2>1, <2>12 DEF RuleOf
    <2> QED BY <1>1, <2>7, <2>11, <2>13
  <1> QED BY <1>5, <1>6

\* What the year before leaves is kept as well.
LEMMA AppendMoves ==
  ASSUME NEW r, NEW s, NEW n, NEW u, Appended(r, s, n, u), NEW y \in Years, DaysOf(Bounds(y)) # {}, Keeps(y, n, u),
         y - 1 \in Years /\ DaysOf(Bounds(y - 1)) # {} => Keeps(y - 1, n, u),
         NEW a, NEW b, a = BalanceOf(r, y, Year(y).to), b = BalanceOf(s, y, Year(y).to), a # Refused, b # Refused
  PROVE  b.remaining - a.remaining = 0
  <1>1. AccountWell(s) /\ AccountWell(r) /\ s.adjusted = r.adjusted BY DEF Appended
  <1>2. ASSUME NEW x \in Years, DaysOf(Bounds(x)) # {}, Keeps(x, n, u), ~ Vague(r, x), ~ Vague(s, x), NEW p
        PROVE  EndOf(s, x, p) = EndOf(r, x, p)
    <2>1. GrantOf(s, x) = GrantOf(r, x) /\ RuleOf(s, x, Year(x).to) = RuleOf(r, x, Year(x).to)
      BY <1>2, GrantIsKept
    <2>2. UsageOf(s, x) = UsageOf(r, x) BY <1>2, UsageIsKept
    <2> QED BY <1>1, <2>1, <2>2 DEF EndOf
  <1>3. /\ ~ Vague(r, y) /\ PriorOf(r, y - 1) \in Nat /\ a.remaining = EndOf(r, y, PriorOf(r, y - 1))
        /\ y - 1 \in Years /\ DaysOf(Bounds(y - 1)) # {} => ~ Vague(r, y - 1)
    BY <1>1, BalanceAtEnd
  <1>4. /\ ~ Vague(s, y) /\ b.remaining = EndOf(s, y, PriorOf(s, y - 1))
        /\ y - 1 \in Years /\ DaysOf(Bounds(y - 1)) # {} => ~ Vague(s, y - 1)
    BY <1>1, BalanceAtEnd
  <1>5. PriorOf(s, y - 1) = PriorOf(r, y - 1) BY <1>2, <1>3, <1>4 DEF PriorOf
  <1>6. b.remaining = a.remaining BY <1>2, <1>3, <1>4, <1>5
  <1>7. a.remaining \in Int BY <1>1, <1>3, EndIs
  <1> QED BY <1>6, <1>7

-----------------------------------------------------------------------------
(* Leave: the rows before and after an operation.                           *)

Follows(r, s) ==
  \/ s.terms = r.terms /\ s.leave = r.leave /\ s.adjusted = r.adjusted
  \/ \E l \in Leave : /\ s.terms = r.terms /\ s.adjusted = r.adjusted
                      /\ \A k \in Leave : k # l => s.leave[k] = r.leave[k]
  \/ \E x \in Years, d \in Int :
       /\ s.terms = r.terms /\ s.leave = r.leave
       /\ \A z \in Years : s.adjusted[z] = IF z = x THEN r.adjusted[z] + d ELSE r.adjusted[z]
  \/ \E n \in NextTerm, u \in r.terms :
       /\ s.leave = r.leave /\ s.adjusted = r.adjusted /\ u.from < n.from /\ n.from < u.to
       /\ s.terms = (r.terms \ {u}) \cup {EndedTerm(u, n), n}
       /\ \A l \in Leave : r.leave[l] = "NONE" \/ l.to * Parts < n.from

LEMMA StepsFollow ==
  ASSUME AccountWell(Rows), AccountNext
  PROVE  Follows(Rows, Rows')
  <1>1. PICK r, s : r = Rows /\ s = Rows' OBVIOUS
  <1>2. /\ r.terms = terms /\ r.leave = leave /\ r.adjusted = adjusted
        /\ s.terms = terms' /\ s.leave = leave' /\ s.adjusted = adjusted'
    BY <1>1 DEF Rows
  <1>3. leave \in [Leave -> Decisions] /\ adjusted \in [Years -> Int] BY <1>1, <1>2 DEF AccountWell, LeaveWell
  <1> SUFFICES Follows(r, s) BY <1>1
  <1>4. ASSUME NEW l \in Leave, NEW status, leave' = [leave EXCEPT ![l] = status], terms' = terms, adjusted' = adjusted
        PROVE  Follows(r, s)
    <2>1. \A k \in Leave : k # l => leave'[k] = leave[k] BY <1>3, <1>4
    <2> QED BY <1>2, <1>4, <2>1 DEF Follows
  <1>5. CASE \E l \in Leave : AskForLeave(l) \/ CancelLeave(l)
    <2>1. PICK l \in Leave : AskForLeave(l) \/ CancelLeave(l) BY <1>5
    <2>2. PICK status : leave' = [leave EXCEPT ![l] = status] /\ terms' = terms /\ adjusted' = adjusted
      BY <2>1 DEF AskForLeave, CancelLeave
    <2> QED BY <1>4, <2>2
  <1>6. CASE \E l \in Leave, status \in {"APPROVED", "REJECTED"} : DecideLeave(l, status)
    <2>1. PICK l \in Leave : \E status \in {"APPROVED", "REJECTED"} : DecideLeave(l, status) BY <1>6
    <2>2. PICK status : leave' = [leave EXCEPT ![l] = status] /\ terms' = terms /\ adjusted' = adjusted
      BY <2>1 DEF DecideLeave
    <2> QED BY <1>4, <2>2
  <1>7. CASE \E y \in Years, delta \in Delta : AdjustLeave(y, delta)
    <2>1. PICK y \in Years, delta \in Delta : AdjustLeave(y, delta) BY <1>7
    <2>2. delta \in Int /\ terms' = terms /\ leave' = leave /\ adjusted' = [adjusted EXCEPT ![y] = @ + delta]
      BY <2>1, AdjustmentsAreAmounts DEF AdjustLeave
    <2>3. \A z \in Years : adjusted'[z] = IF z = y THEN adjusted[z] + delta ELSE adjusted[z] BY <1>3, <2>2
    <2>4. PICK d \in Int : d = delta BY <2>2
    <2>5. /\ s.terms = r.terms /\ s.leave = r.leave
          /\ \A z \in Years : s.adjusted[z] = IF z = y THEN r.adjusted[z] + d ELSE r.adjusted[z]
      BY <1>2, <2>2, <2>3, <2>4
    <2> QED BY <2>5, Zenon DEF Follows
  <1>8. CASE \E n \in NextTerm : AppendTerm(n)
    <2>1. PICK n \in NextTerm : AppendTerm(n) BY <1>8
    <2>2. PICK u \in terms : /\ {v \in terms : n.from < v.to} = {u} /\ u.from < n.from
                             /\ terms' = (terms \ {u}) \cup {EndedTerm(u, n), n}
      BY <2>1 DEF AppendTerm, EndedTerm
    <2>3. leave' = leave /\ adjusted' = adjusted /\ \A l \in Leave : leave[l] = "NONE" \/ l.to * Parts < n.from
      BY <2>1 DEF AppendTerm
    <2>4. /\ u \in r.terms /\ s.leave = r.leave /\ s.adjusted = r.adjusted /\ u.from < n.from /\ n.from < u.to
          /\ s.terms = (r.terms \ {u}) \cup {EndedTerm(u, n), n}
          /\ \A l \in Leave : r.leave[l] = "NONE" \/ l.to * Parts < n.from
      BY <1>2, <2>2, <2>3
    <2> QED BY <2>4, Zenon DEF Follows
  <1> QED BY <1>5, <1>6, <1>7, <1>8 DEF AccountNext

\* Which operation it was, from what differs.
LEMMA WhatFollows ==
  ASSUME NEW r, NEW s, AccountWell(r), AccountWell(s), Follows(r, s)
  PROVE  /\ \A l \in Leave : /\ s.leave[l] = "APPROVED" /\ r.leave[l] # "APPROVED" => Adds(r, s, l)
                             /\ r.leave[l] = "APPROVED" /\ s.leave[l] # "APPROVED" => Adds(s, r, l)
         /\ \A x \in Years : s.adjusted[x] - r.adjusted[x] # 0 => Adjusts(r, s, x, s.adjusted[x] - r.adjusted[x])
         /\ s.terms # r.terms => \E n, u : Appended(r, s, n, u)
  <1>1. ASSUME NEW l \in Leave, s.leave[l] # r.leave[l]
        PROVE  s.terms = r.terms /\ s.adjusted = r.adjusted /\ \A k \in Leave : k # l => s.leave[k] = r.leave[k]
    BY <1>1 DEF Follows
  <1>2. ASSUME NEW l \in Leave
        PROVE  /\ s.leave[l] = "APPROVED" /\ r.leave[l] # "APPROVED" => Adds(r, s, l)
               /\ r.leave[l] = "APPROVED" /\ s.leave[l] # "APPROVED" => Adds(s, r, l)
    BY <1>1 DEF Adds
  <1>3. ASSUME NEW x \in Years, s.adjusted[x] - r.adjusted[x] # 0
        PROVE  Adjusts(r, s, x, s.adjusted[x] - r.adjusted[x])
    <2>1. r.adjusted[x] \in Int /\ s.adjusted[x] \in Int BY DEF AccountWell, LeaveWell
    <2>2. s.adjusted[x] # r.adjusted[x] BY <1>3, <2>1
    <2>3. PICK y \in Years, d \in Int :
            /\ s.terms = r.terms /\ s.leave = r.leave
            /\ \A z \in Years : s.adjusted[z] = IF z = y THEN r.adjusted[z] + d ELSE r.adjusted[z]
      BY <2>2 DEF Follows
    <2>4. y = x BY <2>2, <2>3
    <2>5. d = s.adjusted[x] - r.adjusted[x] BY <2>1, <2>3, <2>4
    <2> QED BY <2>3, <2>4, <2>5 DEF Adjusts
  <1>4. ASSUME s.terms # r.terms PROVE \E n, u : Appended(r, s, n, u) BY <1>4 DEF Follows, Appended
  <1> QED BY <1>2, <1>3, <1>4

\* Of two new terms, the one that begins later than the term that is gone is the one that was appended.
LEMMA NewTermIs ==
  ASSUME NEW r, NEW s, NEW n, NEW u, Appended(r, s, n, u), NEW t \in s.terms \ r.terms,
         NEW v \in r.terms \ s.terms, v.from < t.from
  PROVE  t = n /\ v = u
  <1>1. PICK a, b : a = EndedTerm(u, n) /\ b = n OBVIOUS
  <1>2. a.from = u.from /\ u.from \in Nat /\ s.terms = (r.terms \ {u}) \cup {a, b} BY <1>1, AppendedAre
  <1>3. v = u BY <1>2
  <1>4. t # a BY <1>2, <1>3
  <1> QED BY <1>1, <1>2, <1>3, <1>4

LEMMA YearsAreKept ==
  ASSUME NEW r, NEW s, NEW n, NEW u, Appended(r, s, n, u), NEW y \in Years,
         \/ Year(y).to < n.from \div Parts
         \/ n.from % Parts = 0 /\ [n.is EXCEPT !.unit = u.is.unit] = u.is
  PROVE  Keeps(y, n, u) /\ Keeps(y - 1, n, u)
  <1>1. CASE Year(y).to < n.from \div Parts
    <2>1. PICK p \in Nat \ {0}, k \in Nat \ {0}, m \in Nat : p = Parts /\ k = YearDays /\ m = n.from
      BY BoundsOfLeave, OpenEndIs, AppendedAre
    <2>2. m \div p \in Int BY QuotientBounds
    <2>3. PICK q \in Int : q = n.from \div Parts BY <2>1, <2>2
    <2>4. y \in Int /\ y - 1 \in Int BY DEF Years
    <2>5. PICK i \in Interval, j \in Interval, e \in Interval : i = Year(y) /\ j = Year(y - 1) /\ e = Employed
      BY <2>4, YearIs
    <2>6. i.to = (y + 1) * k - 1 /\ j.to = (y - 1 + 1) * k - 1 BY <2>1, <2>4, <2>5, YearIs
    <2>7. i.to \in Int /\ j.to \in Int /\ j.to <= i.to
      <3>1. (y + 1) * k = y * k + k BY <2>4
      <3>2. y - 1 + 1 = y BY <2>4
      <3>3. PICK z \in Int : z = y * k BY <2>4
      <3> QED BY <2>6, <3>1, <3>2, <3>3
    <2>8. PICK b, c : b = Bounds(y) /\ c = Bounds(y - 1) OBVIOUS
    <2>9. b \in Interval /\ c \in Interval /\ b.to <= i.to /\ c.to <= j.to BY <2>5, <2>8, ClipIs DEF Bounds
    <2>10. b.to < q /\ c.to < q BY <1>1, <2>3, <2>5, <2>7, <2>9 DEF Interval
    <2> QED BY <2>3, <2>8, <2>10 DEF Keeps
  <1>2. CASE n.from % Parts = 0 /\ [n.is EXCEPT !.unit = u.is.unit] = u.is
    <2>1. n \in NextTerm BY DEF Appended
    <2>2. DOMAIN n.is = {"unit", "hours", "days", "holidays", "rule", "policy"} BY <2>1, TermsAreTerms
    <2>3. /\ u.is.hours = n.is.hours /\ u.is.days = n.is.days
          /\ u.is.rule = n.is.rule /\ u.is.policy = n.is.policy
      <3>1. PICK f, g : f = n.is /\ g = [f EXCEPT !.unit = u.is.unit] OBVIOUS
      <3>2. g.hours = f.hours /\ g.days = f.days /\ g.rule = f.rule /\ g.policy = f.policy BY <2>2, <3>1
      <3> QED BY <1>2, <2>1, <3>1, <3>2
    <2> QED BY <1>2, <2>1, <2>3 DEF Keeps, Alikes
  <1> QED BY <1>1, <1>2

LEMMA OperationsMove ==
  ASSUME AccountWell(Rows), AccountWell(before), Follows(before, Rows), NEW y \in Years, DaysOf(Bounds(y)) # {}
  PROVE  Moved(y, Earlier!Balance(y, Year(y).to), Balance(y, Year(y).to))
  <1>1. PICK r, s : r = before /\ s = Rows OBVIOUS
  <1>2. /\ s.terms = terms /\ s.leave = leave /\ s.adjusted = adjusted
        /\ AccountWell(r) /\ AccountWell(s) /\ Follows(r, s) /\ y \in Int /\ y - 1 \in Int
    BY <1>1 DEF Rows, Years
  <1>3. PICK a, b : a = BalanceOf(r, y, Year(y).to) /\ b = BalanceOf(s, y, Year(y).to) OBVIOUS
  <1>4. Earlier!Balance(y, Year(y).to) = a /\ Balance(y, Year(y).to) = b
    BY <1>1, <1>3, BalanceBefore, BalanceNow
  <1>5. SUFFICES ASSUME a # Refused, b # Refused
        PROVE  /\ \A l \in Leave :
                    /\ leave[l] = "APPROVED" /\ ~ (before.leave[l] = "APPROVED") =>
                         b.remaining - a.remaining \in - (100 * (Cardinality(OffWork(l, y)) + Cardinality(OffWork(l, y - 1)))) .. 0
                    /\ before.leave[l] = "APPROVED" /\ ~ (leave[l] = "APPROVED") =>
                         b.remaining - a.remaining \in 0 .. 100 * (Cardinality(OffWork(l, y)) + Cardinality(OffWork(l, y - 1)))
               /\ adjusted[y] - before.adjusted[y] # 0 => b.remaining - a.remaining = adjusted[y] - before.adjusted[y]
               /\ y > 0 /\ adjusted[y - 1] - before.adjusted[y - 1] > 0 =>
                    b.remaining - a.remaining \in 0 .. adjusted[y - 1] - before.adjusted[y - 1]
               /\ y > 0 /\ adjusted[y - 1] - before.adjusted[y - 1] < 0 =>
                    b.remaining - a.remaining \in adjusted[y - 1] - before.adjusted[y - 1] .. 0
               /\ \A t \in terms \ before.terms : \A last \in before.terms \ terms :
                    LET same == [t.is EXCEPT !.unit = last.is.unit] = last.is IN
                    last.from < t.from /\ (Year(y).to < t.from \div Parts \/ (same /\ t.from % Parts = 0))
                      => b.remaining - a.remaining = 0
    BY <1>4 DEF Moved
  <1>6. ASSUME NEW l \in Leave
        PROVE  /\ leave[l] = "APPROVED" /\ ~ (before.leave[l] = "APPROVED") =>
                    b.remaining - a.remaining \in - (100 * (Cardinality(OffWork(l, y)) + Cardinality(OffWork(l, y - 1)))) .. 0
               /\ before.leave[l] = "APPROVED" /\ ~ (leave[l] = "APPROVED") =>
                    b.remaining - a.remaining \in 0 .. 100 * (Cardinality(OffWork(l, y)) + Cardinality(OffWork(l, y - 1)))
    <2>1. \A x : OffWork(l, x) = OffIn(s, l, x) BY <1>1, BalanceNow DEF OffWork, OffIn
    <2>2. PICK c : c = 100 * (Cardinality(OffIn(s, l, y)) + Cardinality(OffIn(s, l, y - 1))) OBVIOUS
    <2>3. ASSUME s.leave[l] = "APPROVED", r.leave[l] # "APPROVED" PROVE b.remaining - a.remaining \in - c .. 0
      <3>1. Adds(r, s, l) BY <1>2, <2>3, WhatFollows
      <3> QED BY <1>3, <1>5, <2>2, <3>1, LeaveMoves
    <2>4. ASSUME r.leave[l] = "APPROVED", s.leave[l] # "APPROVED" PROVE b.remaining - a.remaining \in 0 .. c
      <3>1. Adds(s, r, l) BY <1>2, <2>4, WhatFollows
      <3>2. c = 100 * (Cardinality(OffIn(r, l, y)) + Cardinality(OffIn(r, l, y - 1)))
        <4>1. \A d : TermsOn(r, d) = TermsOn(s, d) BY <3>1, SameTermsSay DEF Adds
        <4>2. OffIn(r, l, y) = OffIn(s, l, y) /\ OffIn(r, l, y - 1) = OffIn(s, l, y - 1) BY <4>1 DEF OffIn
        <4> QED BY <2>2, <4>2
      <3> QED BY <1>3, <1>5, <3>1, <3>2, LeaveMoves
    <2>5. c = 100 * (Cardinality(OffWork(l, y)) + Cardinality(OffWork(l, y - 1))) BY <2>1, <2>2
    <2> QED BY <1>1, <1>2, <2>3, <2>4, <2>5
  <1>7. PICK k : k = [x \in Years |-> adjusted[x] - before.adjusted[x]] OBVIOUS
  <1>8. \A x \in Years : k[x] \in Int /\ (k[x] # 0 => Adjusts(r, s, x, k[x]))
    <2>1. \A x \in Years : k[x] = s.adjusted[x] - r.adjusted[x] /\ s.adjusted[x] \in Int /\ r.adjusted[x] \in Int
      BY <1>1, <1>2, <1>7 DEF AccountWell, LeaveWell
    <2> QED BY <1>2, <2>1, WhatFollows
  <1>9. k[y] # 0 => b.remaining - a.remaining = k[y] BY <1>3, <1>5, <1>8, AdjustmentMoves
  <1>10. ASSUME y > 0
         PROVE  /\ y - 1 \in Years
                /\ k[y - 1] > 0 => b.remaining - a.remaining \in 0 .. k[y - 1]
                /\ k[y - 1] < 0 => b.remaining - a.remaining \in k[y - 1] .. 0
    <2>1. PICK x \in Years : x = y - 1 BY <1>2, <1>10, BoundsOfLeave DEF Years
    <2>2. PICK d \in Int : d = k[x] BY <1>8
    <2>3. d # 0 => /\ d > 0 => b.remaining - a.remaining \in 0 .. d
                   /\ d < 0 => b.remaining - a.remaining \in d .. 0
      BY <1>3, <1>5, <1>8, <2>1, <2>2, AdjustmentMoves
    <2> QED BY <2>1, <2>2, <2>3
  <1>11. ASSUME NEW t \in terms \ before.terms, NEW v \in before.terms \ terms, v.from < t.from,
                Year(y).to < t.from \div Parts \/ ([t.is EXCEPT !.unit = v.is.unit] = v.is /\ t.from % Parts = 0)
         PROVE  b.remaining - a.remaining = 0
    <2>1. PICK n, u : Appended(r, s, n, u) BY <1>1, <1>2, <1>11, WhatFollows
    <2>2. t = n /\ v = u BY <1>1, <1>2, <1>11, <2>1, NewTermIs
    <2>3. Keeps(y, n, u) /\ Keeps(y - 1, n, u) BY <1>11, <2>1, <2>2, YearsAreKept
    <2> QED BY <1>3, <1>5, <2>1, <2>3, AppendMoves
  <1>12. \A x \in Years : k[x] = adjusted[x] - before.adjusted[x] BY <1>7
  <1> QED BY <1>6, <1>9, <1>10, <1>11, <1>12

LEMMA HistoryStaysWell ==
  HistorySpec => [](AccountWell(Rows) /\ AccountTypeOK /\ AccountWell(before) /\ Follows(before, Rows))
  <1> DEFINE Inv == AccountWell(Rows) /\ AccountTypeOK /\ AccountWell(before) /\ Follows(before, Rows)
  <1>1. HistoryInit => Inv BY FirstRowsAreWell DEF HistoryInit, Follows
  <1>2. Inv /\ [HistoryNext]_<<accountVars, before>> => Inv'
    <2>1. SUFFICES ASSUME Inv, [HistoryNext]_<<accountVars, before>> PROVE Inv' OBVIOUS
    <2>2. CASE HistoryNext
      <3>1. AccountNext /\ before' = Rows BY <2>2 DEF HistoryNext
      <3>2. AccountWell(Rows)' /\ AccountTypeOK' BY <2>1, <3>1, StepsKeepRowsWell
      <3>3. Follows(Rows, Rows') BY <2>1, <3>1, StepsFollow
      <3>4. AccountWell(before') BY <2>1, <3>1
      <3>5. Follows(before', Rows') BY <3>1, <3>3
      <3> QED BY <3>2, <3>4, <3>5
    <2>3. CASE UNCHANGED <<accountVars, before>>
      BY <2>1, <2>3 DEF accountVars, Rows, AccountWell, TermsWell, LeaveWell, AccountTypeOK, Follows
    <2> QED BY <2>1, <2>2, <2>3
  <1> QED BY <1>1, <1>2, PTL DEF HistorySpec

\* Approving leave costs at most its days, in its year or as carry-over in the next, and gives
\* nothing; cancelling gives at most these back.  An adjustment moves its own year by its amount
\* and the next by at most that.  A new term that changes nothing about leave moves nothing.
THEOREM OperationsMoveBalances ==
  HistorySpec => []BalanceMoves
  <1>1. AccountWell(Rows) /\ AccountTypeOK /\ AccountWell(before) /\ Follows(before, Rows) => BalanceMoves
    BY OperationsMove DEF BalanceMoves
  <1> QED BY <1>1, HistoryStaysWell, PTL
=============================================================================
