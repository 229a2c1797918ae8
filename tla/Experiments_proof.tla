-------------------------- MODULE Experiments_proof -------------------------
(***************************************************************************)
(* The evaluation's programs, for any stream, knobs, queue bound and number*)
(* of trials: no frame of the sender is unaccounted for, the proxy's       *)
(* counter is what it holds, and a handshake that was completed counts as  *)
(* one.                                                                    *)
(***************************************************************************)
EXTENDS Experiments, FiniteSetTheorems, WellFoundedInduction, TLAPS

-----------------------------------------------------------------------------
(* Bags.  How many a finite bag holds is a sum over its elements in an order *)
(* left open; it does not depend on that order.                              *)

Some(S) == CHOOSE e \in S : TRUE

Sums(c, D, g) ==
    g = [S \in SUBSET D |-> IF S = {} THEN 0 ELSE c[Some(S)] + g[S \ {Some(S)}]]

(* The least size of a counterexample. *)
LEMMA LeastNat ==
    ASSUME NEW N, N \subseteq Nat, N # {}
    PROVE  \E n \in N : \A m \in Nat : m < n => m \notin N
<1> DEFINE R == OpToRel(<, Nat)
<1>1. \A x, y \in Nat : <<y, x>> \in R <=> y < x
      BY DEF OpToRel
<1>2. IsWellFoundedOn(R, Nat)
      BY NatLessThanWellFounded
<1> HIDE DEF R
<1>3. PICK n \in N : \A m \in N : ~(<<m, n>> \in R)
      BY <1>2, WFMin
<1>4. QED BY <1>1, <1>3

LEMMA SomeOf == ASSUME NEW S, S # {} PROVE Some(S) \in S
BY DEF Some

LEMMA SmallerSet ==
    ASSUME NEW S, IsFiniteSet(S), NEW e \in S
    PROVE  /\ IsFiniteSet(S \ {e}) /\ Cardinality(S) \in Nat
           /\ Cardinality(S \ {e}) \in Nat /\ Cardinality(S \ {e}) < Cardinality(S)
<1>1. /\ IsFiniteSet(S \ {e}) /\ Cardinality(S \ {e}) = Cardinality(S) - 1
      BY FS_RemoveElement
<1>2. Cardinality(S) \in Nat /\ Cardinality(S \ {e}) \in Nat
      BY <1>1, FS_CardinalityType
<1>3. QED BY <1>1, <1>2

(* The equation holds on all sets of at most n elements. *)
SumsTo(c, D, g, n) ==
    \A S \in SUBSET D : Cardinality(S) <= n =>
        g[S] = IF S = {} THEN 0 ELSE c[Some(S)] + g[S \ {Some(S)}]

LEMMA SumsUpTo ==
    ASSUME NEW D, IsFiniteSet(D), NEW c
    PROVE  \A n \in Nat : \E g : g = [S \in SUBSET D |-> g[S]] /\ SumsTo(c, D, g, n)
<1> DEFINE P(n) == \E g : g = [S \in SUBSET D |-> g[S]] /\ SumsTo(c, D, g, n)
           N == {n \in Nat : ~P(n)}
<1> SUFFICES N = {}
    OBVIOUS
<1> SUFFICES ASSUME N # {} PROVE FALSE
    OBVIOUS
<1>1. PICK n \in N : \A m \in Nat : m < n => m \notin N
  <2>1. N \subseteq Nat
        OBVIOUS
  <2> HIDE DEF N
  <2>2. QED BY <2>1, LeastNat
<1>2. \A S \in SUBSET D : IsFiniteSet(S) /\ Cardinality(S) \in Nat
      BY FS_Subset, FS_CardinalityType
<1>3. n # 0
  <2> DEFINE g == [S \in SUBSET D |-> 0]
  <2>1. \A S \in SUBSET D : Cardinality(S) <= 0 => S = {}
        BY <1>2, FS_EmptySet
  <2>2. SumsTo(c, D, g, 0)
        BY <2>1 DEF SumsTo
  <2>3. g = [S \in SUBSET D |-> g[S]]
        OBVIOUS
  <2> HIDE DEF g
  <2>4. P(0)
        BY <2>2, <2>3
  <2>5. QED BY <2>4
<1>4. n - 1 \in Nat /\ n \in Nat /\ n - 1 < n
      BY <1>3
<1>5. PICK f : f = [S \in SUBSET D |-> f[S]] /\ SumsTo(c, D, f, n - 1)
      BY <1>1, <1>4
<1> DEFINE g == [S \in SUBSET D |-> IF S = {} THEN 0 ELSE c[Some(S)] + f[S \ {Some(S)}]]
<1>6. \A S \in SUBSET D : g[S] = IF S = {} THEN 0 ELSE c[Some(S)] + f[S \ {Some(S)}]
      OBVIOUS
<1>7. g = [S \in SUBSET D |-> g[S]]
      OBVIOUS
<1> HIDE DEF g
<1>8. \A S \in SUBSET D : Cardinality(S) <= n - 1 => g[S] = f[S]
      BY <1>5, <1>6 DEF SumsTo
<1>9. SumsTo(c, D, g, n)
  <2> SUFFICES ASSUME NEW S \in SUBSET D, Cardinality(S) <= n, S # {}
               PROVE  g[S] = c[Some(S)] + g[S \ {Some(S)}]
      BY <1>6 DEF SumsTo
  <2> DEFINE T == S \ {Some(S)}
  <2>1. Some(S) \in S
        BY SomeOf
  <2>2. Cardinality(T) < Cardinality(S) /\ Cardinality(T) \in Nat /\ Cardinality(S) \in Nat
        BY <1>2, <2>1, SmallerSet
  <2>3. T \in SUBSET D /\ Cardinality(T) <= n - 1
        BY <1>4, <2>2
  <2>4. g[T] = f[T]
        BY <1>8, <2>3
  <2>5. QED BY <1>6, <2>4
<1>10. P(n)
       BY <1>7, <1>9
<1>11. QED BY <1>10

LEMMA SumExists ==
    ASSUME NEW D, IsFiniteSet(D), NEW c
    PROVE  \E g : Sums(c, D, g)
<1>1. Cardinality(D) \in Nat
      BY FS_CardinalityType
<1>2. PICK g : g = [S \in SUBSET D |-> g[S]] /\ SumsTo(c, D, g, Cardinality(D))
      BY <1>1, SumsUpTo
<1>3. \A S \in SUBSET D : Cardinality(S) <= Cardinality(D)
      BY FS_Subset
<1>4. \A S \in SUBSET D : g[S] = IF S = {} THEN 0 ELSE c[Some(S)] + g[S \ {Some(S)}]
      BY <1>2, <1>3 DEF SumsTo
<1>5. Sums(c, D, g)
      BY <1>2, <1>4 DEF Sums
<1>6. QED BY <1>5

LEMMA CardinalityIsSum ==
    ASSUME NEW B, IsFiniteSet(DOMAIN B)
    PROVE  \E g : Sums(B, DOMAIN B, g) /\ BagCardinality(B) = g[DOMAIN B]
<1> DEFINE ds[S \in SUBSET DOMAIN B] ==
               LET elt == CHOOSE e \in S : TRUE
               IN  IF S = {} THEN 0 ELSE B[elt] + ds[S \ {elt}]
<1>1. BagCardinality(B) = ds[DOMAIN B]
      BY DEF BagCardinality
<1>2. PICK g : Sums(B, DOMAIN B, g)
      BY SumExists
<1> DEFINE Q(h) == h = [S \in SUBSET DOMAIN B |->
                           IF S = {} THEN 0
                           ELSE B[CHOOSE e \in S : TRUE] + h[S \ {CHOOSE e \in S : TRUE}]]
<1>3. ds = CHOOSE h : Q(h)
      BY DEF ds
<1>4. \A h : Q(h) <=> Sums(B, DOMAIN B, h)
      BY DEF Sums, Some
<1> HIDE DEF ds, Q
<1>5. Q(ds)
      BY <1>2, <1>3, <1>4
<1>6. Sums(B, DOMAIN B, ds)
      BY <1>4, <1>5
<1>7. QED BY <1>1, <1>6

LEMMA SumStep ==
    ASSUME NEW D, NEW c, NEW g, Sums(c, D, g), NEW S \in SUBSET D
    PROVE  g[S] = IF S = {} THEN 0 ELSE c[Some(S)] + g[S \ {Some(S)}]
<1> DEFINE rhs(T) == IF T = {} THEN 0 ELSE c[Some(T)] + g[T \ {Some(T)}]
<1>1. g = [T \in SUBSET D |-> rhs(T)]
      BY DEF Sums
<1> HIDE DEF rhs
<1>2. g[S] = rhs(S)
      BY <1>1
<1>3. QED BY <1>2 DEF rhs

(* Whatever element is taken first, the sum is the same. *)
LEMMA SumTakesAny ==
    ASSUME NEW D, IsFiniteSet(D), NEW c \in [D -> Nat], NEW g, Sums(c, D, g)
    PROVE  \A S \in SUBSET D :
             g[S] \in Nat /\ \A v \in S : g[S] = c[v] + g[S \ {v}]
<1> DEFINE Good(S) == g[S] \in Nat /\ \A v \in S : g[S] = c[v] + g[S \ {v}]
           N == {n \in Nat : \E S \in SUBSET D : Cardinality(S) = n /\ ~Good(S)}
<1>1. \A S \in SUBSET D : IsFiniteSet(S) /\ Cardinality(S) \in Nat
      BY FS_Subset, FS_CardinalityType
<1> SUFFICES ASSUME N # {} PROVE FALSE
  <2>1. ASSUME N = {}, NEW S \in SUBSET D
        PROVE  Good(S)
        BY <1>1, <2>1
  <2>2. QED BY <2>1
<1>2. PICK n \in N : \A m \in Nat : m < n => m \notin N
  <2>1. N \subseteq Nat
        OBVIOUS
  <2> HIDE DEF N
  <2>2. QED BY <2>1, LeastNat
<1>3. PICK S \in SUBSET D : Cardinality(S) = n /\ ~Good(S)
      OBVIOUS
<1>4. \A T \in SUBSET D : Cardinality(T) < n => Good(T)
      BY <1>1, <1>2
<1> HIDE DEF N, Good
<1>5. \A T \in SUBSET D : Good(T) => g[T] \in Nat /\ \A v \in T : g[T] = c[v] + g[T \ {v}]
      BY DEF Good
<1>6. S # {}
  <2>1. S = {} => g[S] = 0
        BY SumStep
  <2>2. S = {} => Good(S)
        BY <2>1 DEF Good
  <2>3. QED BY <1>3, <2>2
<1> DEFINE e == Some(S)
<1>7. e \in S /\ g[S] = c[e] + g[S \ {e}] /\ c[e] \in Nat
  <2>1. e \in S
        BY <1>6, SomeOf
  <2>2. g[S] = c[e] + g[S \ {e}]
        BY <1>6, SumStep
  <2>3. QED BY <2>1, <2>2
<1> HIDE DEF e
<1>8. \A v \in S : Good(S \ {v})
  <2> SUFFICES ASSUME NEW v \in S PROVE Good(S \ {v})
      OBVIOUS
  <2>1. Cardinality(S \ {v}) < n /\ S \ {v} \in SUBSET D
        BY <1>1, <1>3, SmallerSet
  <2>2. QED BY <1>4, <2>1
<1>9. g[S] \in Nat
  <2>1. g[S \ {e}] \in Nat
        BY <1>5, <1>7, <1>8
  <2>2. QED BY <1>7, <2>1
<1>10. ASSUME NEW v \in S
       PROVE  g[S] = c[v] + g[S \ {v}]
  <2>1. CASE v = e
        BY <1>7, <2>1
  <2>2. CASE v # e
    <3> DEFINE T == S \ {e, v}
    <3>1. T = (S \ {e}) \ {v} /\ T = (S \ {v}) \ {e}
          OBVIOUS
    <3>2. g[S \ {e}] = c[v] + g[T]
          BY <1>5, <1>7, <1>8, <2>2, <3>1
    <3>3. g[S \ {v}] = c[e] + g[T]
          BY <1>5, <1>7, <1>8, <2>2, <3>1
    <3>4. g[T] \in Nat
      <4>1. Good(T)
        <5>1. Cardinality(S \ {e}) < n /\ S \ {e} \in SUBSET D /\ v \in S \ {e}
              BY <1>1, <1>3, <1>7, <2>2, SmallerSet
        <5>2. Cardinality(T) < Cardinality(S \ {e}) /\ T \in SUBSET D
              BY <1>1, <3>1, <5>1, SmallerSet
        <5>3. Cardinality(T) \in Nat /\ Cardinality(S \ {e}) \in Nat /\ n \in Nat
              BY <1>1, <1>3, <5>1, <5>2
        <5>4. Cardinality(T) < n
              BY <5>1, <5>2, <5>3
        <5>5. QED BY <1>4, <5>2, <5>4
      <4>2. QED BY <1>5, <4>1, <3>1
    <3>5. c[v] \in Nat /\ c[e] \in Nat
          BY <1>7
    <3> HIDE DEF T
    <3>6. QED BY <1>7, <3>2, <3>3, <3>4, <3>5
  <2>3. QED BY <2>1, <2>2
<1>11. Good(S)
       BY <1>9, <1>10 DEF Good
<1>12. QED BY <1>3, <1>11

(* Two counts that agree on a set have the same sum there. *)
LEMMA SumsAgree ==
    ASSUME NEW D, IsFiniteSet(D), NEW c, NEW g, Sums(c, D, g),
           NEW E, NEW d, NEW h, Sums(d, E, h)
    PROVE  \A S \in SUBSET D :
             S \subseteq E /\ (\A v \in S : c[v] = d[v]) => g[S] = h[S]
<1> DEFINE Alike(S) == S \subseteq E /\ (\A v \in S : c[v] = d[v])
           N == {n \in Nat : \E S \in SUBSET D : Cardinality(S) = n /\ Alike(S) /\ g[S] # h[S]}
<1>1. \A S \in SUBSET D : IsFiniteSet(S) /\ Cardinality(S) \in Nat
      BY FS_Subset, FS_CardinalityType
<1> SUFFICES ASSUME N # {} PROVE FALSE
  <2>1. ASSUME N = {}, NEW S \in SUBSET D, Alike(S)
        PROVE  g[S] = h[S]
        BY <1>1, <2>1
  <2>2. QED BY <2>1
<1>2. PICK n \in N : \A m \in Nat : m < n => m \notin N
  <2>1. N \subseteq Nat
        OBVIOUS
  <2> HIDE DEF N
  <2>2. QED BY <2>1, LeastNat
<1>3. PICK S \in SUBSET D : Cardinality(S) = n /\ Alike(S) /\ g[S] # h[S]
      OBVIOUS
<1>4. \A T \in SUBSET D : Cardinality(T) < n /\ Alike(T) => g[T] = h[T]
      BY <1>1, <1>2
<1>5. /\ g[S] = IF S = {} THEN 0 ELSE c[Some(S)] + g[S \ {Some(S)}]
      /\ h[S] = IF S = {} THEN 0 ELSE d[Some(S)] + h[S \ {Some(S)}]
      BY <1>3, SumStep
<1>6. S # {}
      BY <1>3, <1>5
<1> DEFINE e == Some(S)
           T == S \ {e}
<1>7. e \in S
      BY <1>6, SomeOf
<1>8. g[S] = c[e] + g[T] /\ h[S] = d[e] + h[T]
      BY <1>5, <1>6
<1> HIDE DEF e
<1>9. T \in SUBSET D /\ Cardinality(T) < n /\ Alike(T)
      BY <1>1, <1>3, <1>7, SmallerSet
<1>10. g[T] = h[T] /\ c[e] = d[e]
       BY <1>3, <1>4, <1>7, <1>9
<1> HIDE DEF T
<1>11. QED BY <1>3, <1>8, <1>10

Finite(B) == IsABag(B) /\ IsFiniteSet(DOMAIN B)

LEMMA EmptyIsNothing == Finite(EmptyBag) /\ BagCardinality(EmptyBag) = 0
<1>1. DOMAIN EmptyBag = {} /\ EmptyBag = [e \in {} |-> 1]
      BY DEF EmptyBag, SetToBag
<1>2. IsABag(EmptyBag)
      BY <1>1 DEF IsABag
<1>3. IsFiniteSet(DOMAIN EmptyBag)
      BY <1>1, FS_EmptySet
<1>4. PICK g : Sums(EmptyBag, DOMAIN EmptyBag, g) /\ BagCardinality(EmptyBag) = g[DOMAIN EmptyBag]
      BY <1>3, CardinalityIsSum
<1>5. g[DOMAIN EmptyBag] = 0
      BY <1>1, <1>4, SumStep
<1>6. QED BY <1>2, <1>3, <1>4, <1>5 DEF Finite

LEMMA BagIs ==
    ASSUME NEW B, Finite(B)
    PROVE  /\ B = [e \in DOMAIN B |-> B[e]]
           /\ \A e \in DOMAIN B : B[e] \in Nat /\ B[e] > 0
           /\ B \in [DOMAIN B -> Nat]
BY DEF Finite, IsABag

LEMMA SizeIsNat ==
    ASSUME NEW B, Finite(B)
    PROVE  BagCardinality(B) \in Nat
<1>1. PICK g : Sums(B, DOMAIN B, g) /\ BagCardinality(B) = g[DOMAIN B]
      BY CardinalityIsSum DEF Finite
<1>2. g[DOMAIN B] \in Nat
  <2>1. IsFiniteSet(DOMAIN B) /\ B \in [DOMAIN B -> Nat]
        BY BagIs DEF Finite
  <2>2. QED BY <1>1, <2>1, SumTakesAny
<1>3. QED BY <1>1, <1>2

LEMMA OneMore ==
    ASSUME NEW B, Finite(B), NEW v
    PROVE  /\ DOMAIN (B (+) One(v)) = DOMAIN B \cup {v}
           /\ (B (+) One(v))[v] = (IF v \in DOMAIN B THEN B[v] + 1 ELSE 1)
           /\ \A e \in DOMAIN B : e # v => (B (+) One(v))[e] = B[e]
           /\ Finite(B (+) One(v))
<1> DEFINE C == B (+) One(v)
<1>1. DOMAIN One(v) = {v} /\ One(v) = [e \in {v} |-> 1]
      BY DEF One, SetToBag
<1>2. /\ C = [e \in DOMAIN B \cup {v} |->
                (IF e \in DOMAIN B THEN B[e] ELSE 0) + (IF e = v THEN 1 ELSE 0)]
  <2>1. C = [e \in DOMAIN B \cup {v} |->
                (IF e \in DOMAIN B THEN B[e] ELSE 0) + (IF e \in {v} THEN One(v)[e] ELSE 0)]
        BY <1>1 DEF (+)
  <2>2. \A e : (IF e \in {v} THEN One(v)[e] ELSE 0) = (IF e = v THEN 1 ELSE 0)
        BY <1>1
  <2>3. QED BY <2>1, <2>2
<1> HIDE DEF C
<1>3. DOMAIN C = DOMAIN B \cup {v}
      BY <1>2
<1>4. \A e \in DOMAIN B : B[e] \in Nat /\ B[e] > 0
      BY BagIs
<1>5. C[v] = (IF v \in DOMAIN B THEN B[v] + 1 ELSE 1)
      BY <1>2, <1>4
<1>6. \A e \in DOMAIN B : e # v => C[e] = B[e]
      BY <1>2, <1>4
<1>7. \A e \in DOMAIN C : C[e] \in Nat /\ C[e] > 0
      BY <1>3, <1>4, <1>5, <1>6
<1>8. C = [e \in DOMAIN C |-> C[e]]
      BY <1>2, <1>3
<1>9. IsABag(C)
      BY <1>7, <1>8 DEF IsABag
<1>10. IsFiniteSet(DOMAIN C)
      BY <1>3, FS_AddElement DEF Finite
<1>11. QED BY <1>3, <1>5, <1>6, <1>9, <1>10 DEF Finite, C

LEMMA OneMoreCounts ==
    ASSUME NEW B, Finite(B), NEW v
    PROVE  BagCardinality(B (+) One(v)) = BagCardinality(B) + 1
<1> DEFINE C == B (+) One(v)
           D == DOMAIN B
<1>1. /\ DOMAIN C = D \cup {v} /\ Finite(C)
      /\ C[v] = (IF v \in D THEN B[v] + 1 ELSE 1)
      /\ \A e \in D : e # v => C[e] = B[e]
      BY OneMore
<1> HIDE DEF C
<1>2. /\ IsFiniteSet(D) /\ B \in [D -> Nat]
      /\ IsFiniteSet(DOMAIN C) /\ C \in [DOMAIN C -> Nat]
      BY <1>1, BagIs DEF Finite
<1>3. PICK g : Sums(B, D, g) /\ BagCardinality(B) = g[D]
      BY <1>2, CardinalityIsSum
<1>4. PICK h : Sums(C, DOMAIN C, h) /\ BagCardinality(C) = h[DOMAIN C]
      BY <1>2, CardinalityIsSum
<1>5. h[DOMAIN C] = C[v] + h[DOMAIN C \ {v}]
  <2>1. \A S \in SUBSET DOMAIN C : \A x \in S : h[S] = C[x] + h[S \ {x}]
    <3> DEFINE E == DOMAIN C
    <3>1. IsFiniteSet(E) /\ C \in [E -> Nat] /\ Sums(C, E, h)
          BY <1>2, <1>4
    <3> HIDE DEF E
    <3>2. \A S \in SUBSET E : h[S] \in Nat /\ \A x \in S : h[S] = C[x] + h[S \ {x}]
          BY <3>1, SumTakesAny
    <3>3. QED BY <3>2 DEF E
  <2>2. v \in DOMAIN C
        BY <1>1
  <2>3. QED BY <2>1, <2>2
<1>6. \A S \in SUBSET D : v \notin S => h[S] = g[S]
  <2> SUFFICES ASSUME NEW S \in SUBSET D, v \notin S PROVE h[S] = g[S]
      OBVIOUS
  <2>1. S \in SUBSET D /\ S \subseteq DOMAIN C /\ \A e \in S : B[e] = C[e]
        BY <1>1
  <2>2. QED BY <1>2, <1>3, <1>4, <2>1, SumsAgree
<1>7. \A S \in SUBSET D : g[S] \in Nat
      BY <1>2, <1>3, SumTakesAny
<1>8. CASE v \in D
  <2>1. DOMAIN C \ {v} = D \ {v} /\ DOMAIN C = D
        BY <1>1, <1>8
  <2>2. h[D \ {v}] = g[D \ {v}]
        BY <1>6
  <2>3. g[D] = B[v] + g[D \ {v}]
    <3>1. \A S \in SUBSET D : \A x \in S : g[S] = B[x] + g[S \ {x}]
      <4>1. IsFiniteSet(D) /\ B \in [D -> Nat] /\ Sums(B, D, g)
            BY <1>2, <1>3
      <4> HIDE DEF D
      <4>2. \A S \in SUBSET D : g[S] \in Nat /\ \A x \in S : g[S] = B[x] + g[S \ {x}]
            BY <4>1, SumTakesAny
      <4>3. QED BY <4>2
    <3>2. QED BY <1>8, <3>1
  <2>4. B[v] \in Nat /\ g[D \ {v}] \in Nat /\ C[v] = B[v] + 1
        BY <1>1, <1>2, <1>7, <1>8
  <2>5. h[DOMAIN C] = g[D] + 1
        BY <1>5, <2>1, <2>2, <2>3, <2>4
  <2>6. QED BY <1>3, <1>4, <2>5 DEF C
<1>9. CASE v \notin D
  <2>1. DOMAIN C \ {v} = D
        BY <1>1, <1>9
  <2>2. h[D] = g[D] /\ g[D] \in Nat /\ C[v] = 1
        BY <1>1, <1>6, <1>7, <1>9
  <2>3. h[DOMAIN C] = g[D] + 1
        BY <1>5, <2>1, <2>2
  <2>4. QED BY <1>3, <1>4, <2>3 DEF C
<1>10. QED BY <1>8, <1>9

LEMMA OneLess ==
    ASSUME NEW B, Finite(B), NEW v \in DOMAIN B
    PROVE  /\ Finite(B (-) One(v)) /\ DOMAIN (B (-) One(v)) \subseteq DOMAIN B
           /\ (B (-) One(v)) (+) One(v) = B
           /\ BagCardinality(B (-) One(v)) = BagCardinality(B) - 1
<1> DEFINE C == B (-) One(v)
           D == DOMAIN B
           b(e) == IF e = v THEN B[e] - 1 ELSE B[e]
<1>1. DOMAIN One(v) = {v} /\ One(v) = [e \in {v} |-> 1]
      BY DEF One, SetToBag
<1>2. \A e \in D : B[e] \in Nat /\ B[e] > 0
      BY BagIs
<1>3. C = [e \in {d \in D : b(d) > 0} |-> b(e)]
  <2> DEFINE A == [e \in D |-> IF e \in {v} THEN B[e] - One(v)[e] ELSE B[e]]
  <2>1. C = [e \in {d \in DOMAIN A : A[d] > 0} |-> A[e]]
        BY <1>1 DEF (-)
  <2>2. A = [e \in D |-> b(e)]
        BY <1>1
  <2> HIDE DEF A, b
  <2>3. DOMAIN A = D /\ \A e \in D : A[e] = b(e)
        BY <2>2
  <2>4. {d \in DOMAIN A : A[d] > 0} = {d \in D : b(d) > 0}
        BY <2>3
  <2>5. QED BY <2>1, <2>3, <2>4
<1> HIDE DEF C
<1>4. /\ DOMAIN C = {d \in D : b(d) > 0} /\ \A e \in DOMAIN C : C[e] = b(e)
      /\ C = [e \in DOMAIN C |-> C[e]]
      BY <1>3
<1>5. \A e \in DOMAIN C : C[e] \in Nat /\ C[e] > 0
      BY <1>2, <1>4
<1>6. Finite(C)
  <2>1. IsABag(C)
        BY <1>4, <1>5 DEF IsABag
  <2>2. IsFiniteSet(DOMAIN C)
        BY <1>4, FS_Subset DEF Finite
  <2>3. QED BY <2>1, <2>2 DEF Finite
<1>7. C (+) One(v) = B
  <2> DEFINE A == C (+) One(v)
  <2>1. /\ DOMAIN A = DOMAIN C \cup {v} /\ A[v] = (IF v \in DOMAIN C THEN C[v] + 1 ELSE 1)
        /\ \A e \in DOMAIN C : e # v => A[e] = C[e]
        /\ Finite(A)
        BY <1>6, OneMore
  <2> HIDE DEF A
  <2>2. DOMAIN A = D
        BY <1>2, <1>4, <2>1
  <2>3. \A e \in D : A[e] = B[e]
    <3> SUFFICES ASSUME NEW e \in D PROVE A[e] = B[e]
        OBVIOUS
    <3>1. CASE e = v
          BY <1>2, <1>4, <2>1, <3>1
    <3>2. CASE e # v
          BY <1>2, <1>4, <2>1, <3>2
    <3>3. QED BY <3>1, <3>2
  <2>4. B = [e \in D |-> B[e]] /\ A = [e \in DOMAIN A |-> A[e]]
        BY <2>1, BagIs
  <2>5. A = B
        BY <2>2, <2>3, <2>4
  <2>6. QED BY <2>5 DEF A
<1>8. BagCardinality(B) = BagCardinality(C) + 1 /\ BagCardinality(C) \in Nat
      BY <1>6, <1>7, OneMoreCounts, SizeIsNat
<1>9. DOMAIN C \subseteq D
      BY <1>4
<1>10. QED BY <1>6, <1>7, <1>8, <1>9 DEF C

Count(e, B) == IF e \in DOMAIN B THEN B[e] ELSE 0

LEMMA SameBag ==
    ASSUME NEW A, Finite(A), NEW C, Finite(C), \A e : Count(e, A) = Count(e, C)
    PROVE  A = C
<1>1. /\ \A e \in DOMAIN A : A[e] \in Nat /\ A[e] > 0
      /\ \A e \in DOMAIN C : C[e] \in Nat /\ C[e] > 0
      /\ A = [e \in DOMAIN A |-> A[e]] /\ C = [e \in DOMAIN C |-> C[e]]
      BY BagIs
<1>2. \A e : e \in DOMAIN A <=> e \in DOMAIN C
  <2> SUFFICES ASSUME NEW e PROVE e \in DOMAIN A <=> e \in DOMAIN C
      OBVIOUS
  <2>1. Count(e, A) = Count(e, C)
        OBVIOUS
  <2>2. QED BY <1>1, <2>1 DEF Count
<1>3. DOMAIN A = DOMAIN C
      BY <1>2
<1>4. \A e \in DOMAIN A : A[e] = C[e]
  <2> SUFFICES ASSUME NEW e \in DOMAIN A PROVE A[e] = C[e]
      OBVIOUS
  <2>1. Count(e, A) = Count(e, C)
        OBVIOUS
  <2>2. QED BY <1>3, <2>1 DEF Count
<1>5. QED BY <1>1, <1>3, <1>4

LEMMA UnionCounts ==
    ASSUME NEW A, Finite(A), NEW C, Finite(C)
    PROVE  /\ Finite(A (+) C)
           /\ \A e : Count(e, A (+) C) = Count(e, A) + Count(e, C)
<1> DEFINE U == A (+) C
           D == DOMAIN A \cup DOMAIN C
<1>1. /\ \A e \in DOMAIN A : A[e] \in Nat /\ A[e] > 0
      /\ \A e \in DOMAIN C : C[e] \in Nat /\ C[e] > 0
      BY BagIs
<1>2. U = [e \in D |-> Count(e, A) + Count(e, C)]
      BY DEF (+), Count
<1> HIDE DEF U
<1>3. DOMAIN U = D /\ \A e \in D : U[e] = Count(e, A) + Count(e, C)
      BY <1>2
<1>4. \A e : Count(e, A) \in Nat /\ Count(e, C) \in Nat
      BY <1>1 DEF Count
<1>5. \A e \in D : U[e] \in Nat /\ U[e] > 0
  <2> SUFFICES ASSUME NEW e \in D PROVE U[e] \in Nat /\ U[e] > 0
      OBVIOUS
  <2>1. Count(e, A) > 0 \/ Count(e, C) > 0
        BY <1>1 DEF Count
  <2>2. QED BY <1>3, <1>4, <2>1
<1>6. U = [e \in DOMAIN U |-> U[e]]
      BY <1>2, <1>3
<1>7. IsABag(U)
      BY <1>3, <1>5, <1>6 DEF IsABag
<1>8. IsFiniteSet(DOMAIN U)
      BY <1>3, FS_Union DEF Finite
<1>9. \A e : Count(e, U) = Count(e, A) + Count(e, C)
  <2> SUFFICES ASSUME NEW e PROVE Count(e, U) = Count(e, A) + Count(e, C)
      OBVIOUS
  <2>1. CASE e \in D
        BY <1>3, <2>1 DEF Count
  <2>2. CASE e \notin D
        BY <1>3, <2>2 DEF Count
  <2>3. QED BY <2>1, <2>2
<1>10. QED BY <1>7, <1>8, <1>9 DEF Finite, U

LEMMA OneCounts ==
    ASSUME NEW v
    PROVE  Finite(One(v)) /\ \A e : Count(e, One(v)) = IF e = v THEN 1 ELSE 0
<1>1. DOMAIN One(v) = {v} /\ One(v) = [e \in {v} |-> 1] /\ \A e \in {v} : One(v)[e] = 1
      BY DEF One, SetToBag
<1>2. IsABag(One(v))
      BY <1>1 DEF IsABag
<1>3. IsFiniteSet(DOMAIN One(v))
      BY <1>1, FS_Singleton
<1>4. \A e : Count(e, One(v)) = IF e = v THEN 1 ELSE 0
      BY <1>1 DEF Count
<1>5. QED BY <1>2, <1>3, <1>4 DEF Finite

LEMMA CountIsNat ==
    ASSUME NEW B, Finite(B)
    PROVE  \A e : Count(e, B) \in Nat
BY BagIs DEF Count

LEMMA UnionOfOneMore ==
    ASSUME NEW A, Finite(A), NEW C, Finite(C), NEW v
    PROVE  A (+) (C (+) One(v)) = (A (+) C) (+) One(v)
<1> DEFINE O == One(v)
<1>1. Finite(O)
      BY OneCounts
<1> HIDE DEF O
<1>2. /\ Finite(C (+) O) /\ Finite(A (+) C)
      /\ \A e : Count(e, C (+) O) = Count(e, C) + Count(e, O)
      /\ \A e : Count(e, A (+) C) = Count(e, A) + Count(e, C)
      BY <1>1, UnionCounts
<1>3. /\ Finite(A (+) (C (+) O)) /\ Finite((A (+) C) (+) O)
      /\ \A e : Count(e, A (+) (C (+) O)) = Count(e, A) + Count(e, C (+) O)
      /\ \A e : Count(e, (A (+) C) (+) O) = Count(e, A (+) C) + Count(e, O)
      BY <1>1, <1>2, UnionCounts
<1>4. \A e : Count(e, A (+) (C (+) O)) = Count(e, (A (+) C) (+) O)
  <2> SUFFICES ASSUME NEW e PROVE Count(e, A (+) (C (+) O)) = Count(e, (A (+) C) (+) O)
      OBVIOUS
  <2>1. Count(e, A) \in Nat /\ Count(e, C) \in Nat /\ Count(e, O) \in Nat
        BY <1>1, CountIsNat
  <2>2. QED BY <1>2, <1>3, <2>1
<1>5. A (+) (C (+) O) = (A (+) C) (+) O
      BY <1>3, <1>4, SameBag
<1>6. QED BY <1>5 DEF O

LEMMA UnionOfNothing ==
    ASSUME NEW A, Finite(A)
    PROVE  A (+) EmptyBag = A
<1>1. Finite(EmptyBag)
      BY EmptyIsNothing
<1>2. \A e : Count(e, EmptyBag) = 0
      BY DEF Count, EmptyBag, SetToBag
<1>3. /\ Finite(A (+) EmptyBag)
      /\ \A e : Count(e, A (+) EmptyBag) = Count(e, A) + Count(e, EmptyBag)
      BY <1>1, UnionCounts
<1>4. \A e : Count(e, A) \in Nat
      BY CountIsNat
<1>5. \A e : Count(e, A (+) EmptyBag) = Count(e, A)
      BY <1>2, <1>3, <1>4
<1>6. QED BY <1>3, <1>5, SameBag

LEMMA SizeOfUnion ==
    ASSUME NEW A, Finite(A), NEW C, Finite(C)
    PROVE  BagCardinality(A (+) C) = BagCardinality(A) + BagCardinality(C)
<1> DEFINE Bad(n) == \E B : /\ Finite(B) /\ BagCardinality(B) = n
                            /\ BagCardinality(A (+) B) # BagCardinality(A) + n
           N == {n \in Nat : Bad(n)}
<1>1. BagCardinality(C) \in Nat /\ BagCardinality(A) \in Nat
      BY SizeIsNat
<1> SUFFICES ASSUME N # {} PROVE FALSE
      BY <1>1
<1>2. PICK n \in N : \A m \in Nat : m < n => m \notin N
  <2>1. N \subseteq Nat
        OBVIOUS
  <2> HIDE DEF N
  <2>2. QED BY <2>1, LeastNat
<1>3. PICK B : /\ Finite(B) /\ BagCardinality(B) = n
               /\ BagCardinality(A (+) B) # BagCardinality(A) + n
      BY <1>2
<1>4. n \in Nat /\ \A m \in Nat : m < n => ~Bad(m)
      BY <1>2
<1> HIDE DEF N
<1>5. CASE DOMAIN B = {}
  <2>1. B = EmptyBag
    <3>1. B = [e \in DOMAIN B |-> B[e]]
          BY <1>3, BagIs
    <3>2. QED BY <1>5, <3>1 DEF EmptyBag, SetToBag
  <2>2. QED BY <1>1, <1>3, <2>1, EmptyIsNothing, UnionOfNothing
<1>6. CASE DOMAIN B # {}
  <2>1. PICK v : v \in DOMAIN B
        BY <1>6
  <2> DEFINE B1 == B (-) One(v)
  <2>2. Finite(B1) /\ B1 (+) One(v) = B /\ BagCardinality(B1) = n - 1
        BY <1>3, <2>1, OneLess
  <2> HIDE DEF B1
  <2>3. n - 1 \in Nat /\ n - 1 < n
        BY <1>4, <2>2, SizeIsNat
  <2>4. BagCardinality(A (+) B1) = BagCardinality(A) + (n - 1)
    <3>1. ~Bad(n - 1)
          BY <1>4, <2>3
    <3>2. QED BY <2>2, <3>1
  <2>5. A (+) B = (A (+) B1) (+) One(v) /\ Finite(A (+) B1)
        BY <2>2, UnionOfOneMore, UnionCounts
  <2>6. BagCardinality(A (+) B) = BagCardinality(A (+) B1) + 1
        BY <2>5, OneMoreCounts
  <2>7. QED BY <1>1, <1>3, <1>4, <2>3, <2>4, <2>6
<1>7. QED BY <1>5, <1>6

(* What is left of a bag when a part of it is taken out. *)
LEMMA SizeOfRest ==
    ASSUME NEW B, Finite(B), NEW C, IsABag(C), C \sqsubseteq B
    PROVE  /\ Finite(C) /\ Finite(B (-) C)
           /\ BagCardinality(B (-) C) = BagCardinality(B) - BagCardinality(C)
           /\ BagCardinality(C) \in Nat
<1> DEFINE R == B (-) C
           r(e) == IF e \in DOMAIN C THEN B[e] - C[e] ELSE B[e]
           D == DOMAIN B
<1>1. Finite(C) /\ DOMAIN C \subseteq D /\ \A e \in DOMAIN C : C[e] <= B[e]
      BY FS_Subset DEF Finite, \sqsubseteq
<1>2. /\ \A e \in D : B[e] \in Nat /\ B[e] > 0
      /\ \A e \in DOMAIN C : C[e] \in Nat /\ C[e] > 0
      BY <1>1, BagIs
<1>3. R = [e \in {d \in D : r(d) > 0} |-> r(e)]
  <2> DEFINE A == [e \in D |-> r(e)]
  <2>1. R = [e \in {d \in DOMAIN A : A[d] > 0} |-> A[e]]
        BY DEF (-)
  <2> HIDE DEF r
  <2>2. DOMAIN A = D /\ \A e \in D : A[e] = r(e)
        OBVIOUS
  <2> HIDE DEF A
  <2>3. {d \in DOMAIN A : A[d] > 0} = {d \in D : r(d) > 0}
        BY <2>2
  <2>4. QED BY <2>1, <2>2, <2>3
<1> HIDE DEF R
<1>4. /\ DOMAIN R = {d \in D : r(d) > 0} /\ \A e \in DOMAIN R : R[e] = r(e)
      /\ R = [e \in DOMAIN R |-> R[e]]
      BY <1>3
<1>5. \A e \in D : r(e) \in Nat
      BY <1>1, <1>2
<1>6. Finite(R)
  <2>1. \A e \in DOMAIN R : R[e] \in Nat /\ R[e] > 0
        BY <1>4, <1>5
  <2>2. IsABag(R)
        BY <1>4, <2>1 DEF IsABag
  <2>3. IsFiniteSet(DOMAIN R)
        BY <1>4, FS_Subset DEF Finite
  <2>4. QED BY <2>2, <2>3 DEF Finite
<1>7. \A e : Count(e, R) + Count(e, C) = Count(e, B)
  <2> SUFFICES ASSUME NEW e PROVE Count(e, R) + Count(e, C) = Count(e, B)
      OBVIOUS
  <2>1. CASE e \notin D
    <3>1. e \notin DOMAIN R /\ e \notin DOMAIN C
          BY <1>1, <1>4, <2>1
    <3>2. QED BY <2>1, <3>1 DEF Count
  <2>2. CASE e \in D /\ e \in DOMAIN C
    <3>1. r(e) = B[e] - C[e] /\ r(e) \in Nat /\ B[e] \in Nat /\ C[e] \in Nat
          BY <1>2, <1>5, <2>2
    <3>2. Count(e, R) = r(e)
      <4> HIDE DEF r
      <4>1. QED BY <1>4, <2>2, <3>1 DEF Count
    <3>3. Count(e, C) = C[e] /\ Count(e, B) = B[e]
          BY <2>2 DEF Count
    <3>4. QED BY <3>1, <3>2, <3>3
  <2>3. CASE e \in D /\ e \notin DOMAIN C
    <3>1. r(e) = B[e] /\ r(e) > 0 /\ B[e] \in Nat
          BY <1>2, <2>3
    <3>2. Count(e, R) = B[e]
      <4> HIDE DEF r
      <4>1. QED BY <1>4, <2>3, <3>1 DEF Count
    <3>3. Count(e, C) = 0 /\ Count(e, B) = B[e]
          BY <2>3 DEF Count
    <3>4. QED BY <3>1, <3>2, <3>3
  <2>4. QED BY <2>1, <2>2, <2>3
<1>8. R (+) C = B
  <2>1. Finite(R (+) C) /\ \A e : Count(e, R (+) C) = Count(e, R) + Count(e, C)
        BY <1>1, <1>6, UnionCounts
  <2>2. \A e : Count(e, R (+) C) = Count(e, B)
        BY <1>7, <2>1
  <2>3. QED BY <2>1, <2>2, SameBag
<1>9. BagCardinality(B) = BagCardinality(R) + BagCardinality(C)
      BY <1>1, <1>6, <1>8, SizeOfUnion
<1>10. BagCardinality(R) \in Nat /\ BagCardinality(C) \in Nat
       BY <1>1, <1>6, SizeIsNat
<1>11. BagCardinality(R) = BagCardinality(B) - BagCardinality(C)
       BY <1>9, <1>10
<1>12. QED BY <1>1, <1>6, <1>10, <1>11 DEF R

-----------------------------------------------------------------------------
(* The delay line: what a failing delivery leaves behind is empty.           *)

LineOK(line) ==
    /\ line = [heap |-> line.heap, open |-> line.open, failed |-> line.failed]
    /\ Finite(line.heap) /\ line.open \in BOOLEAN /\ line.failed \in BOOLEAN
    /\ line.failed => line.heap = EmptyBag

LEMMA NewLineOK == LineOK(NewLine) /\ NewLine.heap = EmptyBag /\ NewLine.open = TRUE
BY EmptyIsNothing DEF LineOK, NewLine

LEMMA LineSends ==
    ASSUME NEW l, LineOK(l), ~Raises(l), NEW v
    PROVE  /\ LineOK(SendLater(l, v)) /\ SendLater(l, v).heap = l.heap (+) One(v)
           /\ BagCardinality(SendLater(l, v).heap) = BagCardinality(l.heap) + 1
           /\ SendLater(l, v).open = l.open
<1> DEFINE h == l.heap (+) One(v)
<1>1. Finite(h) /\ BagCardinality(h) = BagCardinality(l.heap) + 1
      BY OneMore, OneMoreCounts DEF LineOK
<1>2. SendLater(l, v) = [heap |-> h, open |-> l.open, failed |-> l.failed]
      BY DEF LineOK, SendLater
<1>3. l.failed = FALSE
      BY DEF LineOK, Raises
<1> HIDE DEF h
<1>4. /\ SendLater(l, v).heap = h /\ SendLater(l, v).open = l.open
      /\ SendLater(l, v).failed = l.failed
      BY <1>2
<1>5. LineOK(SendLater(l, v))
      BY <1>1, <1>2, <1>3, <1>4 DEF LineOK
<1>6. QED BY <1>1, <1>4, <1>5 DEF h

LEMMA LineTakes ==
    ASSUME NEW l, LineOK(l), NEW v \in DOMAIN l.heap
    PROVE  /\ LineOK(Taken(l, v)) /\ DOMAIN Taken(l, v).heap \subseteq DOMAIN l.heap
           /\ BagCardinality(Taken(l, v).heap) = BagCardinality(l.heap) - 1
           /\ Taken(l, v).open = l.open
<1> DEFINE h == l.heap (-) One(v)
<1>1. /\ Finite(h) /\ BagCardinality(h) = BagCardinality(l.heap) - 1
      /\ DOMAIN h \subseteq DOMAIN l.heap
      BY OneLess DEF LineOK
<1>2. Taken(l, v) = [heap |-> h, open |-> l.open, failed |-> l.failed]
      BY DEF LineOK, Taken
<1>3. l.failed = FALSE
  <2>1. DOMAIN EmptyBag = {}
        BY DEF EmptyBag, SetToBag
  <2>2. QED BY <2>1 DEF LineOK
<1> HIDE DEF h
<1>4. /\ Taken(l, v).heap = h /\ Taken(l, v).open = l.open
      /\ Taken(l, v).failed = l.failed
      BY <1>2
<1>5. LineOK(Taken(l, v))
      BY <1>1, <1>2, <1>3, <1>4 DEF LineOK
<1>6. QED BY <1>1, <1>4, <1>5

LEMMA LineEnds ==
    ASSUME NEW l, LineOK(l)
    PROVE  /\ LineOK(Failed(l)) /\ Failed(l).heap = EmptyBag /\ Failed(l).open = FALSE
           /\ LineOK(Closed(l)) /\ Closed(l).heap = EmptyBag /\ Closed(l).open = FALSE
<1>1. LineOK(Failed(l)) /\ Failed(l).heap = EmptyBag /\ Failed(l).open = FALSE
      BY EmptyIsNothing DEF LineOK, Failed
<1>2. Closed(l) = [heap |-> EmptyBag, open |-> FALSE, failed |-> l.failed]
  <2> DEFINE h == l.heap
             o == l.open
             f == l.failed
  <2>1. l = [heap |-> h, open |-> o, failed |-> f]
        BY DEF LineOK
  <2> HIDE DEF h, o, f
  <2>2. [l EXCEPT !.heap = EmptyBag] = [heap |-> EmptyBag, open |-> o, failed |-> f]
        BY <2>1
  <2>3. Closed(l) = [[l EXCEPT !.heap = EmptyBag] EXCEPT !.open = FALSE]
        BY <2>1 DEF Closed
  <2>4. Closed(l) = [heap |-> EmptyBag, open |-> FALSE, failed |-> f]
        BY <2>2, <2>3
  <2>5. QED BY <2>4 DEF f
<1>3. Closed(l).heap = EmptyBag /\ Closed(l).open = FALSE /\ Closed(l).failed = l.failed
      BY <1>2
<1>4. LineOK(Closed(l))
      BY <1>2, <1>3, EmptyIsNothing DEF LineOK
<1>5. QED BY <1>1, <1>3, <1>4

-----------------------------------------------------------------------------
(* The sender. *)

(* What a drained line leaves is nothing, so closing it loses nothing.       *)
SenderInv ==
    /\ LineOK(sline) /\ Finite(wire)
    /\ sent \in Nat /\ dropped \in Nat /\ spilt \in Nat /\ seq \in 0..(MaxSeq + 1)
    /\ EveryFrameAccounted

LEMMA SenderInvInit == SInit => SenderInv
<1> SUFFICES ASSUME SInit PROVE SenderInv
    OBVIOUS
<1>1. LineOK(sline) /\ sline.heap = EmptyBag
      BY NewLineOK DEF SInit
<1>2. Finite(wire) /\ BagCardinality(EmptyBag) = 0
      BY EmptyIsNothing DEF SInit
<1>3. EveryFrameAccounted
      BY <1>1, <1>2 DEF SInit, EveryFrameAccounted
<1>4. QED BY <1>1, <1>2, <1>3, SenderAssumption DEF SInit, SenderInv

LEMMA SenderInvStep ==
    ASSUME SenderInv, SNext
    PROVE  SenderInv'
<1> USE DEF SenderInv, EveryFrameAccounted, counters
<1>1. /\ BagCardinality(sline.heap) \in Nat /\ BagCardinality(EmptyBag) = 0
      /\ MaxSeq \in Nat /\ seq \in Nat
      BY SizeIsNat, EmptyIsNothing, SenderAssumption DEF LineOK
<1>2. CASE DropFrame
      BY <1>1, <1>2 DEF DropFrame, Frame
<1>3. CASE SendFrame
  <2>1. /\ ~Raises(sline) /\ seq' = seq + 1 /\ seq <= MaxSeq
        /\ \/ wire' = wire (+) One(seq) /\ sent' = sent + 1 /\ sline' = sline
           \/ sline' = SendLater(sline, seq) /\ UNCHANGED <<wire, sent>>
        /\ UNCHANGED <<sender, dropped, spilt>> /\ sender = "looping"
        BY <1>3 DEF SendFrame, Frame, Deliver, Carry
  <2>2. CASE wire' = wire (+) One(seq) /\ sent' = sent + 1 /\ sline' = sline
    <3>1. Finite(wire')
          BY <2>2, OneMore
    <3>2. QED BY <1>1, <2>1, <2>2, <3>1
  <2>3. CASE sline' = SendLater(sline, seq) /\ UNCHANGED <<wire, sent>>
    <3>1. LineOK(sline') /\ BagCardinality(sline'.heap) = BagCardinality(sline.heap) + 1
          BY <2>1, <2>3, LineSends
    <3>2. QED BY <1>1, <2>1, <2>3, <3>1
  <2>4. QED BY <2>1, <2>2, <2>3
<1>4. CASE SendFails
      BY <1>4 DEF SendFails, Frame
<1>5. CASE LoopEnds
      BY <1>5 DEF LoopEnds
<1>6. CASE CloseLine
  <2>1. sline.heap = EmptyBag
        BY <1>6 DEF CloseLine, Drained, LineOK
  <2>2. LineOK(sline') /\ sline'.heap = EmptyBag
        BY <1>6, LineEnds DEF CloseLine
  <2>3. UNCHANGED <<seq, sent, dropped, wire, spilt>>
        BY <1>6 DEF CloseLine
  <2>4. QED BY <1>1, <2>1, <2>2, <2>3
<1>7. ASSUME NEW v \in BagToSet(sline.heap), LineDelivers(v)
      PROVE  SenderInv'
  <2>1. /\ sline' = Taken(sline, v) /\ wire' = wire (+) One(v) /\ sent' = sent + 1
        /\ UNCHANGED <<sender, seq, dropped, spilt>>
        BY <1>7 DEF LineDelivers, Deliver, Carry
  <2>2. v \in DOMAIN sline.heap
        BY DEF BagToSet
  <2>3. LineOK(sline') /\ BagCardinality(sline'.heap) = BagCardinality(sline.heap) - 1
        BY <2>1, <2>2, LineTakes
  <2>4. Finite(wire')
        BY <2>1, OneMore
  <2>5. sender # "ended"
    <3>1. DOMAIN EmptyBag = {}
          BY DEF EmptyBag, SetToBag
    <3>2. QED BY <2>2, <3>1
  <2>6. QED BY <1>1, <2>1, <2>3, <2>4, <2>5
<1>8. CASE LineFails
  <2>1. LineOK(sline') /\ sline'.heap = EmptyBag
        BY <1>8, LineEnds DEF LineFails
  <2>2. /\ spilt' = spilt + BagCardinality(sline.heap)
        /\ UNCHANGED <<sender, seq, sent, dropped, wire>>
        BY <1>8 DEF LineFails
  <2>3. QED BY <1>1, <2>1, <2>2
<1>9. CASE StopAsked
      BY <1>9 DEF StopAsked
<1>10. QED BY <1>2, <1>3, <1>4, <1>5, <1>6, <1>7, <1>8, <1>9 DEF SNext, SenderThread, LineThread

LEMMA SenderInvKept ==
    ASSUME SenderInv, UNCHANGED <<sline, sender, seq, sent, dropped, spilt>>, Finite(wire')
    PROVE  SenderInv'
BY DEF SenderInv, EveryFrameAccounted

(* What the proxy does to the sender's side is to take a datagram off it.    *)
LEMMA ProxyTakes ==
    ASSUME Finite(wire), PNext
    PROVE  Finite(wire')
<1>1. ASSUME NEW d, TakeOff(d)
      PROVE  Finite(wire')
      BY <1>1, OneLess DEF TakeOff, BagIn, BagToSet
<1>2. (\E d \in Datagrams : TakeOff(d)) \/ wire' = wire
      BY DEF PNext, LaneThread, DropAtProxy, HoldBack, Forward, Arrival, FlushHeld,
             LaneLeaves, LaneFails, ProxyLineDelivers, Halt, CloseProxy
<1>3. QED BY <1>1, <1>2

(* Every frame the encoder made is sent, dropped on purpose, lost with a     *)
(* failing socket or still waiting, whatever the knobs, the stream and the   *)
(* proxy do; a sender that has ended leaves nothing waiting                  *)
(* (demo.py:424-428).                                                        *)
THEOREM FramesAccounted == ESpec => []EveryFrameAccounted
<1>1. EInit => SenderInv
      BY SenderInvInit DEF EInit, Init
<1>2. SenderInv /\ [ENext]_<<experiment, vars, hvars>> => SenderInv'
  <2> SUFFICES ASSUME SenderInv, [ENext]_<<experiment, vars, hvars>> PROVE SenderInv'
      OBVIOUS
  <2>1. CASE SNext
        BY <2>1, SenderInvStep
  <2>2. CASE PNext /\ UNCHANGED <<source, sender, seq, loss, sline, counters, stop, spilt>>
    <3>1. Finite(wire')
          BY <2>2, ProxyTakes DEF SenderInv
    <3>2. QED BY <2>2, <3>1, SenderInvKept DEF counters
  <2>3. CASE UNCHANGED vars
    <3>1. UNCHANGED <<sline, sender, seq, sent, dropped, spilt, wire>>
          BY <2>3 DEF vars, svars, counters
    <3>2. Finite(wire')
          BY <3>1 DEF SenderInv
    <3>3. QED BY <3>1, <3>2, SenderInvKept
  <2>4. QED BY <2>1, <2>2, <2>3 DEF ENext, Next
<1>3. SenderInv => EveryFrameAccounted
      BY DEF SenderInv
<1>4. QED BY <1>1, <1>2, <1>3, PTL DEF ESpec

-----------------------------------------------------------------------------
(* The proxy. *)

(* The line of a lane that runs is open, so what the lane emits is in it.    *)
ProxyInv ==
    /\ LineOK(pline) /\ pline.failed = FALSE
    /\ Finite(held) /\ Finite(far)
    /\ inflight \in Nat /\ index \in 0..MaxRead
    /\ lane \in {"running", "gone"} /\ halted \in BOOLEAN
    /\ lane = "running" => pline.open
    /\ InflightIsWhatWaits

LEMMA ProxyInvInit == PInit => ProxyInv
<1> SUFFICES ASSUME PInit PROVE ProxyInv
    OBVIOUS
<1>1. LineOK(pline) /\ pline.heap = EmptyBag /\ pline.open = TRUE /\ pline.failed = FALSE
      BY NewLineOK DEF PInit, NewLine
<1>2. Finite(EmptyBag) /\ BagCardinality(EmptyBag) = 0
      BY EmptyIsNothing
<1>3. InflightIsWhatWaits
      BY <1>1, <1>2, ProxyAssumption DEF PInit, InflightIsWhatWaits
<1>4. inflight \in Nat /\ index \in 0..MaxRead /\ halted \in BOOLEAN
  <2>1. inflight = 0 /\ index = 0 /\ halted = FALSE
        BY Zenon DEF PInit
  <2>2. halted \in BOOLEAN
        BY Zenon, <2>1
  <2>3. QED BY <2>1, <2>2, ProxyAssumption
<1>5. Finite(held) /\ Finite(far) /\ lane \in {"running", "gone"}
      BY <1>2 DEF PInit
<1>6. QED BY Zenon, <1>1, <1>3, <1>4, <1>5 DEF ProxyInv

LEMMA CopiesCount ==
    ASSUME NEW d, NEW n \in {1, 2}
    PROVE  Finite(Copies(d, n)) /\ BagCardinality(Copies(d, n)) = n
<1>1. Finite(One(d)) /\ BagCardinality(One(d)) = 1
  <2> DEFINE E == EmptyBag
  <2>0. Finite(E) /\ BagCardinality(E) = 0
        BY EmptyIsNothing
  <2> HIDE DEF E
  <2>4. Finite(E (+) One(d))
        BY <2>0, OneMore
  <2>5. BagCardinality(E (+) One(d)) = BagCardinality(E) + 1
        BY <2>0, OneMoreCounts
  <2>1. Finite(EmptyBag (+) One(d)) /\ BagCardinality(EmptyBag (+) One(d)) = 1
        BY <2>0, <2>4, <2>5 DEF E
  <2>2. Finite(One(d)) /\ Finite(EmptyBag)
        BY OneCounts, EmptyIsNothing
  <2>3. EmptyBag (+) One(d) = One(d)
    <3>1. \A e : Count(e, EmptyBag (+) One(d)) = Count(e, EmptyBag) + Count(e, One(d))
          BY <2>2, UnionCounts
    <3>2. \A e : Count(e, EmptyBag) = 0 /\ Count(e, One(d)) \in Nat
          BY <2>2, CountIsNat DEF Count, EmptyBag, SetToBag
    <3>3. \A e : Count(e, EmptyBag (+) One(d)) = Count(e, One(d))
          BY <3>1, <3>2
    <3>4. QED BY <2>1, <2>2, <3>3, SameBag
  <2>6. QED BY <2>1, <2>3
<1>2. DOMAIN One(d) = {d} /\ One(d)[d] = 1 /\ One(d) = [x \in {d} |-> 1]
      BY DEF One, SetToBag
<1>3. CASE n = 1
      BY <1>1, <1>2, <1>3 DEF Copies
<1>4. CASE n = 2
  <2> DEFINE C == One(d) (+) One(d)
  <2>1. /\ DOMAIN C = DOMAIN One(d) \cup {d} /\ C[d] = 2 /\ Finite(C)
        /\ BagCardinality(C) = 2
        BY <1>1, <1>2, OneMore, OneMoreCounts
  <2> HIDE DEF C
  <2>2. C = [e \in DOMAIN C |-> C[e]]
        BY <2>1, BagIs
  <2>3. DOMAIN C = {d}
        BY <1>2, <2>1
  <2>4. C = Copies(d, 2)
        BY <2>1, <2>2, <2>3 DEF Copies
  <2>5. QED BY <1>4, <2>1, <2>4
<1>5. QED BY <1>3, <1>4

(* What is emitted is delivered or waits in the line.                        *)
LEMMA EmitKeeps ==
    ASSUME LineOK(pline), pline.failed = FALSE, Finite(far),
           NEW b, Finite(b), NEW admitted \in Nat,
           admitted = BagCardinality(pline.heap) + BagCardinality(b),
           Emit(b, admitted)
    PROVE  /\ LineOK(pline') /\ pline'.failed = FALSE /\ pline'.open = pline.open
           /\ Finite(far') /\ inflight' \in Nat /\ inflight' <= admitted
           /\ inflight' = BagCardinality(pline'.heap)
<1>1. PICK now \in Parts(b) :
        /\ pline' = [pline EXCEPT !.heap = @ (+) (b (-) now)]
        /\ far' = far (+) now
        /\ inflight' = admitted - BagCardinality(now)
      BY DEF Emit
<1>2. IsABag(now) /\ now \sqsubseteq b
  <2>1. now \sqsubseteq b
        BY DEF Parts
  <2>2. PICK S \in SUBSET BagToSet(b) : now \in [S -> 1..BagCardinality(b)]
        BY DEF Parts
  <2>3. BagCardinality(b) \in Nat
        BY SizeIsNat
  <2>4. now = [e \in DOMAIN now |-> now[e]] /\ \A e \in DOMAIN now : now[e] \in Nat /\ now[e] > 0
        BY <2>2, <2>3
  <2>5. QED BY <2>1, <2>4 DEF IsABag
<1> DEFINE rest == b (-) now
           h == pline.heap (+) rest
<1>3. /\ Finite(now) /\ Finite(rest) /\ BagCardinality(now) \in Nat
      /\ BagCardinality(rest) = BagCardinality(b) - BagCardinality(now)
      BY <1>2, SizeOfRest
<1>4. /\ BagCardinality(rest) \in Nat /\ BagCardinality(b) \in Nat
      /\ BagCardinality(pline.heap) \in Nat
      BY <1>3, SizeIsNat DEF LineOK
<1> HIDE DEF rest
<1>5. Finite(h) /\ BagCardinality(h) = BagCardinality(pline.heap) + BagCardinality(rest)
      BY <1>3, SizeOfUnion, UnionCounts DEF LineOK
<1>6. pline' = [heap |-> h, open |-> pline.open, failed |-> pline.failed]
      BY <1>1 DEF LineOK, rest
<1> HIDE DEF h
<1>7. pline'.heap = h /\ pline'.open = pline.open /\ pline'.failed = pline.failed
      BY <1>6
<1>8. LineOK(pline')
      BY <1>5, <1>6, <1>7 DEF LineOK
<1>9. Finite(far')
      BY <1>1, <1>3, UnionCounts
<1>10. inflight' = BagCardinality(h) /\ inflight' \in Nat /\ inflight' <= admitted
       BY <1>1, <1>3, <1>4, <1>5
<1>11. QED BY <1>7, <1>8, <1>9, <1>10

LEMMA ProxyInvStep ==
    ASSUME ProxyInv, PNext
    PROVE  ProxyInv'
<1> USE DEF ProxyInv, InflightIsWhatWaits
<1>1. /\ BagCardinality(pline.heap) \in Nat /\ BagCardinality(held) \in Nat
      /\ Finite(EmptyBag) /\ BagCardinality(EmptyBag) = 0
      /\ QueueMax \in Nat /\ MaxRead \in Nat
      BY SizeIsNat, EmptyIsNothing, ProxyAssumption DEF LineOK
<1>2. ASSUME NEW d \in Datagrams, DropAtProxy(d)
      PROVE  ProxyInv'
      BY <1>1, <1>2 DEF DropAtProxy, Arrival
<1>3. ASSUME NEW d \in Datagrams, HoldBack(d)
      PROVE  ProxyInv'
  <2>1. PICK n \in {1, 2} : ~Full(n) /\ held' = Copies(d, n) /\ inflight' = Admitted(n)
        BY <1>3 DEF HoldBack
  <2>2. Finite(held') /\ BagCardinality(held') = n
        BY <2>1, CopiesCount
  <2>3. /\ held = EmptyBag /\ index' \in 0..MaxRead
        /\ UNCHANGED <<pline, far, lane, halted>>
        BY <1>1, <1>3 DEF HoldBack, Arrival
  <2>4. inflight' = inflight + n /\ inflight' <= QueueMax /\ inflight' \in Nat
        BY <1>1, <2>1 DEF Full, Admitted
  <2>5. QED BY <1>1, <2>2, <2>3, <2>4
<1>4. ASSUME NEW d \in Datagrams, Forward(d)
      PROVE  ProxyInv'
  <2>1. PICK n \in {1, 2} : ~Full(n) /\ Emit(Copies(d, n) (+) held, Admitted(n))
        BY <1>4 DEF Forward
  <2> DEFINE b == Copies(d, n) (+) held
  <2>2. Finite(Copies(d, n)) /\ BagCardinality(Copies(d, n)) = n
        BY CopiesCount
  <2>3. Finite(b) /\ BagCardinality(b) = n + BagCardinality(held)
        BY <2>2, UnionCounts, SizeOfUnion
  <2> HIDE DEF b
  <2>4. /\ pline.open /\ held' = EmptyBag /\ index' \in 0..MaxRead
        /\ UNCHANGED <<lane, halted>>
        BY <1>1, <1>4 DEF Forward, Arrival
  <2>5. /\ Admitted(n) \in Nat /\ Admitted(n) <= QueueMax
        /\ Admitted(n) = BagCardinality(pline.heap) + BagCardinality(b)
        BY <1>1, <2>1, <2>3, <2>4 DEF Full, Admitted
  <2>6. Emit(b, Admitted(n))
        BY <2>1 DEF b
  <2>7. /\ LineOK(pline') /\ pline'.failed = FALSE /\ pline'.open = pline.open
        /\ Finite(far') /\ inflight' \in Nat /\ inflight' <= Admitted(n)
        /\ inflight' = BagCardinality(pline'.heap)
        BY <2>3, <2>5, <2>6, EmitKeeps
  <2>8. BagCardinality(pline'.heap) + BagCardinality(held') = inflight' /\ inflight' <= QueueMax
        BY <1>1, <2>4, <2>5, <2>7
  <2>9. QED BY <1>1, <2>4, <2>7, <2>8
<1>5. CASE FlushHeld
  <2>1. /\ pline.open /\ held' = EmptyBag /\ UNCHANGED <<lane, halted, index>>
        /\ Emit(held, inflight)
        BY <1>5 DEF FlushHeld
  <2>2. /\ inflight = BagCardinality(pline.heap) + BagCardinality(held)
        /\ inflight <= QueueMax
        BY <2>1
  <2>3. /\ LineOK(pline') /\ pline'.failed = FALSE /\ pline'.open = pline.open
        /\ Finite(far') /\ inflight' \in Nat /\ inflight' <= inflight
        /\ inflight' = BagCardinality(pline'.heap)
        BY <2>1, <2>2, EmitKeeps
  <2>4. BagCardinality(pline'.heap) + BagCardinality(held') = inflight' /\ inflight' <= QueueMax
        BY <1>1, <2>1, <2>2, <2>3
  <2>5. QED BY <1>1, <2>1, <2>3, <2>4
<1>6. ASSUME NEW d \in BagToSet(pline.heap), ProxyLineDelivers(d)
      PROVE  ProxyInv'
  <2>1. /\ pline.open /\ pline' = Taken(pline, d) /\ far' = far (+) One(d)
        /\ inflight' = inflight - 1 /\ UNCHANGED <<lane, held, index, halted>>
        BY <1>6 DEF ProxyLineDelivers
  <2>2. d \in DOMAIN pline.heap
        BY DEF BagToSet
  <2>3. /\ LineOK(pline') /\ pline'.open = pline.open
        /\ BagCardinality(pline'.heap) = BagCardinality(pline.heap) - 1
        BY <2>1, <2>2, LineTakes
  <2>4. BagCardinality(pline'.heap) \in Nat
        BY <2>3, SizeIsNat DEF LineOK
  <2>5. pline'.failed = FALSE
        BY <2>1 DEF Taken, LineOK
  <2>6. Finite(far')
        BY <2>1, OneMore
  <2>7. /\ inflight' = BagCardinality(pline'.heap) + BagCardinality(held')
        /\ inflight' <= QueueMax /\ inflight' \in Nat
        BY <1>1, <2>1, <2>3, <2>4
  <2>8. QED BY <1>1, <2>1, <2>3, <2>5, <2>6, <2>7
<1>7. CASE Halt
      BY <1>1, <1>7 DEF Halt
<1>8. CASE LaneLeaves \/ LaneFails
      BY <1>1, <1>8 DEF LaneLeaves, LaneFails
<1>9. CASE CloseProxy
  <2>1. /\ pline' = Closed(pline) /\ lane = "gone"
        /\ UNCHANGED <<lane, held, inflight, index, halted, far>>
        BY <1>9 DEF CloseProxy
  <2>2. LineOK(pline') /\ pline'.open = FALSE
        BY <2>1, LineEnds
  <2>3. pline'.failed = FALSE
        BY <2>1 DEF Closed, LineOK
  <2>4. QED BY <2>1, <2>2, <2>3
<1>10. QED BY <1>2, <1>3, <1>4, <1>5, <1>6, <1>7, <1>8, <1>9 DEF PNext, LaneThread

(* While the proxy runs, the datagrams it counts as admitted are those it    *)
(* holds back or delays, never more than QUEUE_MAX, for every queue bound    *)
(* and any order of the two threads (udp_proxy.py:54-86).                    *)
THEOREM InflightHeldOrDelayed == ESpec => []InflightIsWhatWaits
<1>1. EInit => ProxyInv
      BY ProxyInvInit DEF EInit, Init
<1>2. ProxyInv /\ [ENext]_<<experiment, vars, hvars>> => ProxyInv'
  <2> SUFFICES ASSUME ProxyInv, [ENext]_<<experiment, vars, hvars>> PROVE ProxyInv'
      OBVIOUS
  <2>1. CASE PNext
        BY <2>1, ProxyInvStep
  <2>2. CASE UNCHANGED pvars
        BY <2>2 DEF pvars, ProxyInv, InflightIsWhatWaits
  <2>3. QED BY <2>1, <2>2 DEF ENext, Next, vars
<1>3. ProxyInv => InflightIsWhatWaits
      BY DEF ProxyInv
<1>4. QED BY <1>1, <1>2, <1>3, PTL DEF ESpec

-----------------------------------------------------------------------------
(* The handshake trials. *)

(* There is one session in a trial: an ACCEPT under way, and whatever the    *)
(* initiator has finished with, is the one that the responder remembers.     *)
TrialInv ==
    /\ \A m \in DOMAIN net : m = Hello \/ (m = Accept(1) /\ cache = 1)
    /\ cache \in {0, 1} /\ answer \in {0, 1} /\ recorded \in {0, 1} /\ session \in {0, 1}
    /\ responder \in {"answering", "recording"} => answer = 1 /\ cache = 1
    /\ Udp => recorded = cache
    /\ initiator \in {"finishing", "finished", "late"} => session = 1 /\ cache = 1

LEMMA SendAdds ==
    ASSUME NEW m, Send(m)
    PROVE  DOMAIN net' = DOMAIN net \cup {m}
<1>1. DOMAIN Packet(m) = {m}
      BY DEF Packet, SetToBag
<1>2. QED BY <1>1 DEF Send, (+)

LEMMA ReceiveRemoves ==
    ASSUME NEW m, Receive(m)
    PROVE  DOMAIN net' \subseteq DOMAIN net /\ m \in DOMAIN net
<1>1. m \in DOMAIN net
      BY DEF Receive, BagIn, BagToSet
<1> DEFINE P == Packet(m)
           A == [e \in DOMAIN net |-> IF e \in DOMAIN P THEN net[e] - P[e] ELSE net[e]]
<1>2. net (-) P = [e \in {d \in DOMAIN A : A[d] > 0} |-> A[e]]
      BY DEF (-)
<1>3. DOMAIN A = DOMAIN net
      OBVIOUS
<1> HIDE DEF A, P
<1>4. DOMAIN (net (-) P) \subseteq DOMAIN net
      BY <1>2, <1>3
<1>5. QED BY <1>1, <1>4 DEF Receive, P

LEMMA TrialInvInit == HInit => TrialInv
<1>1. DOMAIN EmptyBag = {}
      BY DEF EmptyBag, SetToBag
<1>2. QED BY <1>1 DEF HInit, TrialInv, Udp

LEMMA TrialInvStep ==
    ASSUME TrialInv, HNext
    PROVE  TrialInv'
<1> USE DEF TrialInv, Udp
<1>1. CASE SendHello
  <2>1. DOMAIN net' = DOMAIN net \cup {Hello}
        BY <1>1, SendAdds DEF SendHello
  <2>2. QED BY <1>1, <2>1 DEF SendHello
<1>2. CASE SendHelloAgain
  <2>1. DOMAIN net' = DOMAIN net \cup {Hello}
        BY <1>2, SendAdds DEF SendHelloAgain
  <2>2. QED BY <1>2, <2>1 DEF SendHelloAgain
<1>3. CASE Finish
      BY <1>3 DEF Finish
<1>4. CASE Judge
      BY <1>4 DEF Judge
<1>5. CASE GiveUp
      BY <1>5 DEF GiveUp
<1>6. ASSUME NEW m \in BagToSet(net), m.kind = "accept", ReceiveAccept(m.session)
      PROVE  TrialInv'
  <2>1. m \in DOMAIN net /\ m # Hello
        BY <1>6 DEF BagToSet, Hello
  <2>2. m.session = 1 /\ cache = 1
        BY <2>1 DEF Accept
  <2>3. DOMAIN net' \subseteq DOMAIN net
        BY <1>6, ReceiveRemoves DEF ReceiveAccept
  <2>4. QED BY <1>6, <2>2, <2>3 DEF ReceiveAccept
<1>7. CASE TakeHello
  <2>1. DOMAIN net' \subseteq DOMAIN net
        BY <1>7, ReceiveRemoves DEF TakeHello
  <2>2. AnswerFor = 1
        BY DEF AnswerFor
  <2>3. cache' = 1 /\ answer' = 1 /\ recorded' \in {0, 1} /\ (Udp => recorded' = 1)
        BY <1>7, <2>2 DEF TakeHello
  <2>4. /\ responder' = "answering"
        /\ UNCHANGED <<transport, initiator, hellos, dups, session, expired, over,
                       outcome, tally>>
        BY <1>7 DEF TakeHello
  <2>5. QED BY <2>1, <2>3, <2>4
<1>8. CASE SendAccept
  <2>1. answer = 1 /\ cache = 1
        BY <1>8 DEF SendAccept
  <2>2. DOMAIN net' = DOMAIN net \cup {Accept(1)}
        BY <1>8, <2>1, SendAdds DEF SendAccept
  <2>3. QED BY <1>8, <2>1, <2>2 DEF SendAccept
<1>9. CASE Record
      BY <1>9 DEF Record
<1>10. CASE ResponderLeaves
       BY <1>10 DEF ResponderLeaves
<1>11. ASSUME NEW m \in BagToSet(net), Lose(m)
       PROVE  TrialInv'
  <2>1. DOMAIN net' \subseteq DOMAIN net
        BY <1>11, ReceiveRemoves DEF Lose
  <2>2. QED BY <1>11, <2>1 DEF Lose
<1>12. ASSUME NEW m \in BagToSet(net), Duplicate(m)
       PROVE  TrialInv'
  <2>1. DOMAIN net' = DOMAIN net \cup {m} /\ m \in DOMAIN net
        BY <1>12, SendAdds DEF Duplicate, BagToSet
  <2>2. QED BY <1>12, <2>1 DEF Duplicate
<1>13. CASE DeadlinePasses
       BY <1>13 DEF DeadlinePasses
<1>14. CASE NextTrial
  <2>1. CASE UNCHANGED trial
        BY <1>14, <2>1 DEF NextTrial, trial
  <2>2. CASE NewTrial
    <3>1. DOMAIN net' = {}
          BY <2>2 DEF NewTrial, EmptyBag, SetToBag
    <3>2. QED BY <1>14, <2>2, <3>1 DEF NextTrial, NewTrial
  <2>3. QED BY <1>14, <2>1, <2>2 DEF NextTrial
<1>15. QED BY <1>1, <1>2, <1>3, <1>4, <1>5, <1>6, <1>7, <1>8, <1>9, <1>10, <1>11, <1>12,
              <1>13, <1>14 DEF HNext, Initiator, Responder, Network

(* A handshake the initiator completed in time is counted as a success,      *)
(* however often its HELLO was sent, duplicated or overtaken; over TCP only  *)
(* if the other thread recorded its session in time (full_handshake.py:71,   *)
(* 87-90).                                                                   *)
THEOREM CompletedCountsAsSuccess == ESpec => CompletedIsSuccess
<1>1. EInit => TrialInv
      BY TrialInvInit DEF EInit
<1>2. TrialInv /\ [ENext]_<<experiment, vars, hvars>> => TrialInv'
  <2> SUFFICES ASSUME TrialInv, [ENext]_<<experiment, vars, hvars>> PROVE TrialInv'
      OBVIOUS
  <2>1. CASE HNext
        BY <2>1, TrialInvStep
  <2>2. CASE UNCHANGED hvars
        BY <2>2 DEF hvars, trial, TrialInv, Udp
  <2>3. QED BY <2>1, <2>2 DEF ENext
<1>3. TrialInv /\ [ENext]_<<experiment, vars, hvars>> =>
        [initiator = "finished" /\ initiator' = "done" =>
            outcome' = "ok" \/ (transport = "tcp" /\ recorded = 0)]_hvars
  <2> SUFFICES ASSUME TrialInv, HNext, initiator = "finished", initiator' = "done"
               PROVE  outcome' = "ok" \/ (transport = "tcp" /\ recorded = 0)
      BY DEF ENext
  <2>1. Judge
    <3>1. ~(SendHello \/ SendHelloAgain \/ Finish \/ GiveUp \/ NextTrial \/ DeadlinePasses)
          BY DEF SendHello, SendHelloAgain, Finish, GiveUp, NextTrial, DeadlinePasses
    <3>2. ~Responder
          BY DEF Responder, TakeHello, SendAccept, Record, ResponderLeaves
    <3>3. ~Network
          BY DEF Network, Lose, Duplicate
    <3>4. ~\E m \in BagToSet(net) : m.kind = "accept" /\ ReceiveAccept(m.session)
          BY DEF ReceiveAccept
    <3>5. QED BY <3>1, <3>2, <3>3, <3>4 DEF HNext, Initiator
  <2>2. session = 1 /\ (Udp => recorded = 1) /\ recorded \in {0, 1}
        BY DEF TrialInv
  <2>3. Matches => outcome' = "ok"
        BY <2>1 DEF Judge
  <2>4. QED BY <2>2, <2>3 DEF Matches, Udp
<1>4. QED BY <1>1, <1>2, <1>3, PTL DEF ESpec, CompletedIsSuccess

-----------------------------------------------------------------------------
(* Types. *)

Sources == [mode : {"file", "loop", "mic"}, left : 0..FileFrames]
Losses == [bad : BOOLEAN, model : {"none", "burst"}]

(* What the loss knobs hold is in range, whatever was asked for, and one of  *)
(* the cases of a draw applies.                                              *)
LEMMA DrawsType ==
    ASSUME NEW l \in Losses, NEW k \in LossKnobs(LossPcts, BurstLens), NEW d \in Draws(l, k)
    PROVE  d.loss \in Losses
<1> DEFINE p == k.pct
           m == k.model
           now == l.bad /\ l.model = "burst"
           W == {Drawn(FALSE, FALSE, l.model)}
           X == {Drawn(TRUE, TRUE, l.model)}
           Y == {Drawn(b, FALSE, l.model) : b \in BOOLEAN}
           Z == {Drawn(b, b, "burst") : b \in NextInBurst(now, k)}
<1>1. p \in 0..100 /\ m \in {"random", "burst"}
  <2>1. \A q \in LossPcts : Within(0, 100, q) \in 0..100
        BY SenderAssumption DEF Within
  <2>2. p \in {Within(0, 100, q) : q \in LossPcts} /\ m \in {"random", "burst"}
        BY DEF LossKnobs
  <2>3. QED BY <2>1, <2>2
<1>2. Draws(l, k) = CASE p = 0 -> W
                      [] p = 100 -> X
                      [] p \in 1..99 /\ m = "random" -> Y
                      [] p \in 1..99 /\ m = "burst" -> Z
      BY DEF Draws
<1>3. NextInBurst(now, k) \subseteq BOOLEAN
  <2> HIDE DEF now
  <2>1. \A c : Chance(c) \subseteq BOOLEAN
        BY DEF Chance
  <2>2. {~r : r \in Chance(k.burst = 1)} \subseteq BOOLEAN
        OBVIOUS
  <2>3. QED BY <2>1, <2>2 DEF NextInBurst
<1>4. l.model \in {"none", "burst"} /\ l.bad \in BOOLEAN
      BY DEF Losses
<1>5. \A e \in W \cup X \cup Y \cup Z : e.loss \in Losses
  <2>1. ASSUME NEW drop, NEW bad \in BOOLEAN, NEW model \in {"none", "burst"}
        PROVE  Drawn(drop, bad, model).loss \in Losses
        BY DEF Drawn, Losses
  <2>2. \A e \in W \cup X : e.loss \in Losses
        BY <1>4, <2>1
  <2>3. \A e \in Y : e.loss \in Losses
        BY <1>4, <2>1
  <2> HIDE DEF now
  <2>4. \A e \in Z : e.loss \in Losses
        BY <1>3, <2>1
  <2>5. QED BY <2>2, <2>3, <2>4
<1> HIDE DEF p, m, now, W, X, Y, Z
<1>6. d \in W \cup X \cup Y \cup Z
      BY <1>1, <1>2
<1>7. QED BY <1>5, <1>6

SenderTypes ==
    /\ source \in Sources /\ loss \in Losses /\ stop \in BOOLEAN
    /\ sender \in {"looping", "closing", "ended"}

LEMMA SenderTypesStep ==
    ASSUME SenderTypes, SNext
    PROVE  SenderTypes'
<1>1. ASSUME Frame
      PROVE  source' \in Sources /\ stop' = stop
  <2>1. source' = Read /\ HasFrame /\ stop' = stop
        BY <1>1 DEF Frame
  <2>2. /\ source = [mode |-> source.mode, left |-> source.left]
        /\ source.mode \in {"file", "loop", "mic"} /\ source.left \in 0..FileFrames
        BY DEF SenderTypes, Sources
  <2>3. CASE source.mode = "file"
    <3>1. source' = [mode |-> source.mode, left |-> source.left - 1]
          BY <2>1, <2>2, <2>3 DEF Read
    <3>2. source.left - 1 \in 0..FileFrames
          BY <2>1, <2>2, <2>3, SenderAssumption DEF HasFrame
    <3>3. QED BY <2>1, <2>2, <3>1, <3>2 DEF Sources
  <2>4. CASE source.mode # "file"
        BY <2>1, <2>4 DEF Read, SenderTypes
  <2>5. QED BY <2>3, <2>4
<1>2. ASSUME NEW drop, Decides(drop)
      PROVE  loss' \in Losses
  <2>1. PICK k \in LossKnobs(LossPcts, BurstLens) : \E d \in Draws(loss, k) : loss' = d.loss
        BY <1>2 DEF Decides
  <2>2. PICK d \in Draws(loss, k) : loss' = d.loss
        BY <2>1
  <2>3. loss \in Losses
        BY DEF SenderTypes
  <2>4. QED BY <2>2, <2>3, DrawsType
<1>3. CASE DropFrame
      BY <1>1, <1>2, <1>3 DEF DropFrame, SenderTypes
<1>4. CASE SendFrame
      BY <1>1, <1>2, <1>4 DEF SendFrame, SenderTypes
<1>5. CASE SendFails
      BY <1>1, <1>2, <1>5 DEF SendFails, SenderTypes
<1>6. CASE LoopEnds
      BY <1>6 DEF LoopEnds, SenderTypes
<1>7. CASE CloseLine
      BY <1>7 DEF CloseLine, SenderTypes
<1>8. CASE LineThread
      BY <1>8 DEF LineThread, LineDelivers, LineFails, SenderTypes
<1>9. CASE StopAsked
      BY <1>9 DEF StopAsked, SenderTypes
<1>10. QED BY <1>3, <1>4, <1>5, <1>6, <1>7, <1>8, <1>9 DEF SNext, SenderThread

LEMMA BagsAre == \A B : Finite(B) => IsABag(B)
BY DEF Finite

(* Every variable of the sender and of the proxy keeps its type; no count    *)
(* goes below nothing, no number past the end of the sequence space.         *)
THEOREM VoicePathTypes == ESpec => [](STypeOK /\ PTypeOK)
<1> DEFINE Inv == SenderInv /\ SenderTypes /\ ProxyInv
<1>1. EInit => Inv
  <2> SUFFICES ASSUME EInit PROVE Inv
      OBVIOUS
  <2>1. SInit /\ PInit
        BY DEF EInit, Init
  <2>2. SenderTypes
        BY <2>1 DEF SInit, SenderTypes, Sources, Losses, NewLoss
  <2>3. QED BY <2>1, <2>2, SenderInvInit, ProxyInvInit
<1>2. Inv /\ [ENext]_<<experiment, vars, hvars>> => Inv'
  <2> SUFFICES ASSUME Inv, [ENext]_<<experiment, vars, hvars>> PROVE Inv'
      OBVIOUS
  <2>1. CASE SNext /\ UNCHANGED pvars
    <3>1. ProxyInv'
          BY <2>1 DEF pvars, ProxyInv, InflightIsWhatWaits
    <3>2. QED BY <2>1, <3>1, SenderInvStep, SenderTypesStep
  <2>2. CASE PNext /\ UNCHANGED <<source, sender, seq, loss, sline, counters, stop, spilt>>
    <3>1. Finite(wire')
          BY <2>2, ProxyTakes DEF SenderInv
    <3>2. SenderInv'
          BY <2>2, <3>1, SenderInvKept DEF counters
    <3>3. SenderTypes'
          BY <2>2 DEF SenderTypes
    <3>4. QED BY <2>2, <3>2, <3>3, ProxyInvStep
  <2>3. CASE UNCHANGED vars
    <3>1. UNCHANGED <<source, sender, seq, loss, sline, sent, dropped, stop, wire, spilt>>
          /\ UNCHANGED pvars
          BY <2>3 DEF vars, svars, counters
    <3>2. Finite(wire')
          BY <3>1 DEF SenderInv
    <3>3. SenderInv'
          BY <3>1, <3>2, SenderInvKept
    <3>4. SenderTypes'
          BY <3>1 DEF SenderTypes
    <3>5. ProxyInv'
          BY <3>1 DEF pvars, ProxyInv, InflightIsWhatWaits
    <3>6. QED BY <3>3, <3>4, <3>5
  <2>4. QED BY <2>1, <2>2, <2>3 DEF ENext, Next
<1>3. Inv => STypeOK /\ PTypeOK
  <2>1. SenderInv /\ SenderTypes => STypeOK
        BY BagsAre DEF SenderInv, SenderTypes, STypeOK, LineOK, Sources, Losses
  <2>2. ProxyInv => PTypeOK
        BY BagsAre DEF ProxyInv, PTypeOK, LineOK
  <2>3. QED BY <2>1, <2>2
<1>4. QED BY <1>1, <1>2, <1>3, PTL DEF ESpec

=============================================================================
