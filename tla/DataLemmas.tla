----------------------------- MODULE DataLemmas -----------------------------
(***************************************************************************)
(* Facts about the data the models compute with, each by induction: sums   *)
(* over finite sets and sequences, and the sorting of a sequence.  There   *)
(* is no induction rule to cite, so an induction is the argument from the  *)
(* least counterexample (Least).                                           *)
(***************************************************************************)
EXTENDS Integers, SequencesExt, FiniteSetsExt,
        FiniteSetTheorems, SequenceTheorems, WellFoundedInduction, TLAPS

(***************************************************************************)
(* A set of naturals has a least element.                                  *)
(***************************************************************************)
LEMMA Least ==
  ASSUME NEW S \in SUBSET Nat, S # {}
  PROVE  \E x \in S : \A y \in S : x =< y
<1>1. PICK x \in S : \A y \in S : ~(<<y, x>> \in OpToRel(<, Nat))
  BY WFMin, NatLessThanWellFounded
<1>2. \A y \in S : <<y, x>> \in OpToRel(<, Nat) <=> (y < x)
  BY Zenon DEF OpToRel
<1>3. \A y \in S : ~(y < x)
  BY <1>1, <1>2, Zenon
<1> QED
  BY <1>3

(***************************************************************************)
(* A finite set of naturals has a greatest element, which Max chooses.     *)
(***************************************************************************)
LEMMA MaxOf ==
  ASSUME NEW S \in SUBSET Nat, S # {}, NEW n \in Nat, \A x \in S : x =< n
  PROVE  Max(S) \in S /\ \A y \in S : y =< Max(S)
<1> DEFINE D == {n - x : x \in S}
<1>1. D \in SUBSET Nat /\ D # {}
  <2>1. \A x \in S : x \in Nat /\ x =< n /\ n - x \in D
    OBVIOUS
  <2>2. \A d \in D : d \in Nat
    BY <2>1
  <2> QED
    BY <2>1, <2>2
<1>2. PICK d \in D : \A e \in D : d =< e
  BY <1>1, Least
<1>3. PICK x \in S : d = n - x
  OBVIOUS
<1>4. \A y \in S : x >= y
  <2> TAKE y \in S
  <2>1. d =< n - y
    BY <1>2
  <2> QED
    BY <1>3, <2>1
<1> QED
  BY <1>4 DEF Max

-----------------------------------------------------------------------------
(* Sums over finite sets. *)

\* g sums the values of q over the subsets of T, in whatever order.
Sums(g, T, q) ==
  /\ g \in [SUBSET T -> Int]
  /\ g[{}] = 0
  /\ \A s \in SUBSET T : \A x \in s : g[s] = q[x] + g[s \ {x}]

\* g sums them in the order in which ch chooses them: MapThenFoldSet's way.
Folds(g, T, q, ch) ==
  /\ g = [s \in SUBSET T |-> g[s]]
  /\ g[{}] = 0
  /\ \A s \in SUBSET T : s # {} =>
       \/ g[s] = q[ch[s]] + g[s \ {ch[s]}]
       \/ g[s] = g[s \ {ch[s]}] + q[ch[s]]

\* The subsets of at most n elements.
UpTo(T, n) == {s \in SUBSET T : Cardinality(s) =< n}

FoldsUpTo(g, T, q, ch, n) ==
  /\ g = [s \in UpTo(T, n) |-> g[s]]
  /\ \A s \in UpTo(T, n) :
       /\ g[s] \in Int
       /\ g[s] = IF s = {} THEN 0 ELSE q[ch[s]] + g[s \ {ch[s]}]

(***************************************************************************)
(* A function can be folded over a finite set.                             *)
(***************************************************************************)
LEMMA FoldExists ==
  ASSUME NEW T, IsFiniteSet(T),
         NEW q, \A x \in T : q[x] \in Int,
         NEW ch, \A s \in SUBSET T : s # {} => ch[s] \in s
  PROVE  \E g : Folds(g, T, q, ch) /\ \A s \in SUBSET T : g[s] \in Int
<1> DEFINE Bad == {n \in Nat : ~ \E g : FoldsUpTo(g, T, q, ch, n)}
<1>0. \A s \in SUBSET T : IsFiniteSet(s) /\ Cardinality(s) \in Nat
  BY FS_Subset, FS_CardinalityType
<1>1. ASSUME Bad # {}
      PROVE  FALSE
  <2>1. PICK n \in Bad : \A m \in Bad : n =< m
    BY <1>1, Least
  <2>2. CASE n = 0
    <3> DEFINE g == [s \in UpTo(T, 0) |-> 0]
    <3>1. UpTo(T, 0) = {{}}
      <4>1. \A s \in SUBSET T : Cardinality(s) =< 0 <=> s = {}
        BY <1>0, FS_EmptySet
      <4> QED
        BY <4>1 DEF UpTo
    <3>2. FoldsUpTo(g, T, q, ch, 0)
      BY <3>1 DEF FoldsUpTo
    <3> QED
      BY <2>2, <3>2
  <2>3. CASE n # 0
    <3>1. n - 1 \in Nat /\ n - 1 \notin Bad
      BY <2>1, <2>3
    <3>2. PICK h : FoldsUpTo(h, T, q, ch, n - 1)
      BY <3>1
    <3> DEFINE g == [s \in UpTo(T, n) |->
                       IF Cardinality(s) =< n - 1 THEN h[s]
                       ELSE q[ch[s]] + h[s \ {ch[s]}]]
    <3>3. ASSUME NEW s \in UpTo(T, n), s # {}
          PROVE  /\ ch[s] \in s /\ ch[s] \in T
                 /\ s \ {ch[s]} \in UpTo(T, n - 1)
                 /\ s \ {ch[s]} \in UpTo(T, n)
      <4>1. s \in SUBSET T /\ Cardinality(s) =< n /\ ch[s] \in s
        BY <3>3 DEF UpTo
      <4>2. Cardinality(s \ {ch[s]}) = Cardinality(s) - 1
        BY <1>0, <4>1, FS_RemoveElement
      <4> QED
        BY <1>0, <3>1, <4>1, <4>2 DEF UpTo
    <3>4. {} \in UpTo(T, n - 1)
      BY <3>1, FS_EmptySet DEF UpTo
    <3>5. \A s \in UpTo(T, n) : Cardinality(s) =< n - 1 <=> s \in UpTo(T, n - 1)
      BY DEF UpTo
    <3>6. \A s \in UpTo(T, n - 1) : s \in UpTo(T, n) /\ g[s] = h[s]
      BY <1>0, <3>1 DEF UpTo
    <3>7. ASSUME NEW s \in UpTo(T, n)
          PROVE  /\ g[s] \in Int
                 /\ g[s] = IF s = {} THEN 0 ELSE q[ch[s]] + g[s \ {ch[s]}]
      <4>1. CASE s \in UpTo(T, n - 1)
        <5>1. /\ h[s] \in Int
              /\ h[s] = IF s = {} THEN 0 ELSE q[ch[s]] + h[s \ {ch[s]}]
          BY <3>2, <4>1 DEF FoldsUpTo
        <5> HIDE DEF g
        <5> QED
          BY <3>3, <3>6, <4>1, <5>1
      <4>2. CASE s \notin UpTo(T, n - 1)
        <5>1. s # {}
          BY <3>4, <4>2
        <5>2. g[s] = q[ch[s]] + h[s \ {ch[s]}]
          BY <3>5, <3>7, <4>2
        <5>3. h[s \ {ch[s]}] \in Int /\ g[s \ {ch[s]}] = h[s \ {ch[s]}]
          BY <3>2, <3>3, <3>6, <3>7, <5>1 DEF FoldsUpTo
        <5>4. q[ch[s]] \in Int
          BY <3>3, <3>7, <5>1
        <5> HIDE DEF g
        <5> QED
          BY <5>1, <5>2, <5>3, <5>4
      <4> QED
        BY <4>1, <4>2
    <3>8. g = [s \in UpTo(T, n) |-> g[s]]
      OBVIOUS
    <3> HIDE DEF g
    <3>9. FoldsUpTo(g, T, q, ch, n)
      BY <3>7, <3>8 DEF FoldsUpTo
    <3> QED
      BY <3>9
  <2> QED
    BY <2>2, <2>3
<1>2. Cardinality(T) \in Nat
  BY FS_CardinalityType
<1>3. PICK g : FoldsUpTo(g, T, q, ch, Cardinality(T))
  BY <1>1, <1>2
<1>4. UpTo(T, Cardinality(T)) = SUBSET T
  BY FS_Subset DEF UpTo
<1>5. /\ g = [s \in SUBSET T |-> g[s]]
      /\ \A s \in SUBSET T :
           /\ g[s] \in Int
           /\ g[s] = IF s = {} THEN 0 ELSE q[ch[s]] + g[s \ {ch[s]}]
  BY <1>3, <1>4 DEF FoldsUpTo
<1>6. Folds(g, T, q, ch)
  BY <1>5 DEF Folds
<1> QED
  BY <1>5, <1>6

(***************************************************************************)
(* The order of the fold does not matter.                                  *)
(***************************************************************************)
LEMMA FoldIsSum ==
  ASSUME NEW T, IsFiniteSet(T),
         NEW q, \A x \in T : q[x] \in Int,
         NEW ch, \A s \in SUBSET T : s # {} => ch[s] \in s,
         NEW g, Folds(g, T, q, ch), \A s \in SUBSET T : g[s] \in Int
  PROVE  Sums(g, T, q)
<1> DEFINE Right(s) == \A x \in s : g[s] = q[x] + g[s \ {x}]
           Bad == {n \in Nat : \E s \in SUBSET T : Cardinality(s) = n /\ ~ Right(s)}
<1>0. \A s \in SUBSET T : IsFiniteSet(s) /\ Cardinality(s) \in Nat
  BY FS_Subset, FS_CardinalityType
<1>1. /\ g[{}] = 0
      /\ g \in [SUBSET T -> Int]
      /\ \A s \in SUBSET T : s # {} => g[s] = q[ch[s]] + g[s \ {ch[s]}]
  <2>1. g[{}] = 0 /\ g = [s \in SUBSET T |-> g[s]]
    BY DEF Folds
  <2>2. ASSUME NEW s \in SUBSET T, s # {}
        PROVE  g[s] = q[ch[s]] + g[s \ {ch[s]}]
    <3>1. q[ch[s]] \in Int /\ g[s \ {ch[s]}] \in Int
      BY <2>2
    <3>2. \/ g[s] = q[ch[s]] + g[s \ {ch[s]}]
          \/ g[s] = g[s \ {ch[s]}] + q[ch[s]]
      BY <2>2 DEF Folds
    <3> QED
      BY <3>1, <3>2
  <2> QED
    BY <2>1, <2>2
<1>2. ASSUME Bad # {}
      PROVE  FALSE
  <2>1. PICK n \in Bad : \A m \in Bad : n =< m
    BY <1>2, Least
  <2>2. PICK s \in SUBSET T : Cardinality(s) = n /\ ~ Right(s)
    OBVIOUS
  <2>3. PICK x \in s : g[s] # q[x] + g[s \ {x}]
    BY <2>2
  <2> DEFINE c == ch[s]
             both == s \ {x, c}
  <2>4. c \in s /\ c # x
    BY <1>1, <2>3
  <2>5. ASSUME NEW y \in s
        PROVE  s \ {y} \in SUBSET T /\ Right(s \ {y})
    <3>1. Cardinality(s \ {y}) = n - 1
      BY <1>0, <2>2, FS_RemoveElement
    <3>2. n - 1 \in Nat /\ n - 1 \notin Bad
      BY <1>0, <2>1, <3>1
    <3> QED
      BY <3>1, <3>2
  <2>6. g[s \ {c}] = q[x] + g[(s \ {c}) \ {x}]
    BY <2>4, <2>5
  <2>7. g[s \ {x}] = q[c] + g[(s \ {x}) \ {c}]
    BY <2>4, <2>5
  <2>8. (s \ {c}) \ {x} = both /\ (s \ {x}) \ {c} = both
    OBVIOUS
  <2>11. g[s \ {c}] = q[x] + g[both] /\ g[s \ {x}] = q[c] + g[both]
    BY <2>6, <2>7, <2>8
  <2>9. g[s] = q[c] + g[s \ {c}]
    BY <1>1, <2>4
  <2>10. q[x] \in Int /\ q[c] \in Int /\ g[both] \in Int
    BY <2>4
  <2> HIDE DEF c, both, Right, Bad
  <2> QED
    BY <2>3, <2>9, <2>10, <2>11
<1>3. \A s \in SUBSET T : Right(s)
  BY <1>0, <1>2
<1> QED
  BY <1>1, <1>3 DEF Sums

(***************************************************************************)
(* So there is one fold, and it is the sum.                                *)
(***************************************************************************)
LEMMA FoldSums ==
  ASSUME NEW T, IsFiniteSet(T),
         NEW q, \A x \in T : q[x] \in Int,
         NEW ch, \A s \in SUBSET T : s # {} => ch[s] \in s
  PROVE  /\ \E g : Sums(g, T, q)
         /\ \A g : Folds(g, T, q, ch) => Sums(g, T, q)
<1>1. PICK h : Folds(h, T, q, ch) /\ \A s \in SUBSET T : h[s] \in Int
  BY FoldExists
<1>2. Sums(h, T, q)
  BY <1>1, FoldIsSum
<1> SUFFICES ASSUME NEW g, Folds(g, T, q, ch), g # h
             PROVE  FALSE
  BY <1>1, <1>2
<1> DEFINE Bad == {n \in Nat : \E s \in SUBSET T : Cardinality(s) = n /\ g[s] # h[s]}
<1>3. \A s \in SUBSET T : IsFiniteSet(s) /\ Cardinality(s) \in Nat
  BY FS_Subset, FS_CardinalityType
<1>4. \E s \in SUBSET T : g[s] # h[s]
  <2>1. g = [s \in SUBSET T |-> g[s]] /\ h = [s \in SUBSET T |-> h[s]]
    BY <1>1 DEF Folds
  <2> QED
    BY <2>1
<1>5. Bad # {}
  BY <1>3, <1>4
<1>6. PICK n \in Bad : \A m \in Bad : n =< m
  BY <1>5, Least
<1>7. PICK s \in SUBSET T : Cardinality(s) = n /\ g[s] # h[s]
  OBVIOUS
<1>8. s # {}
  BY <1>1, <1>7 DEF Folds
<1>9. ch[s] \in s
  BY <1>8
<1>10. Cardinality(s \ {ch[s]}) = n - 1 /\ s \ {ch[s]} \in SUBSET T
  BY <1>3, <1>7, <1>9, FS_RemoveElement
<1>11. n - 1 \in Nat /\ n - 1 \notin Bad
  BY <1>3, <1>6, <1>10
<1>12. g[s \ {ch[s]}] = h[s \ {ch[s]}]
  BY <1>10, <1>11
<1>13. h[s \ {ch[s]}] \in Int /\ q[ch[s]] \in Int
  BY <1>1, <1>9
<1>14. h[s] = q[ch[s]] + h[s \ {ch[s]}]
  BY <1>2, <1>9 DEF Sums
<1>15. g[s] = q[ch[s]] + g[s \ {ch[s]}] \/ g[s] = g[s \ {ch[s]}] + q[ch[s]]
  BY <1>8 DEF Folds
<1> QED
  BY <1>7, <1>12, <1>13, <1>14, <1>15

(***************************************************************************)
(* Two sums agree on the sets both of them know.                           *)
(***************************************************************************)
LEMMA SumsAgree ==
  ASSUME NEW T, IsFiniteSet(T), NEW U \in SUBSET T, NEW q, NEW r,
         \A x \in U : q[x] = r[x],
         NEW g, Sums(g, U, q), NEW h, Sums(h, T, r)
  PROVE  \A s \in SUBSET U : g[s] = h[s]
<1> DEFINE Bad == {n \in Nat : \E s \in SUBSET U : Cardinality(s) = n /\ g[s] # h[s]}
<1>0. \A s \in SUBSET U : IsFiniteSet(s) /\ Cardinality(s) \in Nat
  BY FS_Subset, FS_CardinalityType
<1>1. ASSUME Bad # {}
      PROVE  FALSE
  <2>1. PICK n \in Bad : \A m \in Bad : n =< m
    BY <1>1, Least
  <2>2. PICK s \in SUBSET U : Cardinality(s) = n /\ g[s] # h[s]
    OBVIOUS
  <2>3. s # {}
    BY <2>2 DEF Sums
  <2>4. PICK x \in s : TRUE
    BY <2>3
  <2>5. Cardinality(s \ {x}) = n - 1 /\ s \ {x} \in SUBSET U
    BY <1>0, <2>2, FS_RemoveElement
  <2>6. n - 1 \in Nat /\ n - 1 \notin Bad
    BY <1>0, <2>1, <2>5
  <2>7. g[s \ {x}] = h[s \ {x}]
    BY <2>5, <2>6
  <2>8. g[s] = q[x] + g[s \ {x}] /\ h[s] = r[x] + h[s \ {x}]
    BY DEF Sums
  <2> QED
    BY <2>2, <2>7, <2>8
<1> QED
  BY <1>0, <1>1

-----------------------------------------------------------------------------
(* Sums of sequences. *)

Total(s) == FoldLeft(+, 0, s)

(***************************************************************************)
(* FoldLeft's own sum of a sequence is the sum over its indices.           *)
(***************************************************************************)
LEMMA TotalIsSum ==
  ASSUME NEW s \in Seq(Int)
  PROVE  \E g : Sums(g, 1 .. Len(s), s) /\ Total(s) = g[1 .. Len(s)]
<1> DEFINE T == 1 .. Len(s)
           ch == [u \in SUBSET T |-> Max(u)]
<1>1. IsFiniteSet(T) /\ \A x \in T : s[x] \in Int
  BY FS_Interval
<1>2. \A u \in SUBSET T : u # {} => ch[u] \in u
  <2> SUFFICES ASSUME NEW u \in SUBSET T, u # {}  PROVE Max(u) \in u
    OBVIOUS
  <2>1. u \in SUBSET Nat /\ Len(s) \in Nat /\ \A x \in u : x =< Len(s)
    OBVIOUS
  <2> QED
    BY <2>1, MaxOf
<1> DEFINE Body(g) == [u \in SUBSET T |->
                         IF u = {} THEN 0 ELSE g[u \ {Max(u)}] + s[Max(u)]]
           iter == CHOOSE g : g = Body(g)
<1>3. Total(s) = iter[T]
  <2>1. DOMAIN s = T
    OBVIOUS
  <2> QED
    BY <2>1, Zenon DEF Total, FoldLeft, MapThenFoldSet
<1>4. PICK h : Sums(h, T, s)
  BY <1>1, <1>2, FoldSums
<1>5. \A u \in SUBSET T : u # {} => h[u] = h[u \ {Max(u)}] + s[Max(u)]
  <2> SUFFICES ASSUME NEW u \in SUBSET T, u # {}
               PROVE  h[u] = h[u \ {Max(u)}] + s[Max(u)]
    OBVIOUS
  <2>1. Max(u) \in u
    BY <1>2
  <2>2. h[u] = s[Max(u)] + h[u \ {Max(u)}] /\ h[u \ {Max(u)}] \in Int
    BY <1>4, <2>1 DEF Sums
  <2>3. s[Max(u)] \in Int
    BY <1>1, <2>1
  <2> HIDE DEF iter, Body
  <2> QED
    BY <2>2, <2>3
<1>6. h = Body(h)
  BY <1>4, <1>5 DEF Sums
<1>7. iter = Body(iter)
  BY <1>6, Zenon
<1> HIDE DEF iter
<1>8. Folds(iter, T, s, ch)
  <2>1. iter = [u \in SUBSET T |-> iter[u]]
    BY <1>7
  <2>2. iter[{}] = 0
    BY <1>7
  <2>3. ASSUME NEW u \in SUBSET T, u # {}
        PROVE  iter[u] = iter[u \ {ch[u]}] + s[ch[u]]
    BY <1>7, <2>3
  <2> HIDE DEF ch, Body
  <2> QED
    BY <2>1, <2>2, <2>3 DEF Folds
<1>9. Sums(iter, T, s)
  BY <1>1, <1>2, <1>8, FoldSums
<1> QED
  BY <1>3, <1>9

(***************************************************************************)
(* The sum of a longer sequence.                                           *)
(***************************************************************************)
LEMMA TotalAppend ==
  ASSUME NEW s \in Seq(Int), NEW x \in Int
  PROVE  /\ Total(s) \in Int
         /\ Total(Append(s, x)) = Total(s) + x
<1> DEFINE t == Append(s, x)
           n == Len(s)
<1>1. /\ t \in Seq(Int) /\ Len(t) = n + 1 /\ n \in Nat
      /\ t[n + 1] = x
      /\ \A i \in 1 .. n : s[i] = t[i]
  BY AppendProperties
<1> DEFINE U == 1 .. n
           T == 1 .. (n + 1)
<1>2. PICK g : Sums(g, U, s) /\ Total(s) = g[U]
  BY TotalIsSum
<1>3. PICK h : Sums(h, T, t) /\ Total(t) = h[T]
  BY <1>1, TotalIsSum
<1>4. IsFiniteSet(T)
  BY <1>1, FS_Interval
<1>6. U \in SUBSET T /\ T \ {n + 1} = U /\ n + 1 \in T
  BY <1>1
<1> HIDE DEF t, n, T
<1>5. g[U] = h[U]
  <2>1. \A i \in U : s[i] = t[i]
    BY <1>1
  <2> HIDE DEF U
  <2>3. Sums(g, U, s) /\ Sums(h, T, t) /\ IsFiniteSet(T) /\ U \in SUBSET T
    BY <1>2, <1>3, <1>4, <1>6
  <2>4. \A f, k : Sums(f, U, s) /\ Sums(k, T, t) =>
          \A u \in SUBSET U : f[u] = k[u]
    <3>1. \A q, r : (\A i \in U : q[i] = r[i]) =>
            \A f, k : Sums(f, U, q) /\ Sums(k, T, r) =>
              \A u \in SUBSET U : f[u] = k[u]
      BY <2>3, SumsAgree
    <3> QED
      BY <2>1, <3>1
  <2>2. \A u \in SUBSET U : g[u] = h[u]
    BY <2>3, <2>4
  <2> QED
    BY <2>2
<1> HIDE DEF U
<1>7. h[T] = t[n + 1] + h[U]
  BY <1>3, <1>6 DEF Sums
<1>8. h[U] \in Int
  BY <1>3, <1>6 DEF Sums
<1> QED
  BY <1>1, <1>2, <1>3, <1>5, <1>7, <1>8 DEF t

LEMMA TotalEmpty == Total(<<>>) = 0
<1>1. <<>> \in Seq(Int) /\ Len(<<>>) = 0 /\ 1 .. 0 = {}
  OBVIOUS
<1>2. PICK g : Sums(g, 1 .. Len(<<>>), <<>>) /\ Total(<<>>) = g[1 .. Len(<<>>)]
  BY <1>1, TotalIsSum
<1> QED
  BY <1>1, <1>2 DEF Sums

-----------------------------------------------------------------------------
(* Sorting a sequence. *)

(***************************************************************************)
(* A sequence that is not empty has a greatest element.                    *)
(***************************************************************************)
LEMMA GreatestOf ==
  \A n \in Nat \ {0} : \A s \in [1 .. n -> Int] :
    \E m \in 1 .. n : \A i \in 1 .. n : s[i] =< s[m]
<1> DEFINE Has(n) == \A s \in [1 .. n -> Int] :
                       \E m \in 1 .. n : \A i \in 1 .. n : s[i] =< s[m]
           Bad == {n \in Nat \ {0} : ~ Has(n)}
<1>1. ASSUME Bad # {}
      PROVE  FALSE
  <2>1. PICK n \in Bad : \A k \in Bad : n =< k
    <3>1. Bad \in SUBSET Nat
      OBVIOUS
    <3> QED
      BY <1>1, <3>1, Least
  <2>2. CASE n = 1
    <3>1. Has(1)
      OBVIOUS
    <3> QED
      BY <2>1, <2>2, <3>1
  <2>3. CASE n # 1
    <3>1. n - 1 \in Nat \ {0} /\ n - 1 \notin Bad
      <4>1. n \in Nat \ {0}
        OBVIOUS
      <4>2. n - 1 \in Nat \ {0} /\ ~ (n =< n - 1)
        BY <2>3, <4>1
      <4> HIDE DEF Bad
      <4> QED
        BY <2>1, <4>2
    <3>2. Has(n - 1)
      BY <3>1
    <3>3. Has(n)
      <4> SUFFICES ASSUME NEW s \in [1 .. n -> Int]
                   PROVE  \E m \in 1 .. n : \A i \in 1 .. n : s[i] =< s[m]
        OBVIOUS
      <4> DEFINE r == [i \in 1 .. (n - 1) |-> s[i]]
      <4>1. r \in [1 .. (n - 1) -> Int]
        BY <3>1
      <4>2. PICK m \in 1 .. (n - 1) : \A i \in 1 .. (n - 1) : r[i] =< r[m]
        BY <3>2, <4>1
      <4>3. \A i \in 1 .. (n - 1) : s[i] =< s[m]
        BY <4>2
      <4>4. n \in Nat /\ m \in 1 .. n /\ n \in 1 .. n
            /\ \A i \in 1 .. n : i = n \/ i \in 1 .. (n - 1)
        BY <3>1
      <4> HIDE DEF r, Bad, Has
      <4>5. CASE s[n] =< s[m]
        BY <4>3, <4>4, <4>5
      <4>6. CASE ~ (s[n] =< s[m])
        <5>1. \A i \in 1 .. n : s[i] =< s[n]
          BY <4>3, <4>4, <4>6
        <5> QED
          BY <4>4, <5>1
      <4> QED
        BY <4>5, <4>6
    <3> QED
      BY <2>1, <3>3
  <2> QED
    BY <2>2, <2>3
<1> QED
  BY <1>1

Sorts(p, s, n) ==
  /\ p \in [1 .. n -> 1 .. n]
  /\ \A i, j \in 1 .. n : p[i] = p[j] => i = j
  /\ \A k \in 1 .. n : \E i \in 1 .. n : p[i] = k
  /\ \A i, j \in 1 .. n : i < j => s[p[i]] =< s[p[j]]

(***************************************************************************)
(* Put a greatest element last and sort the others.                        *)
(***************************************************************************)
LEMMA GreatestLast ==
  ASSUME NEW n \in Nat, NEW s \in [1 .. (n + 1) -> Int],
         \A r \in [1 .. n -> Int] : \E p : Sorts(p, r, n)
  PROVE  \E p : Sorts(p, s, n + 1)
<1>1. PICK m \in 1 .. (n + 1) : \A i \in 1 .. (n + 1) : s[i] =< s[m]
  <2>1. n + 1 \in Nat \ {0}
    OBVIOUS
  <2> QED
    BY <2>1, GreatestOf
<1> DEFINE r == [i \in 1 .. n |-> IF i = m THEN s[n + 1] ELSE s[i]]
<1>2. r \in [1 .. n -> Int]
  OBVIOUS
<1>3. PICK o : Sorts(o, r, n)
  BY <1>2
<1> DEFINE p == [i \in 1 .. (n + 1) |->
                   IF i = n + 1 THEN m ELSE IF o[i] = m THEN n + 1 ELSE o[i]]
<1>4. /\ p[n + 1] = m
      /\ \A i \in 1 .. n : p[i] = IF o[i] = m THEN n + 1 ELSE o[i]
      /\ \A i \in 1 .. n : o[i] \in 1 .. n
      /\ \A i \in 1 .. (n + 1) : i = n + 1 \/ i \in 1 .. n
      /\ n + 1 \in 1 .. (n + 1) /\ n + 1 \notin 1 .. n
      /\ \A i \in 1 .. n : i \in 1 .. (n + 1)
  BY <1>3 DEF Sorts
<1>5. p \in [1 .. (n + 1) -> 1 .. (n + 1)]
  BY <1>4
<1>6. \A i \in 1 .. n : s[p[i]] = r[o[i]] /\ r[o[i]] =< s[m] /\ r[o[i]] \in Int
  BY <1>1, <1>2, <1>4
<1>7. /\ \A i, j \in 1 .. n : o[i] = o[j] => i = j
      /\ \A k \in 1 .. n : \E i \in 1 .. n : o[i] = k
      /\ \A i, j \in 1 .. n : i < j => r[o[i]] =< r[o[j]]
  BY <1>3 DEF Sorts
<1> HIDE DEF p, r
<1>8. \A i, j \in 1 .. (n + 1) : p[i] = p[j] => i = j
  <2>1. \A i \in 1 .. n : p[i] # m
    BY <1>4
  <2>2. \A i, j \in 1 .. n : p[i] = p[j] => i = j
    <3> SUFFICES ASSUME NEW i \in 1 .. n, NEW j \in 1 .. n, p[i] = p[j]
                 PROVE  o[i] = o[j]
      BY <1>7
    <3>1. o[i] # n + 1 /\ o[j] # n + 1
      BY <1>4
    <3> QED
      BY <1>4, <3>1
  <2> QED
    BY <1>4, <2>1, <2>2
<1>9. \A k \in 1 .. (n + 1) : \E i \in 1 .. (n + 1) : p[i] = k
  <2> SUFFICES ASSUME NEW k \in 1 .. (n + 1)
               PROVE  \E i \in 1 .. (n + 1) : p[i] = k
    OBVIOUS
  <2>1. CASE k = m
    BY <1>4, <2>1
  <2>2. CASE k # m /\ k = n + 1
    <3>1. m \in 1 .. n
      BY <1>4, <2>2
    <3>2. PICK i \in 1 .. n : o[i] = m
      BY <1>7, <3>1
    <3> QED
      BY <1>4, <2>2, <3>2
  <2>3. CASE k # m /\ k # n + 1
    <3>1. k \in 1 .. n
      BY <1>4, <2>3
    <3>2. PICK i \in 1 .. n : o[i] = k
      BY <1>7, <3>1
    <3> QED
      BY <1>4, <2>3, <3>2
  <2> QED
    BY <2>1, <2>2, <2>3
<1>10. \A i, j \in 1 .. (n + 1) : i < j => s[p[i]] =< s[p[j]]
  <2> SUFFICES ASSUME NEW i \in 1 .. (n + 1), NEW j \in 1 .. (n + 1), i < j
               PROVE  s[p[i]] =< s[p[j]]
    OBVIOUS
  <2>1. i \in 1 .. n
    OBVIOUS
  <2>2. CASE j = n + 1
    BY <1>4, <1>6, <2>1, <2>2
  <2>3. CASE j \in 1 .. n
    BY <1>6, <1>7, <2>1, <2>3
  <2> QED
    BY <1>4, <2>2, <2>3
<1>11. Sorts(p, s, n + 1)
  BY <1>5, <1>8, <1>9, <1>10 DEF Sorts
<1> QED
  BY <1>11

(***************************************************************************)
(* Every sequence can be sorted.                                           *)
(***************************************************************************)
LEMMA SortingExists ==
  ASSUME NEW s \in Seq(Int)
  PROVE  \E p \in Bijection(DOMAIN s, DOMAIN s) :
           \A i, j \in DOMAIN s : i < j => s[p[i]] =< s[p[j]]
<1> DEFINE Can(n) == \A r \in [1 .. n -> Int] : \E p : Sorts(p, r, n)
           Bad == {n \in Nat : ~ Can(n)}
<1>1. ASSUME Bad # {}
      PROVE  FALSE
  <2>1. PICK n \in Bad : \A k \in Bad : n =< k
    BY <1>1, Least
  <2>2. CASE n = 0
    <3>1. \A r : Sorts([i \in 1 .. 0 |-> i], r, 0)
      BY DEF Sorts
    <3> QED
      BY <2>1, <2>2, <3>1
  <2>3. CASE n # 0
    <3>1. n - 1 \in Nat /\ n - 1 \notin Bad /\ (n - 1) + 1 = n
      <4>1. n \in Nat
        OBVIOUS
      <4>2. n - 1 \in Nat /\ ~ (n =< n - 1) /\ (n - 1) + 1 = n
        BY <2>3, <4>1
      <4> HIDE DEF Bad
      <4> QED
        BY <2>1, <4>2
    <3>2. Can(n - 1)
      BY <3>1
    <3>3. \A r \in [1 .. ((n - 1) + 1) -> Int] : \E p : Sorts(p, r, (n - 1) + 1)
      BY <3>1, <3>2, GreatestLast
    <3>4. Can(n)
      BY <3>1, <3>3
    <3> QED
      BY <2>1, <3>4
  <2> QED
    BY <2>2, <2>3
<1>2. DOMAIN s = 1 .. Len(s) /\ Len(s) \in Nat /\ s \in [1 .. Len(s) -> Int]
  OBVIOUS
<1>3. PICK p : Sorts(p, s, Len(s))
  BY <1>1, <1>2
<1>4. p \in Bijection(DOMAIN s, DOMAIN s)
  BY <1>2, <1>3 DEF Sorts, Bijection, Injection, Surjection, IsInjective
<1> QED
  BY <1>2, <1>3, <1>4 DEF Sorts

-----------------------------------------------------------------------------
(* Sequences that differ in nothing but the order of their elements. *)

Permutes(p, D) ==
  /\ p \in [D -> D]
  /\ \A i, j \in D : p[i] = p[j] => i = j
  /\ \A k \in D : \E i \in D : p[i] = k

Rearranges(t, s) ==
  \E p : Permutes(p, DOMAIN s) /\ t = [i \in DOMAIN s |-> s[p[i]]]

\* How many elements do not exceed v.
NotAbove(s, v) == {i \in DOMAIN s : s[i] <= v}

LEMMA RearrangedSeq ==
  ASSUME NEW S, NEW s \in Seq(S), NEW t, Rearranges(t, s)
  PROVE  /\ t \in Seq(S) /\ Len(t) = Len(s) /\ DOMAIN t = DOMAIN s
         /\ Range(t) = Range(s)
<1>1. PICK p : Permutes(p, DOMAIN s) /\ t = [i \in DOMAIN s |-> s[p[i]]]
  BY DEF Rearranges
<1>2. /\ DOMAIN s = 1 .. Len(s) /\ Len(s) \in Nat
      /\ \A i \in DOMAIN s : s[i] \in S
  OBVIOUS
<1>3. DOMAIN t = DOMAIN s /\ \A i \in DOMAIN s : t[i] = s[p[i]] /\ p[i] \in DOMAIN s
  BY <1>1 DEF Permutes
<1>4. t \in Seq(S) /\ Len(t) = Len(s)
  BY <1>1, <1>2, <1>3
<1>5. Range(t) = Range(s)
  <2>1. \A i \in DOMAIN s : \E j \in DOMAIN s : t[j] = s[i]
    BY <1>1, <1>3 DEF Permutes
  <2>2. \A x : x \in Range(t) <=> \E i \in DOMAIN s : x = t[i]
    BY <1>3 DEF Range
  <2>3. \A x : x \in Range(s) <=> \E i \in DOMAIN s : x = s[i]
    BY DEF Range
  <2>4. \A x : x \in Range(t) <=> x \in Range(s)
    <3>1. \A i \in DOMAIN s : \E j \in DOMAIN s : s[j] = t[i]
      BY <1>3
    <3> QED
      BY <2>1, <2>2, <2>3, <3>1, Zenon
  <2> QED
    BY <2>4
<1> QED
  BY <1>3, <1>4, <1>5

LEMMA RearrangesItself ==
  ASSUME NEW S, NEW s \in Seq(S)
  PROVE  Rearranges(s, s)
<1> DEFINE p == [i \in DOMAIN s |-> i]
<1>1. Permutes(p, DOMAIN s)
  BY DEF Permutes
<1>2. s = [i \in DOMAIN s |-> s[p[i]]]
  OBVIOUS
<1> QED
  BY <1>1, <1>2 DEF Rearranges

LEMMA RearrangesOn ==
  ASSUME NEW s, NEW t, NEW u, Rearranges(t, s), Rearranges(u, t)
  PROVE  Rearranges(u, s)
<1>1. PICK p : Permutes(p, DOMAIN s) /\ t = [i \in DOMAIN s |-> s[p[i]]]
  BY DEF Rearranges
<1>2. PICK q : Permutes(q, DOMAIN t) /\ u = [i \in DOMAIN t |-> t[q[i]]]
  BY DEF Rearranges
<1> DEFINE r == [i \in DOMAIN s |-> p[q[i]]]
<1>3. DOMAIN t = DOMAIN s
  BY <1>1
<1>4. Permutes(r, DOMAIN s)
  <2>1. r \in [DOMAIN s -> DOMAIN s]
    BY <1>1, <1>2, <1>3 DEF Permutes
  <2>2. \A i, j \in DOMAIN s : r[i] = r[j] => i = j
    BY <1>1, <1>2, <1>3 DEF Permutes
  <2>3. ASSUME NEW k \in DOMAIN s
        PROVE  \E i \in DOMAIN s : r[i] = k
    <3>1. PICK j \in DOMAIN s : p[j] = k
      BY <1>1 DEF Permutes
    <3>2. PICK i \in DOMAIN s : q[i] = j
      BY <1>2, <1>3 DEF Permutes
    <3> QED
      BY <3>1, <3>2
  <2> HIDE DEF r
  <2> QED
    BY <2>1, <2>2, <2>3 DEF Permutes
<1>5. u = [i \in DOMAIN s |-> s[r[i]]]
  <2>1. \A i \in DOMAIN s : u[i] = s[r[i]]
    BY <1>1, <1>2, <1>3 DEF Permutes
  <2> HIDE DEF r
  <2> QED
    BY <1>2, <1>3, <2>1
<1> HIDE DEF r
<1> QED
  BY <1>4, <1>5 DEF Rearranges

LEMMA RearrangesAppended ==
  ASSUME NEW S, NEW s \in Seq(S), NEW t, Rearranges(t, s), NEW x \in S
  PROVE  Rearranges(Append(t, x), Append(s, x))
<1>1. PICK p : Permutes(p, DOMAIN s) /\ t = [i \in DOMAIN s |-> s[p[i]]]
  BY DEF Rearranges
<1> DEFINE n == Len(s)
           q == [i \in 1 .. (n + 1) |-> IF i = n + 1 THEN n + 1 ELSE p[i]]
           sx == Append(s, x)
           tx == Append(t, x)
<1>2. /\ t \in Seq(S) /\ Len(t) = n /\ n \in Nat /\ DOMAIN s = 1 .. n
      /\ \A i \in 1 .. n : t[i] = s[p[i]] /\ p[i] \in 1 .. n
  BY <1>1, RearrangedSeq DEF Permutes
<1>3. /\ DOMAIN sx = 1 .. (n + 1) /\ DOMAIN tx = 1 .. (n + 1)
      /\ sx[n + 1] = x /\ tx[n + 1] = x
      /\ \A i \in 1 .. n : sx[i] = s[i] /\ tx[i] = t[i]
      /\ tx = [i \in 1 .. (n + 1) |-> tx[i]]
  <2>1. /\ sx \in Seq(S) /\ Len(sx) = n + 1 /\ sx[n + 1] = x
        /\ \A i \in 1 .. n : sx[i] = s[i]
    BY AppendProperties
  <2>2. /\ tx \in Seq(S) /\ Len(tx) = n + 1 /\ tx[n + 1] = x
        /\ \A i \in 1 .. n : tx[i] = t[i]
    BY <1>2, AppendProperties
  <2> HIDE DEF sx, tx, n
  <2>3. DOMAIN sx = 1 .. (n + 1) /\ DOMAIN tx = 1 .. (n + 1)
    BY <2>1, <2>2
  <2>4. tx = [i \in DOMAIN tx |-> tx[i]]
    BY <2>2
  <2> QED
    BY <2>1, <2>2, <2>3, <2>4
<1>4. \A i \in 1 .. (n + 1) : i = n + 1 \/ (i \in 1 .. n /\ i # n + 1)
  BY <1>2
<1>5. /\ q[n + 1] = n + 1 /\ \A i \in 1 .. n : q[i] = p[i] /\ q[i] # n + 1
      /\ q \in [1 .. (n + 1) -> 1 .. (n + 1)]
  BY <1>2, <1>4
<1> HIDE DEF n, q, sx, tx
<1>6. Permutes(q, 1 .. (n + 1))
  <2>1. \A i, j \in 1 .. (n + 1) : q[i] = q[j] => i = j
    <3>1. \A i, j \in 1 .. n : p[i] = p[j] => i = j
      BY <1>1, <1>2 DEF Permutes
    <3> QED
      BY <1>4, <1>5, <3>1
  <2>2. ASSUME NEW k \in 1 .. (n + 1)
        PROVE  \E i \in 1 .. (n + 1) : q[i] = k
    <3>1. CASE k = n + 1
      BY <1>5, <3>1
    <3>2. CASE k \in 1 .. n
      <4>1. PICK i \in 1 .. n : p[i] = k
        BY <1>1, <1>2, <3>2 DEF Permutes
      <4> QED
        BY <1>2, <1>5, <4>1
    <3> QED
      BY <1>4, <3>1, <3>2
  <2> QED
    BY <1>5, <2>1, <2>2 DEF Permutes
<1>7. \A i \in 1 .. (n + 1) : tx[i] = sx[q[i]]
  <2> SUFFICES ASSUME NEW i \in 1 .. (n + 1) PROVE tx[i] = sx[q[i]]
    OBVIOUS
  <2>1. CASE i = n + 1
    BY <1>3, <1>5, <2>1
  <2>2. CASE i \in 1 .. n
    <3>1. tx[i] = t[i] /\ q[i] = p[i] /\ p[i] \in 1 .. n
      BY <1>2, <1>3, <1>5, <2>2
    <3> QED
      BY <1>2, <1>3, <2>2, <3>1
  <2> QED
    BY <1>4, <2>1, <2>2
<1>8. tx = [i \in DOMAIN sx |-> sx[q[i]]]
  BY <1>3, <1>7
<1> QED
  BY <1>3, <1>6, <1>8 DEF Rearranges, sx, tx

(***************************************************************************)
(* As many of their elements do not exceed a value.                        *)
(***************************************************************************)
LEMMA RearrangedShare ==
  ASSUME NEW S, NEW s \in Seq(S), NEW t, Rearranges(t, s), NEW v
  PROVE  /\ IsFiniteSet(NotAbove(t, v)) /\ Cardinality(NotAbove(t, v)) \in Nat
         /\ Cardinality(NotAbove(t, v)) = Cardinality(NotAbove(s, v))
<1>1. PICK p : Permutes(p, DOMAIN s) /\ t = [i \in DOMAIN s |-> s[p[i]]]
  BY DEF Rearranges
<1>2. IsFiniteSet(DOMAIN s) /\ DOMAIN t = DOMAIN s
  <2>1. DOMAIN s = 1 .. Len(s) /\ Len(s) \in Nat
    OBVIOUS
  <2> QED
    BY <1>1, <2>1, FS_Interval
<1> DEFINE A == NotAbove(t, v)
           B == NotAbove(s, v)
           f == [i \in A |-> p[i]]
<1>3. IsFiniteSet(A)
  <2>1. A \in SUBSET DOMAIN s
    BY <1>2 DEF NotAbove
  <2> QED
    BY <1>2, <2>1, FS_Subset
<1>4. \A i \in DOMAIN s : i \in A <=> p[i] \in B
  BY <1>1 DEF Permutes, NotAbove
<1>5. A \subseteq DOMAIN s /\ B \subseteq DOMAIN s
  BY <1>2 DEF NotAbove
<1> HIDE DEF A, B
<1>6. f \in Bijection(A, B)
  <2>1. f \in [A -> B]
    BY <1>4, <1>5
  <2>2. \A i, j \in A : f[i] = f[j] => i = j
    BY <1>1, <1>5 DEF Permutes
  <2>3. \A k \in B : \E i \in A : f[i] = k
    BY <1>1, <1>4, <1>5 DEF Permutes
  <2> HIDE DEF f
  <2> QED
    BY <2>1, <2>2, <2>3 DEF Bijection, Injection, Surjection, IsInjective
<1>7. Cardinality(A) = Cardinality(B)
  BY <1>3, <1>6, FS_Bijection DEF ExistsBijection
<1> QED
  BY <1>3, <1>7, FS_CardinalityType DEF A, B
=============================================================================
