------------------------------ MODULE LoopProofs ------------------------------
(***************************************************************************)
(* What the loops of the models compute, for the other proof modules: a    *)
(* sum (SumFunction), and the sequence of what a loop keeps of another.    *)
(* Both are recursive functions.  Nothing says by itself that there is     *)
(* such a function; that, and every law, is shown from a least             *)
(* counterexample (LeastSet, LeastNumber), as strict inclusion is well     *)
(* founded on the subsets of a finite set, and < on the numbers.           *)
(***************************************************************************)
EXTENDS Functions, FiniteSetTheorems, SequenceTheorems, TLAPS

-----------------------------------------------------------------------------
(* Sums. *)

\* The element a fold takes next.
Pick(s) == CHOOSE x \in s : TRUE

\* g gives each subset of S the sum of its weights.
Sums(w, S, g) ==
    g = [s \in SUBSET S |-> IF s = {} THEN 0 ELSE w[Pick(s)] + g[s \ {Pick(s)}]]

TheSums(w, S) == CHOOSE g : Sums(w, S, g)

\* The library's fold is such a function, if there is one.
LEMMA SumUnfolded ==
    ASSUME NEW w, NEW S
    PROVE  SumFunctionOnSet(w, S) = TheSums(w, S)[S]
  BY DEF SumFunctionOnSet, FoldFunctionOnSet, MapThenFoldSet, TheSums, Sums, Pick

\* Of any sets of elements of a finite set one has no other inside it.
LEMMA LeastSet ==
    ASSUME NEW S, IsFiniteSet(S), NEW T \in SUBSET SUBSET S, T # {}
    PROVE  \E U \in T : \A V \in T : ~(V \subseteq U /\ V # U)
<1>1. IsWellFoundedOn(StrictSubsetOrdering(S), SUBSET S)
  BY FS_StrictSubsetOrderingWellFounded, FS_FiniteSubsetsOfFinite
<1>2. \E U \in T : \A V \in T : ~(<<V, U>> \in StrictSubsetOrdering(S))
  BY <1>1, WFMin
<1> QED  BY <1>2 DEF StrictSubsetOrdering

\* Two such functions agree wherever both are defined.
LEMMA SumsAgree ==
    ASSUME NEW w, NEW S, IsFiniteSet(S), NEW T \in SUBSET S,
           NEW g, NEW h, Sums(w, S, g), Sums(w, T, h)
    PROVE  g[T] = h[T]
<1> DEFINE Bad == {U \in SUBSET T : g[U] # h[U]}
<1>1. SUFFICES ASSUME Bad # {} PROVE FALSE
  OBVIOUS
<1>2. Bad \in SUBSET SUBSET S
  OBVIOUS
<1>3. PICK U \in Bad : \A V \in Bad : ~(V \subseteq U /\ V # U)
  <2> HIDE DEF Bad
  <2> QED  BY <1>1, <1>2, LeastSet
<1>4. U \in SUBSET S /\ U \in SUBSET T /\ g[U] # h[U]
  BY <1>3
<1>5. U # {}
  BY <1>4 DEF Sums
<1> DEFINE x == Pick(U)
<1>6. x \in U
  BY <1>5 DEF Pick
<1>7. g[U] = w[x] + g[U \ {x}] /\ h[U] = w[x] + h[U \ {x}]
  BY <1>4, <1>5 DEF Sums
<1>8. U \ {x} \notin Bad
  BY <1>3, <1>6
<1>9. g[U \ {x}] = h[U \ {x}]
  BY <1>4, <1>8
<1> QED  BY <1>4, <1>7, <1>9

\* There is such a function.
LEMMA SumsExist ==
    ASSUME NEW w, NEW S, IsFiniteSet(S)
    PROVE  \E g : Sums(w, S, g)
<1> DEFINE Bad == {U \in SUBSET S : ~ \E g : Sums(w, U, g)}
<1>1. SUFFICES ASSUME Bad # {} PROVE FALSE
  OBVIOUS
<1>2. Bad \in SUBSET SUBSET S
  OBVIOUS
<1>3. PICK U \in Bad : \A V \in Bad : ~(V \subseteq U /\ V # U)
  <2> HIDE DEF Bad
  <2> QED  BY <1>1, <1>2, LeastSet
<1>4. U \in SUBSET S /\ ~ \E g : Sums(w, U, g)
  BY <1>3
<1>5. \A V \in SUBSET U : V # U => Sums(w, V, TheSums(w, V))
  BY <1>3, <1>4 DEF TheSums
<1> DEFINE value(V) == IF V = {} THEN 0
                       ELSE w[Pick(V)] + TheSums(w, V \ {Pick(V)})[V \ {Pick(V)}]
           f == [V \in SUBSET U |-> value(V)]
<1>6. ASSUME NEW V \in SUBSET U, V # U PROVE value(V) = TheSums(w, V)[V]
  <2>1. Sums(w, V, TheSums(w, V))
    BY <1>5, <1>6
  <2>2. CASE V = {}
    BY <2>1, <2>2 DEF Sums
  <2>3. CASE V # {}
    <3> DEFINE R == V \ {Pick(V)}
    <3>1. Pick(V) \in V
      BY <2>3 DEF Pick
    <3>2. R \in SUBSET U /\ R # U /\ R \in SUBSET V
      BY <3>1
    <3>3. Sums(w, R, TheSums(w, R))
      BY <1>5, <3>2
    <3>4. IsFiniteSet(V)
      BY <1>4, FS_Subset
    <3>5. TheSums(w, V)[R] = TheSums(w, R)[R]
      BY <2>1, <3>2, <3>3, <3>4, SumsAgree
    <3>6. TheSums(w, V)[V] = w[Pick(V)] + TheSums(w, V)[R]
      BY <2>1, <2>3 DEF Sums
    <3> QED  BY <2>3, <3>5, <3>6
  <2> QED  BY <2>2, <2>3
<1>7. ASSUME NEW V \in SUBSET U
      PROVE  f[V] = IF V = {} THEN 0 ELSE w[Pick(V)] + f[V \ {Pick(V)}]
  <2>1. CASE V = {}
    BY <2>1
  <2>2. CASE V # {}
    <3>1. Pick(V) \in V
      BY <2>2 DEF Pick
    <3>2. V \ {Pick(V)} \in SUBSET U /\ V \ {Pick(V)} # U
      BY <3>1
    <3>3. value(V \ {Pick(V)}) = TheSums(w, V \ {Pick(V)})[V \ {Pick(V)}]
      BY <1>6, <3>2
    <3>4. f[V \ {Pick(V)}] = value(V \ {Pick(V)}) /\ f[V] = value(V)
      BY <3>2
    <3> QED  BY <2>2, <3>3, <3>4
  <2> QED  BY <2>1, <2>2
<1>8. Sums(w, U, f)
  <2> HIDE DEF value
  <2>1. f = [V \in SUBSET U |-> f[V]]
    OBVIOUS
  <2> HIDE DEF f
  <2>2. [V \in SUBSET U |-> f[V]] =
        [V \in SUBSET U |-> IF V = {} THEN 0 ELSE w[Pick(V)] + f[V \ {Pick(V)}]]
    BY <1>7
  <2> QED  BY <2>1, <2>2 DEF Sums
<1> QED  BY <1>4, <1>8

\* The sum over no element.
LEMMA SumEmpty ==
    ASSUME NEW w
    PROVE  SumFunctionOnSet(w, {}) = 0
<1>1. Sums(w, {}, TheSums(w, {}))
  BY SumsExist, FS_EmptySet DEF TheSums
<1> QED  BY <1>1, SumUnfolded DEF Sums

\* The sum is what is picked and the sum over the rest.
LEMMA SumPick ==
    ASSUME NEW w, NEW S, IsFiniteSet(S), S # {}
    PROVE  /\ Pick(S) \in S
           /\ SumFunctionOnSet(w, S) = w[Pick(S)] + SumFunctionOnSet(w, S \ {Pick(S)})
<1> DEFINE R == S \ {Pick(S)}
<1>1. IsFiniteSet(R)
  BY FS_Subset
<1>2. Sums(w, S, TheSums(w, S)) /\ Sums(w, R, TheSums(w, R))
  BY <1>1, SumsExist DEF TheSums
<1>3. TheSums(w, S)[R] = TheSums(w, R)[R]
  BY <1>2, SumsAgree
<1>4. TheSums(w, S)[S] = w[Pick(S)] + TheSums(w, S)[R]
  BY <1>2 DEF Sums
<1>5. Pick(S) \in S
  BY DEF Pick
<1> QED  BY <1>3, <1>4, <1>5, SumUnfolded

\* A sum of naturals is a natural.
LEMMA SumType ==
    ASSUME NEW S, IsFiniteSet(S), NEW w, \A x \in S : w[x] \in Nat
    PROVE  SumFunctionOnSet(w, S) \in Nat
<1> DEFINE Bad == {U \in SUBSET S : SumFunctionOnSet(w, U) \notin Nat}
<1>1. SUFFICES ASSUME Bad # {} PROVE FALSE
  OBVIOUS
<1>2. PICK U \in Bad : \A V \in Bad : ~(V \subseteq U /\ V # U)
  <2>1. Bad \in SUBSET SUBSET S
    OBVIOUS
  <2> HIDE DEF Bad
  <2> QED  BY <1>1, <2>1, LeastSet
<1>3. U \in SUBSET S /\ SumFunctionOnSet(w, U) \notin Nat
  BY <1>2
<1>4. U # {}
  BY <1>3, SumEmpty
<1>5. IsFiniteSet(U)
  BY <1>3, FS_Subset
<1>6. /\ Pick(U) \in U
      /\ SumFunctionOnSet(w, U) = w[Pick(U)] + SumFunctionOnSet(w, U \ {Pick(U)})
  BY <1>4, <1>5, SumPick
<1>7. U \ {Pick(U)} \notin Bad
  BY <1>2, <1>6
<1>8. SumFunctionOnSet(w, U \ {Pick(U)}) \in Nat
  BY <1>3, <1>7
<1> QED  BY <1>3, <1>6, <1>8

\* Any element can be taken out of a sum.
LEMMA SumTake ==
    ASSUME NEW S, IsFiniteSet(S), NEW w, \A y \in S : w[y] \in Nat, NEW x \in S
    PROVE  SumFunctionOnSet(w, S) = w[x] + SumFunctionOnSet(w, S \ {x})
<1> DEFINE Wrong(U, y) == SumFunctionOnSet(w, U) # w[y] + SumFunctionOnSet(w, U \ {y})
           Bad == {U \in SUBSET S : \E y \in U : Wrong(U, y)}
<1>1. SUFFICES ASSUME Bad # {} PROVE FALSE
  OBVIOUS
<1>2. PICK U \in Bad : \A V \in Bad : ~(V \subseteq U /\ V # U)
  <2>1. Bad \in SUBSET SUBSET S
    OBVIOUS
  <2> HIDE DEF Bad
  <2> QED  BY <1>1, <2>1, LeastSet
<1>3. U \in SUBSET S /\ \E y \in U : Wrong(U, y)
  BY <1>2
<1>4. PICK y \in U : Wrong(U, y)
  BY <1>3
<1>5. IsFiniteSet(U)
  BY <1>3, FS_Subset
<1> DEFINE p == Pick(U)
           total(V) == SumFunctionOnSet(w, V)
<1>6. p \in U /\ total(U) = w[p] + total(U \ {p})
  BY <1>5, SumPick
<1>7. p # y
  BY <1>4, <1>6
<1>8. U \ {p} \notin Bad /\ U \ {y} \notin Bad
  BY <1>2, <1>6
<1>9. total(U \ {p}) = w[y] + total((U \ {p}) \ {y})
  <2>1. y \in U \ {p} /\ U \ {p} \in SUBSET S
    BY <1>3, <1>7
  <2> QED  BY <1>8, <2>1
<1>10. total(U \ {y}) = w[p] + total((U \ {y}) \ {p})
  <2>1. p \in U \ {y} /\ U \ {y} \in SUBSET S
    BY <1>3, <1>6, <1>7
  <2> QED  BY <1>8, <2>1
<1>11. (U \ {p}) \ {y} = (U \ {y}) \ {p}
  OBVIOUS
<1>12. IsFiniteSet((U \ {y}) \ {p})
  BY <1>5, FS_Subset
<1>13. total((U \ {y}) \ {p}) \in Nat /\ w[p] \in Nat /\ w[y] \in Nat
  BY <1>3, <1>6, <1>12, SumType
<1>14. total(U) = w[y] + total(U \ {y})
  <2> HIDE DEF total, p
  <2> QED  BY <1>6, <1>9, <1>10, <1>11, <1>13
<1> QED  BY <1>4, <1>14

\* A new element adds its weight.
LEMMA SumAdd ==
    ASSUME NEW S, IsFiniteSet(S), NEW x, x \notin S,
           NEW w, \A y \in S \cup {x} : w[y] \in Nat
    PROVE  SumFunctionOnSet(w, S \cup {x}) = SumFunctionOnSet(w, S) + w[x]
<1>1. IsFiniteSet(S \cup {x}) /\ (S \cup {x}) \ {x} = S
  BY FS_AddElement
<1>2. SumFunctionOnSet(w, S \cup {x}) = w[x] + SumFunctionOnSet(w, S)
  <2>1. SumFunctionOnSet(w, S \cup {x}) = w[x] + SumFunctionOnSet(w, (S \cup {x}) \ {x})
    BY <1>1, SumTake
  <2> QED  BY <1>1, <2>1
<1>3. SumFunctionOnSet(w, S) \in Nat /\ w[x] \in Nat
  BY SumType
<1> QED  BY <1>2, <1>3

\* A sum depends on the weights of its elements only.
LEMMA SumSame ==
    ASSUME NEW S, IsFiniteSet(S), NEW v, NEW w, \A x \in S : v[x] = w[x]
    PROVE  SumFunctionOnSet(v, S) = SumFunctionOnSet(w, S)
<1> DEFINE Bad == {U \in SUBSET S : SumFunctionOnSet(v, U) # SumFunctionOnSet(w, U)}
<1>1. SUFFICES ASSUME Bad # {} PROVE FALSE
  OBVIOUS
<1>2. PICK U \in Bad : \A V \in Bad : ~(V \subseteq U /\ V # U)
  <2>1. Bad \in SUBSET SUBSET S
    OBVIOUS
  <2> HIDE DEF Bad
  <2> QED  BY <1>1, <2>1, LeastSet
<1>3. U \in SUBSET S /\ SumFunctionOnSet(v, U) # SumFunctionOnSet(w, U)
  BY <1>2
<1>4. U # {}
  BY <1>3, SumEmpty
<1>5. IsFiniteSet(U)
  BY <1>3, FS_Subset
<1>6. /\ Pick(U) \in U
      /\ SumFunctionOnSet(v, U) = v[Pick(U)] + SumFunctionOnSet(v, U \ {Pick(U)})
      /\ SumFunctionOnSet(w, U) = w[Pick(U)] + SumFunctionOnSet(w, U \ {Pick(U)})
  BY <1>4, <1>5, SumPick
<1>7. U \ {Pick(U)} \notin Bad
  BY <1>2, <1>6
<1> QED  BY <1>3, <1>6, <1>7
\* Elements of no weight can be left out.
LEMMA SumOfRest ==
    ASSUME NEW S, IsFiniteSet(S), NEW T, NEW w,
           \A x \in S : w[x] \in Nat /\ (x \notin T => w[x] = 0)
    PROVE  SumFunctionOnSet(w, S) = SumFunctionOnSet(w, S \cap T)
<1> DEFINE Bad == {U \in SUBSET S :
                      SumFunctionOnSet(w, U) # SumFunctionOnSet(w, U \cap T)}
<1>1. SUFFICES ASSUME Bad # {} PROVE FALSE
  OBVIOUS
<1>2. PICK U \in Bad : \A V \in Bad : ~(V \subseteq U /\ V # U)
  <2>1. Bad \in SUBSET SUBSET S
    OBVIOUS
  <2> HIDE DEF Bad
  <2> QED  BY <1>1, <2>1, LeastSet
<1>3. U \in SUBSET S /\ SumFunctionOnSet(w, U) # SumFunctionOnSet(w, U \cap T)
  BY <1>2
<1>4. PICK x \in U : x \notin T
  <2>1. ~(U \subseteq T)
    <3>1. U \subseteq T => U \cap T = U
      OBVIOUS
    <3> QED  BY <1>3, <3>1
  <2> QED  BY <2>1
<1>5. IsFiniteSet(U) /\ IsFiniteSet(U \ {x})
  BY <1>3, FS_Subset
<1>6. SumFunctionOnSet(w, U) = w[x] + SumFunctionOnSet(w, U \ {x})
  BY <1>3, <1>5, SumTake
<1>7. w[x] = 0 /\ SumFunctionOnSet(w, U \ {x}) \in Nat
  BY <1>3, <1>4, <1>5, SumType
<1>8. U \ {x} \notin Bad
  BY <1>2, <1>4
<1>9. SumFunctionOnSet(w, U \ {x}) = SumFunctionOnSet(w, (U \ {x}) \cap T)
  BY <1>3, <1>8
<1>10. (U \ {x}) \cap T = U \cap T
  BY <1>4
<1>11. SumFunctionOnSet(w, U) = SumFunctionOnSet(w, U \ {x})
  BY <1>6, <1>7
<1> QED  BY <1>3, <1>9, <1>10, <1>11
-----------------------------------------------------------------------------
(* The same of a function with its domain. *)

LEMMA TotalEmpty ==
    ASSUME NEW w, DOMAIN w = {}
    PROVE  SumFunction(w) = 0
  BY SumEmpty DEF SumFunction

LEMMA TotalType ==
    ASSUME NEW w, IsFiniteSet(DOMAIN w), \A x \in DOMAIN w : w[x] \in Nat
    PROVE  SumFunction(w) \in Nat
  BY SumType DEF SumFunction

LEMMA TotalSame ==
    ASSUME NEW v, NEW w, IsFiniteSet(DOMAIN w), DOMAIN v = DOMAIN w,
           \A x \in DOMAIN w : v[x] = w[x]
    PROVE  SumFunction(v) = SumFunction(w)
  BY SumSame DEF SumFunction

\* One more argument adds its value.
LEMMA TotalAdd ==
    ASSUME NEW v, IsFiniteSet(DOMAIN v), NEW x, x \notin DOMAIN v,
           NEW w, DOMAIN w = DOMAIN v \cup {x}, \A y \in DOMAIN w : w[y] \in Nat,
           \A y \in DOMAIN v : v[y] = w[y]
    PROVE  /\ SumFunction(w) = SumFunction(v) + w[x]
           /\ SumFunction(v) \in Nat /\ SumFunction(w) \in Nat
<1>1. SumFunctionOnSet(w, DOMAIN v \cup {x}) = SumFunctionOnSet(w, DOMAIN v) + w[x]
  BY SumAdd
<1>2. SumFunctionOnSet(v, DOMAIN v) = SumFunctionOnSet(w, DOMAIN v)
  BY SumSame
<1>3. SumFunction(v) \in Nat
  BY TotalType
<1> QED  BY <1>1, <1>2, <1>3 DEF SumFunction

-----------------------------------------------------------------------------
(* Loops that keep some of a sequence. *)

\* A set of numbers has a least one.
LEMMA LeastNumber ==
    ASSUME NEW T \in SUBSET Nat, T # {}
    PROVE  \E n \in T : \A m \in T : n <= m
<1>1. PICK n \in T : \A m \in T : ~(<<m, n>> \in OpToRel(<, Nat))
  BY NatLessThanWellFounded, WFMin
<1>2. \A m \in T : ~(m < n)
  BY <1>1 DEF OpToRel
<1> QED  BY <1>2

\* f gives each prefix of s, up to the n-th, what of it is in K.
Filters(s, K, n, f) ==
    f = [i \in 0 .. n |->
            IF i = 0 THEN <<>>
            ELSE IF s[i] \in K THEN Append(f[i - 1], s[i]) ELSE f[i - 1]]

LEMMA FilterExists ==
    ASSUME NEW s, NEW K, NEW n \in Nat
    PROVE  \E f : Filters(s, K, n, f)
<1> DEFINE Bad == {m \in Nat : ~ \E f : Filters(s, K, m, f)}
<1>1. SUFFICES ASSUME Bad # {} PROVE FALSE
  OBVIOUS
<1>2. PICK m \in Bad : \A k \in Bad : m <= k
  <2>1. Bad \in SUBSET Nat
    OBVIOUS
  <2> HIDE DEF Bad
  <2> QED  BY <1>1, <2>1, LeastNumber
<1>3. m \in Nat /\ ~ \E f : Filters(s, K, m, f)
  BY <1>2
<1>4. m # 0
  <2>1. Filters(s, K, 0, [i \in 0 .. 0 |-> <<>>])
    BY DEF Filters
  <2> QED  BY <1>3, <2>1
<1>5. m - 1 \in Nat /\ m - 1 \notin Bad
  BY <1>2, <1>3, <1>4
<1>6. PICK f : Filters(s, K, m - 1, f)
  BY <1>5
<1> DEFINE last == IF s[m] \in K THEN Append(f[m - 1], s[m]) ELSE f[m - 1]
           g == [i \in 0 .. m |-> IF i = m THEN last ELSE f[i]]
<1>7. ASSUME NEW i \in 0 .. m
      PROVE  g[i] = IF i = 0 THEN <<>>
                    ELSE IF s[i] \in K THEN Append(g[i - 1], s[i]) ELSE g[i - 1]
  <2>1. CASE i = m
    <3>1. g[i] = last /\ g[i - 1] = f[i - 1]
      BY <1>3, <1>4, <2>1
    <3> QED  BY <1>4, <2>1, <3>1
  <2>2. CASE i # m
    <3>1. i \in 0 .. m - 1 /\ (i # 0 => i - 1 \in 0 .. m)
      BY <1>3, <2>2
    <3>2. g[i] = f[i] /\ (i # 0 => g[i - 1] = f[i - 1])
      BY <1>3, <2>2, <3>1
    <3>3. f[i] = IF i = 0 THEN <<>>
                 ELSE IF s[i] \in K THEN Append(f[i - 1], s[i]) ELSE f[i - 1]
      BY <1>6, <3>1 DEF Filters
    <3> HIDE DEF g
    <3> QED  BY <3>2, <3>3
  <2> QED  BY <2>1, <2>2
<1>8. Filters(s, K, m, g)
  <2>1. g = [i \in 0 .. m |-> g[i]]
    OBVIOUS
  <2> HIDE DEF g
  <2> QED  BY <1>7, <2>1 DEF Filters
<1> QED  BY <1>3, <1>8

\* What is kept are elements, and no more than there are.
LEMMA FilterType ==
    ASSUME NEW S, NEW s \in Seq(S), NEW K, NEW f, Filters(s, K, Len(s), f)
    PROVE  f[Len(s)] \in Seq(S) /\ Len(f[Len(s)]) <= Len(s)
<1> DEFINE N == Len(s)
           Good(i) == f[i] \in Seq(S) /\ Len(f[i]) <= i
           Bad == {i \in 0 .. N : ~Good(i)}
<1>1. N \in Nat /\ Filters(s, K, N, f)
  BY LenProperties
<1> HIDE DEF N
<1>2. Bad = {}
  <2> SUFFICES ASSUME Bad # {} PROVE FALSE
    OBVIOUS
  <2>1. PICK i \in Bad : \A k \in Bad : i <= k
    <3>1. Bad \in SUBSET Nat
      BY <1>1
    <3> HIDE DEF Bad
    <3> QED  BY <3>1, LeastNumber
  <2>2. i \in 0 .. N /\ ~Good(i)
    BY <2>1
  <2>3. i # 0
    <3>1. f[0] = <<>>
      BY <1>1 DEF Filters
    <3>2. <<>> \in Seq(S) /\ Len(<<>>) = 0
      BY EmptySeq
    <3>3. Good(0)
      BY <3>1, <3>2
    <3> QED  BY <2>2, <3>3
  <2>4. i - 1 \in 0 .. N /\ i - 1 \notin Bad
    BY <1>1, <2>1, <2>2, <2>3
  <2>5. f[i - 1] \in Seq(S) /\ Len(f[i - 1]) <= i - 1
    BY <2>4
  <2>6. f[i] = IF s[i] \in K THEN Append(f[i - 1], s[i]) ELSE f[i - 1]
    BY <1>1, <2>2, <2>3 DEF Filters
  <2>7. s[i] \in S
    <3>1. i \in 1 .. Len(s)
      BY <1>1, <2>2, <2>3 DEF N
    <3> QED  BY <3>1, ElementOfSeq
  <2>8. f[i] \in Seq(S) /\ Len(f[i]) \in {Len(f[i - 1]), Len(f[i - 1]) + 1}
    BY <2>5, <2>6, <2>7, AppendProperties
  <2>9. Len(f[i]) <= i
    <3>1. Len(f[i - 1]) \in Nat /\ i \in Nat
      BY <1>1, <2>2, <2>5, LenProperties
    <3> QED  BY <2>5, <2>8, <3>1
  <2> QED  BY <2>2, <2>8, <2>9
<1>3. N \in 0 .. N
  BY <1>1
<1> QED  BY <1>2, <1>3 DEF N
-----------------------------------------------------------------------------
(* Folds of any kind. *)

\* g gives each subset of S what comes of taking its elements one by one.
Folds(S, base, step, pick, g) ==
    \A s \in SUBSET S :
        g[s] = IF s = {} THEN base ELSE step[<<pick[s], g[s \ {pick[s]}]>>]

FoldOf(S, V, base, step, pick) ==
    CHOOSE g \in [SUBSET S -> V] : Folds(S, base, step, pick, g)

\* The recursion of a fold over the subsets of a finite set, with the step as a
\* function, has a solution, built up by the size of the subsets.
LEMMA FoldExists ==
    ASSUME NEW S, IsFiniteSet(S), NEW V, NEW base \in V, NEW step \in [S \X V -> V],
           NEW pick, \A s \in SUBSET S : s # {} => pick[s] \in s
    PROVE  /\ FoldOf(S, V, base, step, pick) \in [SUBSET S -> V]
           /\ Folds(S, base, step, pick, FoldOf(S, V, base, step, pick))
<1> DEFINE Solves(g, s) ==
               g[s] = IF s = {} THEN base ELSE step[<<pick[s], g[s \ {pick[s]}]>>]
           UpTo(n) == {s \in SUBSET S : Cardinality(s) <= n}
           Bad == {n \in Nat : ~ \E g \in [SUBSET S -> V] : \A s \in UpTo(n) : Solves(g, s)}
<1>1. \A s \in SUBSET S : IsFiniteSet(s) /\ Cardinality(s) \in Nat
  BY FS_Subset, FS_CardinalityType
<1>2. ASSUME NEW s \in SUBSET S, s # {}
      PROVE  /\ pick[s] \in S /\ s \ {pick[s]} \in SUBSET S
             /\ Cardinality(s \ {pick[s]}) = Cardinality(s) - 1
             /\ Cardinality(s) # 0
  <2>1. pick[s] \in s
    BY <1>2
  <2> QED  BY <1>1, <2>1, FS_RemoveElement, FS_EmptySet
<1>3. Bad = {}
  <2> SUFFICES ASSUME Bad # {} PROVE FALSE
    OBVIOUS
  <2>1. PICK n \in Bad : \A m \in Bad : n <= m
    <3>1. Bad \in SUBSET Nat
      OBVIOUS
    <3> HIDE DEF Bad
    <3> QED  BY <3>1, LeastNumber
  <2>2. n \in Nat /\ ~ \E g \in [SUBSET S -> V] : \A s \in UpTo(n) : Solves(g, s)
    BY <2>1
  <2>3. \E f \in [SUBSET S -> V] : \A s \in SUBSET S : Cardinality(s) < n => Solves(f, s)
    <3>1. CASE n = 0
      <4> DEFINE f == [s \in SUBSET S |-> base]
      <4>1. f \in [SUBSET S -> V]
        OBVIOUS
      <4>2. \A s \in SUBSET S : ~(Cardinality(s) < n)
        BY <1>1, <3>1
      <4> HIDE DEF f
      <4> QED  BY <4>1, <4>2
    <3>2. CASE n # 0
      <4>1. n - 1 \in Nat
        BY <2>2, <3>2
      <4>2. n - 1 \notin Bad
        <5>1. ~(n <= n - 1)
          BY <2>2
        <5> HIDE DEF Bad
        <5> QED  BY <2>1, <5>1
      <4>3. PICK f \in [SUBSET S -> V] : \A s \in UpTo(n - 1) : Solves(f, s)
        BY <4>1, <4>2
      <4>4. \A s \in SUBSET S : Cardinality(s) < n => s \in UpTo(n - 1)
        BY <1>1, <2>2
      <4> HIDE DEF UpTo, Solves
      <4> QED  BY <4>3, <4>4
    <3> QED  BY <3>1, <3>2
  <2>4. PICK f \in [SUBSET S -> V] : \A s \in SUBSET S : Cardinality(s) < n => Solves(f, s)
    BY <2>3
  <2> DEFINE value(s) == IF s = {} THEN base ELSE step[<<pick[s], f[s \ {pick[s]}]>>]
             g == [s \in SUBSET S |-> value(s)]
  <2>5. g \in [SUBSET S -> V]
    <3>1. ASSUME NEW s \in SUBSET S PROVE value(s) \in V
      <4>1. CASE s = {}
        BY <4>1
      <4>2. CASE s # {}
        <5>1. <<pick[s], f[s \ {pick[s]}]>> \in S \X V
          BY <1>2, <4>2
        <5> QED  BY <4>2, <5>1
      <4> QED  BY <4>1, <4>2
    <3> HIDE DEF value
    <3> QED  BY <3>1
  <2>6. \A s \in SUBSET S : g[s] = value(s)
    OBVIOUS
  <2>7. \A s \in SUBSET S : Cardinality(s) < n => g[s] = f[s]
    BY <2>4, <2>6
  <2>8. ASSUME NEW s \in UpTo(n) PROVE Solves(g, s)
    <3>0. s \in SUBSET S /\ Cardinality(s) <= n /\ g[s] = value(s)
      BY <2>6
    <3>1. CASE s = {}
      BY <3>0, <3>1
    <3>2. CASE s # {}
      <4> DEFINE r == s \ {pick[s]}
      <4>1. r \in SUBSET S /\ Cardinality(r) < n
        BY <1>1, <1>2, <2>2, <3>0, <3>2
      <4>2. g[r] = f[r]
        BY <2>7, <4>1
      <4> HIDE DEF g
      <4> QED  BY <3>0, <3>2, <4>2
    <3> QED  BY <3>1, <3>2
  <2> HIDE DEF g, Solves, UpTo
  <2> QED  BY <2>2, <2>5, <2>8
<1>4. Cardinality(S) \in Nat /\ Cardinality(S) \notin Bad
  BY <1>1, <1>3
<1>5. PICK g \in [SUBSET S -> V] : \A s \in UpTo(Cardinality(S)) : Solves(g, s)
  BY <1>4
<1>6. \A s \in SUBSET S : s \in UpTo(Cardinality(S))
  BY FS_Subset
<1>7. Folds(S, base, step, pick, g)
  BY <1>5, <1>6 DEF Folds
<1> QED  BY <1>7 DEF FoldOf
=============================================================================
