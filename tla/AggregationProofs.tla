--------------------------- MODULE AggregationProofs ---------------------------
(***************************************************************************)
(* Proofs about what costs adds up: the series of aggregate                *)
(* (SeriesAggregate) and the tiles and movers of fetchSummary              *)
(* (SummaryTotals), for any keys, services, amounts and bounds.            *)
(*                                                                         *)
(* Both rest on a theory of finite sums, which comes first; the library's  *)
(* folds have none, and its induction theorems cannot be used, so what     *)
(* holds for every sum is shown by a counterexample of least size.         *)
(***************************************************************************)
EXTENDS SeriesAggregate, SummaryTotals, FiniteSetTheorems, SequenceTheorems,
    TLAPS

-----------------------------------------------------------------------------
(***************************************************************************)
(* Sums.  The library adds up a function by a function on sets of indices  *)
(* that takes some index off.  Part is that function: it exists, does not  *)
(* depend on the order, and looks only at the indices it is asked for.     *)
(***************************************************************************)

PartStep(g, f, s) ==
    IF s = {} THEN 0
    ELSE f[CHOOSE x \in s : TRUE] + g[s \ {CHOOSE x \in s : TRUE}]

IsPart(g, f) == g = [s \in SUBSET DOMAIN f |-> PartStep(g, f, s)]

\* What f adds up to over the indices s.
Part(f, s) == (CHOOSE g : IsPart(g, f))[s]

LEMMA SumIsPart ==
    ASSUME NEW f
    PROVE  SumFunction(f) = Part(f, DOMAIN f)
BY DEF SumFunction, SumFunctionOnSet, FoldFunctionOnSet, MapThenFoldSet,
    Part, IsPart, PartStep

\* A set of naturals has a least element.
LEMMA LeastNat ==
    ASSUME NEW T, T \subseteq Nat, T # {}
    PROVE  \E x \in T : \A y \in T : x <= y
<1>1. IsWellFoundedOn(OpToRel(<, Nat), Nat)
    BY NatLessThanWellFounded
<1>2. PICK x \in T : \A y \in T : ~ (<<y, x>> \in OpToRel(<, Nat))
    BY <1>1, WFMin
<1>3. \A y \in T : ~ (y < x)
    BY <1>2 DEF OpToRel
<1>. QED
    BY <1>3

\* A collection of finite sets has a member of least size.
LEMMA SmallestSet ==
    ASSUME NEW C, C # {}, \A s \in C : IsFiniteSet(s)
    PROVE  \E s \in C : \A u \in C : Cardinality(s) <= Cardinality(u)
<1> DEFINE T == {Cardinality(s) : s \in C}
<1>1. T \subseteq Nat
    BY FS_CardinalityType
<1>2. T # {}
    <2>1. PICK s : s \in C
        OBVIOUS
    <2>2. Cardinality(s) \in T
        BY <2>1
    <2>. QED
        BY <2>2
<1>3. PICK n \in T : \A m \in T : n <= m
    BY <1>1, <1>2, LeastNat
<1>. QED
    BY <1>3

\* One element less.
LEMMA OneLess ==
    ASSUME NEW s, IsFiniteSet(s), NEW x \in s
    PROVE  /\ IsFiniteSet(s \ {x})
           /\ Cardinality(s) \in Nat
           /\ Cardinality(s \ {x}) = Cardinality(s) - 1
           /\ ~ (Cardinality(s) <= Cardinality(s \ {x}))
<1>1. IsFiniteSet(s \ {x}) /\ Cardinality(s) \in Nat
    BY FS_RemoveElement, FS_CardinalityType
<1>2. Cardinality(s \ {x}) = Cardinality(s) - 1
    BY FS_RemoveElement
<1>. QED
    BY <1>1, <1>2

\* Up to size n the function can be built,
Buildable(n, f) ==
    \E g : \A s \in SUBSET DOMAIN f :
        Cardinality(s) <= n => g[s] = PartStep(g, f, s)

LEMMA OneMoreIndex ==
    ASSUME NEW f, IsFiniteSet(DOMAIN f), NEW n \in Nat, Buildable(n, f)
    PROVE  Buildable(n + 1, f)
<1> DEFINE D == DOMAIN f
<1>1. PICK g : \A s \in SUBSET D :
                Cardinality(s) <= n => g[s] = PartStep(g, f, s)
    BY DEF Buildable
<1> DEFINE h == [s \in SUBSET D |->
                    IF Cardinality(s) <= n THEN g[s] ELSE PartStep(g, f, s)]
<1>2. ASSUME NEW s \in SUBSET D, Cardinality(s) <= n + 1
      PROVE  h[s] = PartStep(h, f, s)
    <2>1. h[s] = PartStep(g, f, s)
        BY <1>1
    <2>2. CASE s = {}
        BY <2>1, <2>2 DEF PartStep
    <2>3. CASE s # {}
        <3> DEFINE x == CHOOSE x \in s : TRUE
                   rest == s \ {x}
        <3>1. x \in s
            BY <2>3
        <3>2. IsFiniteSet(s)
            BY FS_Subset
        <3>3. Cardinality(rest) = Cardinality(s) - 1 /\ Cardinality(s) \in Nat
            BY <3>1, <3>2, OneLess
        <3>4. rest \in SUBSET D /\ Cardinality(rest) <= n
            BY <1>2, <3>3
        <3>5. h[rest] = g[rest]
            BY <3>4
        <3>. QED
            BY <2>1, <2>3, <3>5 DEF PartStep
    <2>. QED
        BY <2>2, <2>3
<1>. QED
    BY <1>2 DEF Buildable

\* and so it exists.
LEMMA PartExists ==
    ASSUME NEW f, IsFiniteSet(DOMAIN f)
    PROVE  \E g : IsPart(g, f)
<1> DEFINE D == DOMAIN f
           T == {n \in Nat : ~ Buildable(n, f)}
<1>1. /\ Cardinality(D) \in Nat
      /\ \A s \in SUBSET D :
            /\ IsFiniteSet(s)
            /\ Cardinality(s) \in Nat
            /\ Cardinality(s) <= Cardinality(D)
    BY FS_Subset, FS_CardinalityType
<1>2. Buildable(0, f)
    <2> DEFINE g == [s \in SUBSET D |-> 0]
    <2>1. \A s \in SUBSET D : Cardinality(s) <= 0 => s = {}
        BY <1>1, FS_EmptySet
    <2>2. \A s \in SUBSET D : Cardinality(s) <= 0 => g[s] = PartStep(g, f, s)
        BY <2>1 DEF PartStep
    <2>. QED
        BY <2>2 DEF Buildable
<1>3. T = {}
    <2> SUFFICES ASSUME T # {}
                 PROVE  FALSE
        OBVIOUS
    <2>1. PICK n \in T : \A y \in T : n <= y
        BY LeastNat
    <2>2. n # 0
        BY <1>2, <2>1
    <2>3. n - 1 \in Nat /\ n - 1 \notin T
        BY <2>1, <2>2
    <2>4. Buildable((n - 1) + 1, f)
        BY <2>3, OneMoreIndex
    <2>. QED
        BY <2>1, <2>4
<1>4. PICK g : \A s \in SUBSET D : g[s] = PartStep(g, f, s)
    BY <1>1, <1>3 DEF Buildable
<1> DEFINE h == [s \in SUBSET D |-> g[s]]
<1>5. \A s \in SUBSET D : h[s] = PartStep(h, f, s)
    BY <1>4 DEF PartStep
<1>6. IsPart(h, f)
    BY <1>5 DEF IsPart
<1>. QED
    BY <1>6

\* A function that can be added up.
Addable(f) ==
    /\ IsFiniteSet(DOMAIN f)
    /\ \A x \in DOMAIN f : f[x] \in Int

\* Some index taken off.
LEMMA PartUnfolds ==
    ASSUME NEW f, Addable(f), NEW s \in SUBSET DOMAIN f
    PROVE  /\ s = {} => Part(f, s) = 0
           /\ s # {} => \E x \in s : Part(f, s) = f[x] + Part(f, s \ {x})
<1> DEFINE g == CHOOSE g : IsPart(g, f)
<1>1. IsPart(g, f)
    BY PartExists DEF Addable
<1>2. g[s] = PartStep(g, f, s)
    BY <1>1 DEF IsPart
<1> HIDE DEF g
<1>3. s # {} => \E x \in s : g[s] = f[x] + g[s \ {x}]
    BY <1>2 DEF PartStep
<1>4. s = {} => g[s] = 0
    BY <1>2 DEF PartStep
<1>. QED
    BY <1>3, <1>4 DEF Part, g

LEMMA PartTyped ==
    ASSUME NEW f, Addable(f), NEW s \in SUBSET DOMAIN f
    PROVE  Part(f, s) \in Int
<1> DEFINE C == {u \in SUBSET DOMAIN f : Part(f, u) \notin Int}
<1>1. \A u \in SUBSET DOMAIN f : IsFiniteSet(u)
    BY FS_Subset DEF Addable
<1>2. C = {}
    <2> SUFFICES ASSUME C # {}
                 PROVE  FALSE
        OBVIOUS
    <2>1. PICK u \in C : \A v \in C : Cardinality(u) <= Cardinality(v)
        BY <1>1, SmallestSet
    <2>2. u # {}
        BY <2>1, PartUnfolds
    <2>3. PICK x \in u : Part(f, u) = f[x] + Part(f, u \ {x})
        BY <2>2, PartUnfolds
    <2>4. u \ {x} \notin C
        BY <1>1, <2>1, OneLess
    <2>5. f[x] \in Int /\ Part(f, u \ {x}) \in Int
        BY <2>4 DEF Addable
    <2>. QED
        BY <2>1, <2>3, <2>5
<1>. QED
    BY <1>2

\* Any index may be taken off first.
LEMMA PartTakesOff ==
    ASSUME NEW f, Addable(f), NEW s \in SUBSET DOMAIN f, NEW x \in s
    PROVE  Part(f, s) = f[x] + Part(f, s \ {x})
<1> DEFINE C == {u \in SUBSET DOMAIN f :
                    \E y \in u : Part(f, u) # f[y] + Part(f, u \ {y})}
<1>1. \A u \in SUBSET DOMAIN f : IsFiniteSet(u)
    BY FS_Subset DEF Addable
<1>2. C = {}
    <2> SUFFICES ASSUME C # {}
                 PROVE  FALSE
        OBVIOUS
    <2>1. PICK u \in C : \A v \in C : Cardinality(u) <= Cardinality(v)
        BY <1>1, SmallestSet
    <2>2. PICK y \in u : Part(f, u) # f[y] + Part(f, u \ {y})
        BY <2>1
    <2>3. PICK z \in u : Part(f, u) = f[z] + Part(f, u \ {z})
        BY <2>2, PartUnfolds
    <2>4. y # z
        BY <2>2, <2>3
    <2>5. u \ {y} \notin C /\ u \ {z} \notin C
        BY <1>1, <2>1, OneLess
    <2>6. /\ Part(f, u \ {z}) = f[y] + Part(f, (u \ {z}) \ {y})
          /\ Part(f, u \ {y}) = f[z] + Part(f, (u \ {y}) \ {z})
        BY <2>4, <2>5
    <2>7. (u \ {z}) \ {y} = (u \ {y}) \ {z}
        OBVIOUS
    <2>8. /\ f[y] \in Int /\ f[z] \in Int
          /\ Part(f, (u \ {y}) \ {z}) \in Int
        BY PartTyped DEF Addable
    <2>9. \A a, b, c \in Int : a + (b + c) = b + (a + c)
        OBVIOUS
    <2>10. Part(f, u) = f[z] + (f[y] + Part(f, (u \ {y}) \ {z}))
        BY <2>3, <2>6, <2>7
    <2>11. Part(f, u) = f[y] + (f[z] + Part(f, (u \ {y}) \ {z}))
        BY <2>8, <2>9, <2>10
    <2>. QED
        BY <2>2, <2>6, <2>11
<1>. QED
    BY <1>2

\* Only the indices asked for matter.
LEMMA PartLocal ==
    ASSUME NEW f, Addable(f), NEW g, Addable(g),
           NEW s \in SUBSET DOMAIN f, s \subseteq DOMAIN g,
           \A x \in s : f[x] = g[x]
    PROVE  Part(f, s) = Part(g, s)
<1> DEFINE C == {u \in SUBSET s : Part(f, u) # Part(g, u)}
<1>1. \A u \in SUBSET s : IsFiniteSet(u)
    BY FS_Subset DEF Addable
<1>2. C = {}
    <2> SUFFICES ASSUME C # {}
                 PROVE  FALSE
        OBVIOUS
    <2>1. PICK u \in C : \A v \in C : Cardinality(u) <= Cardinality(v)
        BY <1>1, SmallestSet
    <2>2. u \in SUBSET DOMAIN f /\ u \in SUBSET DOMAIN g
        BY <2>1
    <2>3. u # {}
        BY <2>1, <2>2, PartUnfolds
    <2>4. PICK x : x \in u
        BY <2>3
    <2>5. Part(f, u) = f[x] + Part(f, u \ {x})
        BY <2>2, <2>4, PartTakesOff
    <2>6. Part(g, u) = g[x] + Part(g, u \ {x})
        BY <2>2, <2>4, PartTakesOff
    <2>7. u \ {x} \notin C
        BY <1>1, <2>1, <2>4, OneLess
    <2>. QED
        BY <2>1, <2>4, <2>5, <2>6, <2>7
<1>. QED
    BY <1>2

-----------------------------------------------------------------------------
(* What follows for sums.                                                  *)

\* A sum is a number, and none of nothing.
LEMMA SumTyped ==
    ASSUME NEW f, Addable(f)
    PROVE  /\ SumFunction(f) \in Int
           /\ DOMAIN f = {} => SumFunction(f) = 0
BY SumIsPart, PartTyped, PartUnfolds

\* Functions that agree add up alike.
LEMMA SumSame ==
    ASSUME NEW f, Addable(f), NEW g, DOMAIN g = DOMAIN f,
           \A x \in DOMAIN f : f[x] = g[x]
    PROVE  SumFunction(f) = SumFunction(g)
<1>1. Addable(g)
    BY DEF Addable
<1>2. Part(f, DOMAIN f) = Part(g, DOMAIN f)
    BY <1>1, PartLocal
<1>. QED
    BY <1>2, SumIsPart

\* One index more.
LEMMA SumOneMore ==
    ASSUME NEW f, Addable(f), NEW x \in DOMAIN f, NEW g,
           DOMAIN g = DOMAIN f \ {x}, \A y \in DOMAIN g : f[y] = g[y]
    PROVE  SumFunction(f) = f[x] + SumFunction(g)
<1>1. Addable(g)
    BY FS_RemoveElement DEF Addable
<1>2. Part(f, DOMAIN f) = f[x] + Part(f, DOMAIN f \ {x})
    BY PartTakesOff
<1>3. Part(f, DOMAIN g) = Part(g, DOMAIN g)
    BY <1>1, PartLocal
<1>. QED
    BY <1>2, <1>3, SumIsPart

\* One value changed.
LEMMA SumChanged ==
    ASSUME NEW f, Addable(f), NEW g, Addable(g), DOMAIN g = DOMAIN f,
           NEW x \in DOMAIN f, \A y \in DOMAIN f \ {x} : f[y] = g[y]
    PROVE  SumFunction(g) = SumFunction(f) - f[x] + g[x]
<1> DEFINE h == [y \in DOMAIN f \ {x} |-> f[y]]
<1>1. Addable(h)
    BY FS_RemoveElement DEF Addable
<1>2. DOMAIN h = DOMAIN f \ {x} /\ \A y \in DOMAIN h : f[y] = h[y] /\ g[y] = h[y]
    OBVIOUS
<1> HIDE DEF h
<1>3. SumFunction(f) = f[x] + SumFunction(h)
    BY <1>2, SumOneMore
<1>4. SumFunction(g) = g[x] + SumFunction(h)
    BY <1>2, SumOneMore
<1>5. f[x] \in Int /\ g[x] \in Int /\ SumFunction(h) \in Int
    BY <1>1, SumTyped DEF Addable
<1>. QED
    BY <1>3, <1>4, <1>5

\* Nothing but zeros.
LEMMA SumOfZeros ==
    ASSUME NEW f, IsFiniteSet(DOMAIN f), \A x \in DOMAIN f : f[x] = 0
    PROVE  SumFunction(f) = 0
<1> DEFINE C == {u \in SUBSET DOMAIN f : Part(f, u) # 0}
<1>1. Addable(f) /\ \A u \in SUBSET DOMAIN f : IsFiniteSet(u)
    BY FS_Subset DEF Addable
<1>2. C = {}
    <2> SUFFICES ASSUME C # {}
                 PROVE  FALSE
        OBVIOUS
    <2>1. PICK u \in C : \A v \in C : Cardinality(u) <= Cardinality(v)
        BY <1>1, SmallestSet
    <2>2. u # {}
        BY <1>1, <2>1, PartUnfolds
    <2>3. PICK x \in u : Part(f, u) = f[x] + Part(f, u \ {x})
        BY <1>1, <2>2, PartUnfolds
    <2>4. u \ {x} \notin C
        BY <1>1, <2>1, OneLess
    <2>. QED
        BY <2>1, <2>3, <2>4
<1>. QED
    BY <1>2, SumIsPart

\* The same values under other names.
LEMMA SumRenamed ==
    ASSUME NEW f, Addable(f), NEW g, Addable(g), NEW p,
           DOMAIN p = DOMAIN g,
           \A x \in DOMAIN g : p[x] \in DOMAIN f /\ g[x] = f[p[x]],
           \A x, y \in DOMAIN g : p[x] = p[y] => x = y,
           \A z \in DOMAIN f : \E x \in DOMAIN g : p[x] = z
    PROVE  SumFunction(g) = SumFunction(f)
<1> DEFINE Image(u) == {p[x] : x \in u}
           C == {u \in SUBSET DOMAIN g : Part(g, u) # Part(f, Image(u))}
<1>1. \A u \in SUBSET DOMAIN g : IsFiniteSet(u)
    BY FS_Subset DEF Addable
<1>2. C = {}
    <2> SUFFICES ASSUME C # {}
                 PROVE  FALSE
        OBVIOUS
    <2>1. PICK u \in C : \A v \in C : Cardinality(u) <= Cardinality(v)
        BY <1>1, SmallestSet
    <2>2. CASE u = {}
        <3>1. Image(u) = {}
            BY <2>2
        <3>2. Part(g, {}) = 0 /\ Part(f, {}) = 0
            BY PartUnfolds
        <3>. QED
            BY <2>1, <2>2, <3>1, <3>2
    <2>3. CASE u # {}
        <3>1. PICK x : x \in u
            BY <2>3
        <3>2. x \in DOMAIN g /\ u \in SUBSET DOMAIN g
            BY <2>1, <3>1
        <3>3. Part(g, u) = g[x] + Part(g, u \ {x})
            BY <3>1, <3>2, PartTakesOff
        <3>4. Image(u) \in SUBSET DOMAIN f /\ p[x] \in Image(u)
            BY <3>1, <3>2
        <3>5. Part(f, Image(u)) = f[p[x]] + Part(f, Image(u) \ {p[x]})
            BY <3>4, PartTakesOff
        <3>6. Image(u) \ {p[x]} = Image(u \ {x})
            BY <3>1, <3>2
        <3>7. u \ {x} \notin C
            BY <1>1, <2>1, <3>1, OneLess
        <3>8. Part(g, u \ {x}) = Part(f, Image(u \ {x}))
            BY <3>2, <3>7
        <3>9. g[x] = f[p[x]]
            BY <3>2
        <3>. QED
            BY <2>1, <3>3, <3>5, <3>6, <3>8, <3>9
    <2>. QED
        BY <2>2, <2>3
<1>3. Image(DOMAIN g) = DOMAIN f
    OBVIOUS
<1>. QED
    BY <1>2, <1>3, SumIsPart

\* A sum taken in two parts.
LEMMA SumInParts ==
    ASSUME NEW f, Addable(f), NEW g, NEW h,
           DOMAIN f = DOMAIN g \cup DOMAIN h, DOMAIN g \cap DOMAIN h = {},
           \A x \in DOMAIN g : f[x] = g[x],
           \A x \in DOMAIN h : f[x] = h[x]
    PROVE  /\ Addable(g) /\ Addable(h)
           /\ SumFunction(f) = SumFunction(g) + SumFunction(h)
<1> DEFINE A == DOMAIN g
           C == {u \in SUBSET DOMAIN h : Part(f, A \cup u) # Part(f, A) + Part(f, u)}
<1>1. \A u \in SUBSET DOMAIN f : IsFiniteSet(u) /\ Part(f, u) \in Int
    BY FS_Subset, PartTyped DEF Addable
<1>2. Addable(g) /\ Addable(h)
    BY <1>1 DEF Addable
<1>3. C = {}
    <2> SUFFICES ASSUME C # {}
                 PROVE  FALSE
        OBVIOUS
    <2>1. PICK u \in C : \A v \in C : Cardinality(u) <= Cardinality(v)
        BY <1>1, SmallestSet
    <2>2. u # {}
        <3> SUFFICES ASSUME u = {}
                     PROVE  FALSE
            OBVIOUS
        <3>1. Part(f, {}) = 0 /\ A \cup {} = A /\ Part(f, A) \in Int
            BY <1>1, PartUnfolds
        <3>. QED
            BY <2>1, <3>1
    <2>3. PICK x : x \in u
        BY <2>2
    <2>4. /\ x \in DOMAIN h /\ x \notin A
          /\ u \in SUBSET DOMAIN f /\ A \cup u \in SUBSET DOMAIN f
          /\ u \ {x} \in SUBSET DOMAIN f
          /\ (A \cup u) \ {x} = A \cup (u \ {x})
        BY <2>1, <2>3
    <2>5. Part(f, u) = f[x] + Part(f, u \ {x})
        BY <2>3, <2>4, PartTakesOff
    <2>6. Part(f, A \cup u) = f[x] + Part(f, A \cup (u \ {x}))
        BY <2>3, <2>4, PartTakesOff
    <2>7. u \ {x} \notin C
        BY <1>1, <2>1, <2>3, <2>4, OneLess
    <2>8. Part(f, A \cup (u \ {x})) = Part(f, A) + Part(f, u \ {x})
        BY <2>1, <2>7
    <2>9. /\ Part(f, A) \in Int /\ Part(f, u \ {x}) \in Int /\ f[x] \in Int
        BY <1>1, <2>4 DEF Addable
    <2>10. \A a, b, c \in Int : a + (b + c) = b + (a + c)
        OBVIOUS
    <2>11. Part(f, A \cup u) = Part(f, A) + Part(f, u)
        BY <2>5, <2>6, <2>8, <2>9, <2>10
    <2>. QED
        BY <2>1, <2>11
<1>4. Part(f, A) = Part(g, A) /\ Part(f, DOMAIN h) = Part(h, DOMAIN h)
    BY <1>2, PartLocal
<1>. QED
    BY <1>2, <1>3, <1>4, SumIsPart

\* A sum of differences.
LEMMA SumOfDifferences ==
    ASSUME NEW f, Addable(f), NEW g, Addable(g), DOMAIN g = DOMAIN f,
           NEW h, DOMAIN h = DOMAIN f, \A x \in DOMAIN f : h[x] = f[x] - g[x]
    PROVE  Addable(h) /\ SumFunction(h) = SumFunction(f) - SumFunction(g)
<1> DEFINE D == DOMAIN f
           C == {u \in SUBSET D : Part(h, u) # Part(f, u) - Part(g, u)}
<1>1. \A x \in D : f[x] \in Int /\ g[x] \in Int /\ h[x] \in Int
    BY DEF Addable
<1>2. Addable(h)
    BY <1>1 DEF Addable
<1>3. \A u \in SUBSET D : IsFiniteSet(u)
    BY FS_Subset DEF Addable
<1>4. C = {}
    <2> SUFFICES ASSUME C # {}
                 PROVE  FALSE
        OBVIOUS
    <2>1. PICK u \in C : \A v \in C : Cardinality(u) <= Cardinality(v)
        BY <1>3, SmallestSet
    <2>2. u \in SUBSET DOMAIN f /\ u \in SUBSET DOMAIN g /\ u \in SUBSET DOMAIN h
        BY <2>1
    <2>3. CASE u = {}
        <3>1. Part(f, u) = 0 /\ Part(g, u) = 0 /\ Part(h, u) = 0
            BY <1>2, <2>2, <2>3, PartUnfolds
        <3>. QED
            BY <2>1, <3>1
    <2>4. CASE u # {}
        <3>1. PICK x : x \in u
            BY <2>4
        <3>2. Part(f, u) = f[x] + Part(f, u \ {x})
            BY <2>2, <3>1, PartTakesOff
        <3>3. Part(g, u) = g[x] + Part(g, u \ {x})
            BY <2>2, <3>1, PartTakesOff
        <3>4. Part(h, u) = h[x] + Part(h, u \ {x})
            BY <1>2, <2>2, <3>1, PartTakesOff
        <3>5. u \ {x} \notin C
            BY <1>3, <2>1, <3>1, OneLess
        <3>6. Part(h, u \ {x}) = Part(f, u \ {x}) - Part(g, u \ {x})
            BY <2>2, <3>5
        <3>7. u \ {x} \in SUBSET DOMAIN f /\ u \ {x} \in SUBSET DOMAIN g
            BY <2>2
        <3>8. Part(f, u \ {x}) \in Int /\ Part(g, u \ {x}) \in Int
            BY <3>7, PartTyped
        <3>9. f[x] \in Int /\ g[x] \in Int /\ h[x] = f[x] - g[x]
            BY <1>1, <2>2, <3>1
        <3>10. \A a, b, c, d \in Int : (a - b) + (c - d) = (a + c) - (b + d)
            OBVIOUS
        <3>11. Part(h, u) = Part(f, u) - Part(g, u)
            BY <3>2, <3>3, <3>4, <3>6, <3>8, <3>9, <3>10
        <3>. QED
            BY <2>1, <3>11
    <2>. QED
        BY <2>3, <2>4
<1>5. Part(h, D) = Part(f, D) - Part(g, D)
    BY <1>4
<1>. QED
    BY <1>2, <1>5, SumIsPart

\* One element longer.
LEMMA SumAppended ==
    ASSUME NEW n \in Nat, NEW f, DOMAIN f = 1..n, \A i \in 1..n : f[i] \in Int,
           NEW g, DOMAIN g = 1..(n + 1), \A i \in 1..n : g[i] = f[i],
           g[n + 1] \in Int
    PROVE  SumFunction(g) = SumFunction(f) + g[n + 1]
<1>1. 1..(n + 1) = (1..n) \cup {n + 1} /\ n + 1 \notin 1..n
    OBVIOUS
<1>2. IsFiniteSet(1..n) /\ IsFiniteSet(1..(n + 1))
    BY FS_Interval
<1>3. Addable(f)
    BY <1>2 DEF Addable
<1>4. Addable(g)
    BY <1>1, <1>2 DEF Addable
<1>5. n + 1 \in DOMAIN g /\ DOMAIN f = DOMAIN g \ {n + 1}
    BY <1>1
<1>6. \A y \in DOMAIN f : g[y] = f[y]
    OBVIOUS
<1>7. SumFunction(g) = g[n + 1] + SumFunction(f)
    BY <1>4, <1>5, <1>6, SumOneMore
<1>. QED
    BY <1>3, <1>7, SumTyped

-----------------------------------------------------------------------------
(* SeriesAggregate.  The invariant.                                        *)

Group == [key: Keys, values: Seq(Int), total: Int]

\* What one period may report.
PeriodReport == UNION {[S -> Int] : S \in SUBSET Keys}

\* The series of a group reaches up to the last period it was reported in and
\* holds what it reported by then.
UpToDate(g) ==
    /\ Len(g.values) \in 1..times
    /\ g.key \in DOMAIN reported[Len(g.values)]
    /\ \A t \in 1..times :
        Cost(g.key, t) = IF t <= Len(g.values) THEN g.values[t] ELSE 0
    /\ g.total = CostOf(g.key)

\* Until the result is put together every key reported has one group, and the
\* groups are up to date.
Collected ==
    /\ times \in Nat
    /\ groups \in Seq(Group)
    /\ reported \in Seq(PeriodReport)
    /\ Len(reported) = times
    /\ \A i \in DOMAIN groups : UpToDate(groups[i])
    /\ \A i, j \in DOMAIN groups : groups[i].key = groups[j].key => i = j
    /\ \A t \in 1..times : \A k \in DOMAIN reported[t] : IndexOf(k) # {}

CollectedInv == done \in BOOLEAN /\ (~ done => Collected)

-----------------------------------------------------------------------------
(* Helpers of the model.                                                   *)

\* Pad keeps what is there and adds zeros up to n.
LEMMA PadFills ==
    ASSUME NEW v \in Seq(Int), NEW n \in Nat, Len(v) <= n
    PROVE  /\ Pad(v, n) \in Seq(Int)
           /\ Len(Pad(v, n)) = n
           /\ \A t \in 1..n : Pad(v, n)[t] = IF t <= Len(v) THEN v[t] ELSE 0
<1>1. Len(v) \in Nat /\ n - Len(v) \in Nat
    BY LenProperties
<1> DEFINE z == Zeros(n - Len(v))
<1>2. z \in Seq(Int) /\ Len(z) = n - Len(v)
         /\ \A t \in 1..(n - Len(v)) : z[t] = 0
    BY <1>1 DEF Zeros
<1> HIDE DEF z
<1>3. /\ v \o z \in Seq(Int)
      /\ Len(v \o z) = Len(v) + Len(z)
      /\ \A i \in 1..(Len(v) + Len(z)) :
            (v \o z)[i] = IF i <= Len(v) THEN v[i] ELSE z[i - Len(v)]
    BY <1>2, ConcatProperties
<1>4. Pad(v, n) = v \o z
    BY DEF Pad, z
<1>. QED
    BY <1>1, <1>2, <1>3, <1>4

\* A group that reports: its series reaches the current period.
LEMMA ReportExtends ==
    ASSUME NEW g \in Group, NEW a \in Int,
           times \in Nat, Len(g.values) < times
    PROVE  /\ Report(g, a) \in Group
           /\ Report(g, a).key = g.key
           /\ Report(g, a).total = g.total + a
           /\ Len(Report(g, a).values) = times
           /\ \A t \in 1..times : Report(g, a).values[t] =
                IF t <= Len(g.values) THEN g.values[t]
                ELSE IF t < times THEN 0 ELSE a
<1> DEFINE p == Pad(g.values, times - 1)
<1>1. g.values \in Seq(Int) /\ g.total \in Int /\ g.key \in Keys
    BY DEF Group
<1>2. times - 1 \in Nat /\ Len(g.values) <= times - 1
    BY <1>1, LenProperties
<1>3. /\ p \in Seq(Int)
      /\ Len(p) = times - 1
      /\ \A t \in 1..(times - 1) :
            p[t] = IF t <= Len(g.values) THEN g.values[t] ELSE 0
    BY <1>1, <1>2, PadFills
<1>4. Report(g, a) = [g EXCEPT !.values = Append(p, a), !.total = g.total + a]
    BY DEF Report, Group
<1> HIDE DEF p
<1>5. /\ Append(p, a) \in Seq(Int)
      /\ Len(Append(p, a)) = times
      /\ \A t \in 1..(times - 1) : Append(p, a)[t] = p[t]
      /\ Append(p, a)[times] = a
    BY <1>2, <1>3, AppendProperties
<1>6. /\ Report(g, a) \in Group
      /\ Report(g, a).key = g.key
      /\ Report(g, a).total = g.total + a
      /\ Report(g, a).values = Append(p, a)
    <2> DEFINE s == Append(p, a)
    <2>1. s \in Seq(Int) /\ g.total + a \in Int
        BY <1>1, <1>5
    <2>2. Report(g, a) = [g EXCEPT !.values = s, !.total = g.total + a]
        BY <1>4
    <2> HIDE DEF s
    <2>3. Report(g, a) = [key |-> g.key, values |-> s, total |-> g.total + a]
        BY <2>2 DEF Group
    <2>4. s = Append(p, a)
        BY DEF s
    <2>. QED
        BY <1>1, <2>1, <2>3, <2>4 DEF Group
<1>7. Len(g.values) \in Nat
    BY <1>1, LenProperties
<1>8. ASSUME NEW t \in 1..times
      PROVE  Append(p, a)[t] = IF t <= Len(g.values) THEN g.values[t]
                               ELSE IF t < times THEN 0 ELSE a
    <2>1. CASE t < times
        <3>1. t \in 1..(times - 1)
            BY <2>1
        <3>. QED
            BY <1>3, <1>5, <2>1, <3>1
    <2>2. CASE t = times
        BY <1>5, <1>7, <2>2
    <2>3. t < times \/ t = times
        OBVIOUS
    <2>. QED
        BY <2>1, <2>2, <2>3
<1>. QED
    BY <1>5, <1>6, <1>8

-----------------------------------------------------------------------------
(* The invariant is kept.                                                  *)

LEMMA InitCollected == Init => CollectedInv
<1>1. << >> \in Seq(Group) /\ << >> \in Seq(PeriodReport) /\ Len(<< >>) = 0
    BY EmptySeq
<1>2. SUFFICES ASSUME Init
               PROVE  CollectedInv
    OBVIOUS
<1>3. times = 0 /\ groups = << >> /\ reported = << >> /\ done = FALSE
    BY <1>2 DEF Init
<1>4. DOMAIN groups = {} /\ 1..times = {}
    BY <1>3
<1>. QED
    BY <1>1, <1>3, <1>4 DEF CollectedInv, Collected

\* The costs so far are numbers.
LEMMA CostTyped ==
    ASSUME Collected, NEW k
    PROVE  /\ \A t \in 1..times : Cost(k, t) \in Int
           /\ Addable([t \in 1..times |-> Cost(k, t)])
           /\ CostOf(k) \in Int
<1>1. \A t \in 1..times : reported[t] \in PeriodReport
    BY ElementOfSeq DEF Collected
<1>2. \A t \in 1..times : Cost(k, t) \in Int
    BY <1>1 DEF Cost, PeriodReport
<1>3. IsFiniteSet(1..times)
    BY FS_Interval DEF Collected
<1>4. Addable([t \in 1..times |-> Cost(k, t)])
    BY <1>2, <1>3 DEF Addable
<1>. QED
    BY <1>2, <1>4, SumTyped DEF CostOf

\* A period begins: nobody has cost anything in it.
LEMMA NextPeriodKeeps ==
    ASSUME Collected, NextPeriod
    PROVE  Collected'
<1>1. /\ times \in Nat /\ times' = times + 1
      /\ groups' = groups
      /\ reported \in Seq(PeriodReport) /\ Len(reported) = times
    BY DEF Collected, NextPeriod
<1> DEFINE none == [k \in {} |-> 0]
<1>2. none \in PeriodReport /\ DOMAIN none = {}
    BY DEF PeriodReport
<1>3. reported' = Append(reported, none)
    BY DEF NextPeriod
<1> HIDE DEF none
<1>4. /\ reported' \in Seq(PeriodReport)
      /\ Len(reported') = times'
      /\ \A t \in 1..times : reported'[t] = reported[t]
      /\ reported'[times'] = none
    BY <1>1, <1>2, <1>3, AppendProperties
<1>5. /\ 1..times' = (1..times) \cup {times'} /\ times' \notin 1..times
      /\ \A t \in 1..times' : t \in 1..times \/ t = times'
    BY <1>1
<1>6. ASSUME NEW k
      PROVE  /\ \A t \in 1..times : Cost(k, t)' = Cost(k, t)
             /\ (Cost(k, times))' = 0
             /\ CostOf(k)' = CostOf(k)
    <2>1. /\ \A t \in 1..times : Cost(k, t)' = Cost(k, t)
          /\ (Cost(k, times))' = 0
        BY <1>2, <1>4 DEF Cost
    <2> DEFINE f == [t \in 1..times |-> Cost(k, t)]
               g == [t \in 1..times' |-> Cost(k, t)']
    <2>2. Addable(f) /\ CostOf(k) = SumFunction(f) /\ SumFunction(f) \in Int
        BY CostTyped, SumTyped DEF CostOf
    <2>3. DOMAIN g = 1..times' /\ DOMAIN f = 1..times
        OBVIOUS
    <2>4. \A t \in 1..times : f[t] = g[t]
        BY <1>5, <2>1
    <2>5. times' \in DOMAIN g /\ g[times'] = 0
        BY <1>1, <2>1
    <2>6. CostOf(k)' = SumFunction(g)
        BY DEF CostOf
    <2> HIDE DEF f, g
    <2>7. IsFiniteSet(1..times')
        BY <1>1, FS_Interval
    <2>8. Addable(g)
        <3>1. \A x \in DOMAIN f : f[x] \in Int
            BY <2>2 DEF Addable
        <3>2. \A x \in DOMAIN g : g[x] \in Int
            BY <1>5, <2>3, <2>4, <2>5, <3>1
        <3>. QED
            BY <2>3, <2>7, <3>2 DEF Addable
    <2>9. DOMAIN f = DOMAIN g \ {times'} /\ \A y \in DOMAIN f : g[y] = f[y]
        BY <1>5, <2>3, <2>4
    <2>10. SumFunction(g) = g[times'] + SumFunction(f)
        BY <2>5, <2>8, <2>9, SumOneMore
    <2>. QED
        BY <2>1, <2>2, <2>5, <2>6, <2>10
<1>7. ASSUME NEW g, UpToDate(g)
      PROVE  UpToDate(g)'
    <2>1. PICK n : n = Len(g.values)
        OBVIOUS
    <2>2. /\ n \in 1..times
          /\ g.key \in DOMAIN reported[n]
          /\ \A t \in 1..times :
                Cost(g.key, t) = IF t <= n THEN g.values[t] ELSE 0
          /\ g.total = CostOf(g.key)
        BY <1>7, <2>1 DEF UpToDate
    <2>3. \A t \in 1..times' :
            Cost(g.key, t)' = IF t <= n THEN g.values[t] ELSE 0
        <3>1. /\ \A t \in 1..times : Cost(g.key, t)' = Cost(g.key, t)
              /\ (Cost(g.key, times))' = 0
            BY <1>6
        <3>2. \A t \in 1..times :
                Cost(g.key, t)' = IF t <= n THEN g.values[t] ELSE 0
            BY <2>2, <3>1
        <3>3. ~ (times' <= n)
            BY <1>1, <2>2
        <3>. QED
            BY <1>5, <3>1, <3>2, <3>3
    <2>4. g.key \in DOMAIN reported'[n] /\ n \in 1..times'
        BY <1>4, <1>5, <2>2
    <2>5. g.total = CostOf(g.key)'
        BY <1>6, <2>2
    <2>. QED
        BY <2>1, <2>3, <2>4, <2>5 DEF UpToDate
<1>8. ASSUME NEW t \in 1..times', NEW k \in DOMAIN reported'[t]
      PROVE  IndexOf(k)' # {}
    <2>1. t \in 1..times /\ k \in DOMAIN reported[t]
        BY <1>2, <1>4, <1>5
    <2>2. IndexOf(k) # {}
        BY <2>1 DEF Collected
    <2>. QED
        BY <1>1, <2>2 DEF IndexOf
<1>9. \A i, j \in DOMAIN groups' : groups'[i].key = groups'[j].key => i = j
    BY <1>1 DEF Collected
<1>10. times' \in Nat /\ groups' \in Seq(Group)
    BY <1>1 DEF Collected
<1>11. (\A i \in DOMAIN groups : UpToDate(groups[i]))'
    BY <1>1, <1>7 DEF Collected
<1>. QED
    BY <1>4, <1>8, <1>9, <1>10, <1>11 DEF Collected

\* A group is reported: its series takes the amount at the current period.
LEMMA AddGroupKeeps ==
    ASSUME Collected, NEW k \in Keys, NEW amount \in Int, AddGroup(k, amount)
    PROVE  Collected'
<1>1. /\ times \in Nat /\ times' = times /\ times > 0 /\ times \in 1..times
      /\ groups \in Seq(Group)
      /\ reported \in Seq(PeriodReport) /\ Len(reported) = times
      /\ k \notin DOMAIN reported[times]
    BY DEF Collected, AddGroup
<1>2. PICK r : r = [l \in DOMAIN reported[times] \cup {k} |->
                        IF l = k THEN amount ELSE reported[times][l]]
    OBVIOUS
<1>3. /\ reported' \in Seq(PeriodReport)
      /\ Len(reported') = times
      /\ \A t \in 1..times : reported'[t] = IF t = times THEN r ELSE reported[t]
    <2>1. reported[times] \in PeriodReport
        BY <1>1, ElementOfSeq
    <2>2. PICK S \in SUBSET Keys : reported[times] \in [S -> Int]
        BY <2>1 DEF PeriodReport
    <2>3. r \in [S \cup {k} -> Int]
        BY <1>2, <2>2
    <2>4. r \in PeriodReport
        BY <2>3 DEF PeriodReport
    <2>5. reported' = [reported EXCEPT ![times] = r]
        BY <1>1, <1>2 DEF AddGroup
    <2>. QED
        BY <1>1, <2>4, <2>5, ExceptSeq
<1>4. /\ \A l, t : t \in 1..times /\ (l # k \/ t # times)
                    => Cost(l, t)' = Cost(l, t)
      /\ Cost(k, times) = 0
      /\ (Cost(k, times))' = amount
    <2>1. \A l, t : t \in 1..times /\ (l # k \/ t # times)
                    => Cost(l, t)' = Cost(l, t)
        BY <1>2, <1>3 DEF Cost
    <2>. QED
        BY <1>1, <1>2, <1>3, <2>1 DEF Cost
<1>5. ASSUME NEW l
      PROVE  CostOf(l)' = IF l = k THEN CostOf(l) + amount ELSE CostOf(l)
    <2> DEFINE f == [t \in 1..times |-> Cost(l, t)]
               g == [t \in 1..times' |-> Cost(l, t)']
    <2>1. Addable(f) /\ CostOf(l) = SumFunction(f) /\ SumFunction(f) \in Int
        BY CostTyped, SumTyped DEF CostOf
    <2>2. DOMAIN g = 1..times /\ DOMAIN f = 1..times
        BY <1>1
    <2>3. \A t \in 1..times : l # k \/ t # times => f[t] = g[t]
        BY <1>1, <1>4
    <2>4. l = k => f[times] = 0 /\ g[times] = amount
        BY <1>1, <1>4
    <2>5. CostOf(l)' = SumFunction(g)
        BY DEF CostOf
    <2> HIDE DEF f, g
    <2>6. CASE l # k
        <3>1. SumFunction(f) = SumFunction(g)
            BY <2>1, <2>2, <2>3, <2>6, SumSame
        <3>. QED
            BY <2>1, <2>5, <2>6, <3>1
    <2>7. CASE l = k
        <3>1. \A t \in 1..times : f[t] \in Int
            BY <2>1, <2>2 DEF Addable
        <3>2. \A t \in 1..times : g[t] \in Int
            BY <1>1, <2>3, <2>4, <2>7, <3>1
        <3>3. Addable(g)
            BY <2>1, <2>2, <3>2 DEF Addable
        <3>4. SumFunction(g) = SumFunction(f) - f[times] + g[times]
            BY <1>1, <2>1, <2>2, <2>3, <3>3, SumChanged
        <3>. QED
            BY <2>1, <2>4, <2>5, <2>7, <3>4
    <2>. QED
        BY <2>6, <2>7
\* A group of another key stays up to date,
<1>6. ASSUME NEW g, UpToDate(g), g.key # k
      PROVE  UpToDate(g)'
    <2>1. PICK n : n = Len(g.values)
        OBVIOUS
    <2>2. /\ n \in 1..times
          /\ g.key \in DOMAIN reported[n]
          /\ \A t \in 1..times :
                Cost(g.key, t) = IF t <= n THEN g.values[t] ELSE 0
          /\ g.total = CostOf(g.key)
        BY <1>6, <2>1 DEF UpToDate
    <2>3. g.key \in DOMAIN reported'[n]
        BY <1>2, <1>3, <2>2
    <2>4. \A t \in 1..times' :
            Cost(g.key, t)' = IF t <= n THEN g.values[t] ELSE 0
        BY <1>1, <1>4, <1>6, <2>2
    <2>5. g.total = CostOf(g.key)'
        BY <1>5, <1>6, <2>2
    <2>. QED
        BY <1>1, <2>1, <2>2, <2>3, <2>4, <2>5 DEF UpToDate
\* and one that reports is brought up to date.
<1>7. ASSUME NEW g \in Group, g.key = k, Len(g.values) < times,
             \A t \in 1..times :
                Cost(k, t) = IF t <= Len(g.values) THEN g.values[t] ELSE 0,
             g.total = CostOf(k),
             NEW h, h = Report(g, amount)
      PROVE  UpToDate(h)' /\ h \in Group /\ h.key = k
    <2>1. times \in Nat /\ Len(g.values) < times
        BY <1>1, <1>7
    <2>2. /\ h \in Group
          /\ h.key = k
          /\ h.total = g.total + amount
          /\ Len(h.values) = times
          /\ \A t \in 1..times : h.values[t] =
                IF t <= Len(g.values) THEN g.values[t]
                ELSE IF t < times THEN 0 ELSE amount
        <3>1. /\ Report(g, amount) \in Group
              /\ Report(g, amount).key = g.key
              /\ Report(g, amount).total = g.total + amount
              /\ Len(Report(g, amount).values) = times
              /\ \A t \in 1..times : Report(g, amount).values[t] =
                    IF t <= Len(g.values) THEN g.values[t]
                    ELSE IF t < times THEN 0 ELSE amount
            BY <2>1, ReportExtends
        <3>. QED
            BY <1>7, <3>1
    <2>3. \A t \in 1..times' :
            Cost(k, t)' = IF t <= Len(h.values) THEN h.values[t] ELSE 0
        <3>1. ASSUME NEW t \in 1..times, t # times
              PROVE  Cost(k, t)' = h.values[t]
            <4>1. t < times /\ Cost(k, t)' = Cost(k, t)
                BY <1>1, <1>4, <3>1
            <4>. QED
                BY <1>7, <2>2, <4>1
        <3>2. h.values[times] = amount
            <4>1. Len(g.values) \in Nat
                BY LenProperties DEF Group
            <4>. QED
                BY <1>1, <1>7, <2>2, <4>1
        <3>3. (Cost(k, times))' = amount
            BY <1>4
        <3>. QED
            BY <1>1, <2>2, <3>1, <3>2, <3>3
    <2>4. h.total = CostOf(k)'
        BY <1>5, <1>7, <2>2
    <2>5. k \in DOMAIN reported'[times]
        BY <1>1, <1>2, <1>3
    <2>. QED
        BY <1>1, <2>2, <2>3, <2>4, <2>5 DEF UpToDate
<1>8. ASSUME NEW i \in IndexOf(k),
             groups' = [groups EXCEPT ![i] = Report(@, amount)]
      PROVE  Collected'
    <2>1. PICK g : g = groups[i]
        OBVIOUS
    <2>2. PICK h : h = Report(g, amount)
        OBVIOUS
    <2>3. i \in 1..Len(groups) /\ DOMAIN groups = 1..Len(groups) /\ g.key = k
        BY <1>1, <2>1, LenProperties DEF IndexOf
    <2>4. g \in Group /\ UpToDate(g)
        BY <1>1, <2>1, <2>3, ElementOfSeq DEF Collected
    <2>5. Len(g.values) < times
        <3>1. Len(g.values) \in 1..times /\ k \in DOMAIN reported[Len(g.values)]
            BY <2>3, <2>4 DEF UpToDate
        <3>2. Len(g.values) # times
            BY <1>1, <3>1
        <3>. QED
            BY <1>1, <3>1, <3>2
    <2>6. UpToDate(h)' /\ h \in Group /\ h.key = k
        BY <1>7, <2>2, <2>3, <2>4, <2>5 DEF UpToDate
    <2>7. groups' = [groups EXCEPT ![i] = h]
        BY <1>8, <2>1, <2>2
    <2>8. /\ groups' \in Seq(Group)
          /\ Len(groups') = Len(groups)
          /\ \A j \in 1..Len(groups) : groups'[j] = IF j = i THEN h ELSE groups[j]
        BY <1>1, <2>3, <2>6, <2>7, ExceptSeq
    <2>9. DOMAIN groups' = DOMAIN groups
        BY <2>3, <2>8, LenProperties
    <2>10. \A j \in DOMAIN groups : groups'[j].key = groups[j].key
        BY <2>1, <2>3, <2>6, <2>8
    <2>11. (\A j \in DOMAIN groups : UpToDate(groups[j]))'
        <3>1. ASSUME NEW j \in DOMAIN groups, NEW u, u = groups'[j]
              PROVE  UpToDate(u)'
            <4>1. CASE j = i
                <5>1. u = h
                    BY <2>3, <2>8, <3>1, <4>1
                <5>. QED
                    BY <2>6, <5>1
            <4>2. CASE j # i
                <5>1. u = groups[j]
                    BY <2>3, <2>8, <3>1, <4>2
                <5>2. UpToDate(u) /\ u.key # k
                    BY <2>1, <2>3, <4>2, <5>1 DEF Collected
                <5>. QED
                    BY <1>6, <5>2
            <4>. QED
                BY <4>1, <4>2
        <3>. QED
            BY <2>9, <3>1
    <2>12. (\A j, l \in DOMAIN groups : groups[j].key = groups[l].key => j = l)'
        BY <2>9, <2>10 DEF Collected
    <2>13. (\A t \in 1..times : \A l \in DOMAIN reported[t] : IndexOf(l) # {})'
        <3>1. ASSUME NEW t \in 1..times, NEW l \in DOMAIN reported'[t]
              PROVE  IndexOf(l)' # {}
            <4>1. IndexOf(l)' = IndexOf(l)
                BY <2>9, <2>10 DEF IndexOf
            <4>2. CASE l = k
                BY <1>8, <4>1, <4>2
            <4>3. CASE l # k
                <5>1. l \in DOMAIN reported[t]
                    BY <1>2, <1>3, <4>3
                <5>. QED
                    BY <4>1, <5>1 DEF Collected
            <4>. QED
                BY <4>2, <4>3
        <3>. QED
            BY <1>1, <3>1
    <2>. QED
        BY <1>1, <1>3, <2>8, <2>11, <2>12, <2>13 DEF Collected
<1>9. ASSUME IndexOf(k) = {},
             groups' = Append(groups,
                Report([key |-> k, values |-> << >>, total |-> 0], amount))
      PROVE  Collected'
    <2>1. PICK g : g = [key |-> k, values |-> << >>, total |-> 0]
        OBVIOUS
    <2>2. PICK h : h = Report(g, amount)
        OBVIOUS
    <2>3. g \in Group /\ g.key = k /\ Len(g.values) = 0 /\ g.total = 0
        <3>1. << >> \in Seq(Int) /\ Len(<< >>) = 0
            BY EmptySeq
        <3>. QED
            BY <2>1, <3>1 DEF Group
    <2>4. \A t \in 1..times : k \notin DOMAIN reported[t]
        BY <1>9 DEF Collected
    <2>5. \A t \in 1..times : Cost(k, t) = 0
        BY <2>4 DEF Cost
    <2>6. CostOf(k) = 0
        <3> DEFINE f == [t \in 1..times |-> Cost(k, t)]
        <3>1. IsFiniteSet(DOMAIN f)
            BY <1>1, FS_Interval
        <3>2. SumFunction(f) = 0
            BY <2>5, <3>1, SumOfZeros
        <3>. QED
            BY <3>2 DEF CostOf
    <2>7. UpToDate(h)' /\ h \in Group /\ h.key = k
        <3>1. Len(g.values) < times
            BY <1>1, <2>3
        <3>2. \A t \in 1..times :
                Cost(k, t) = IF t <= Len(g.values) THEN g.values[t] ELSE 0
            BY <2>3, <2>5
        <3>. QED
            BY <1>7, <2>2, <2>3, <2>6, <3>1, <3>2
    <2>8. groups' = Append(groups, h)
        BY <1>9, <2>1, <2>2
    <2> DEFINE n == Len(groups)
    <2>9. /\ groups' \in Seq(Group)
          /\ Len(groups') = n + 1
          /\ \A j \in 1..n : groups'[j] = groups[j]
          /\ groups'[n + 1] = h
        BY <1>1, <2>7, <2>8, AppendProperties
    <2>10. /\ n \in Nat /\ DOMAIN groups = 1..n /\ DOMAIN groups' = 1..(n + 1)
           /\ 1..(n + 1) = (1..n) \cup {n + 1}
        BY <1>1, <2>9, LenProperties
    <2>11. \A j \in 1..n : groups[j].key # k
        BY <1>9, <2>10 DEF IndexOf
    <2>12. (\A j \in DOMAIN groups : UpToDate(groups[j]))'
        <3>1. ASSUME NEW j \in 1..n, NEW u, u = groups'[j]
              PROVE  UpToDate(u)'
            <4>1. u = groups[j]
                BY <2>9, <3>1
            <4>2. UpToDate(u) /\ u.key # k
                BY <2>10, <2>11, <4>1 DEF Collected
            <4>. QED
                BY <1>6, <4>2
        <3>2. ASSUME NEW u, u = groups'[n + 1]
              PROVE  UpToDate(u)'
            BY <2>7, <2>9, <3>2
        <3>. QED
            BY <2>10, <3>1, <3>2
    <2>13. (\A i, j \in DOMAIN groups : groups[i].key = groups[j].key => i = j)'
        <3>1. \A i, j \in 1..n : groups[i].key = groups[j].key => i = j
            BY <2>10 DEF Collected
        <3>. QED
            BY <2>7, <2>9, <2>10, <2>11, <3>1
    <2>14. (\A t \in 1..times : \A l \in DOMAIN reported[t] : IndexOf(l) # {})'
        <3>1. ASSUME NEW t \in 1..times, NEW l \in DOMAIN reported'[t]
              PROVE  \E j \in DOMAIN groups' : groups'[j].key = l
            <4>1. CASE l = k
                BY <2>7, <2>9, <2>10, <4>1
            <4>2. CASE l # k
                <5>1. l \in DOMAIN reported[t]
                    BY <1>2, <1>3, <4>2
                <5>2. PICK j \in 1..n : groups[j].key = l
                    BY <2>10, <5>1 DEF Collected, IndexOf
                <5>. QED
                    BY <2>9, <2>10, <5>2
            <4>. QED
                BY <4>1, <4>2
        <3>. QED
            BY <1>1, <3>1 DEF IndexOf
    <2>. QED
        BY <1>1, <1>3, <2>9, <2>12, <2>13, <2>14 DEF Collected
<1>. QED
    BY <1>8, <1>9 DEF AddGroup

-----------------------------------------------------------------------------
(* Sorting the groups.                                                     *)

\* How many come before i.
Rank(gs, i) == Cardinality({j \in DOMAIN gs : Before(gs, j, i)})

\* Each place is some group's: no two groups have equally many before them,
\* and there are as many places as groups.
LEMMA RanksAreThePlaces ==
    ASSUME NEW gs, NEW N \in Nat, DOMAIN gs = 1..N,
           \A i \in 1..N : gs[i].total \in Int
    PROVE  /\ \A i \in 1..N : Rank(gs, i) \in 0..(N - 1)
           /\ \A i, j \in 1..N : Before(gs, i, j) => Rank(gs, i) < Rank(gs, j)
           /\ \A i, j \in 1..N : Before(gs, i, j) \/ Before(gs, j, i) \/ i = j
           /\ \A n \in 1..N : \E i \in 1..N : Rank(gs, i) = n - 1
<1> DEFINE Ahead(i) == {j \in 1..N : Before(gs, j, i)}
<1>1. IsFiniteSet(1..N) /\ Cardinality(1..N) = N
    <2>1. IsFiniteSet(1..N) /\ Cardinality(1..N) = IF 1 > N THEN 0 ELSE N - 1 + 1
        BY FS_Interval
    <2>. QED
        BY <2>1
<1>2. \A i \in 1..N : /\ IsFiniteSet(Ahead(i))
                      /\ Cardinality(Ahead(i)) \in Nat
                      /\ Rank(gs, i) = Cardinality(Ahead(i))
    BY <1>1, FS_Subset, FS_CardinalityType DEF Rank
<1>3. ASSUME NEW i \in 1..N, NEW S \in SUBSET (1..N),
             Ahead(i) \subseteq S \ {i}, i \in S
      PROVE  Rank(gs, i) < Cardinality(S) /\ Cardinality(S) \in Nat
    <2>1. IsFiniteSet(S)
        BY <1>1, FS_Subset
    <2>2. /\ Cardinality(S) \in Nat
          /\ IsFiniteSet(S \ {i})
          /\ Cardinality(S \ {i}) = Cardinality(S) - 1
        BY <1>3, <2>1, OneLess
    <2>3. Ahead(i) \in SUBSET (S \ {i})
        BY <1>3
    <2>4. Cardinality(Ahead(i)) <= Cardinality(S \ {i})
        BY <2>2, <2>3, FS_Subset
    <2> HIDE DEF Ahead
    <2>. QED
        BY <1>2, <2>2, <2>4
<1>4. \A i \in 1..N : ~ Before(gs, i, i)
    BY DEF Before
<1>5. \A i, j, k \in 1..N : Before(gs, i, j) /\ Before(gs, j, k) => Before(gs, i, k)
    BY DEF Before
<1>6. \A i, j \in 1..N : Before(gs, i, j) \/ Before(gs, j, i) \/ i = j
    BY DEF Before
<1>7. \A i \in 1..N : Rank(gs, i) \in 0..(N - 1)
    <2> TAKE i \in 1..N
    <2>1. Ahead(i) \subseteq (1..N) \ {i}
        BY <1>4
    <2> HIDE DEF Ahead
    <2>2. Rank(gs, i) < N
        BY <1>1, <1>3, <2>1
    <2>. QED
        BY <1>2, <2>2
<1>8. \A i, j \in 1..N : Before(gs, i, j) => Rank(gs, i) < Rank(gs, j)
    <2> SUFFICES ASSUME NEW i \in 1..N, NEW j \in 1..N, Before(gs, i, j)
                 PROVE  Rank(gs, i) < Rank(gs, j)
        OBVIOUS
    <2>1. Ahead(i) \subseteq Ahead(j) \ {i} /\ i \in Ahead(j)
        BY <1>4, <1>5
    <2>2. Ahead(j) \in SUBSET (1..N)
        OBVIOUS
    <2> HIDE DEF Ahead
    <2>. QED
        BY <1>2, <1>3, <2>1, <2>2
<1> DEFINE place == [i \in 1..N |-> Rank(gs, i) + 1]
<1>9. place \in [1..N -> 1..N]
    BY <1>7
<1>10. \A i, j \in 1..N : place[i] = place[j] => i = j
    BY <1>6, <1>7, <1>8
<1>11. place \in Injection(1..N, 1..N)
    BY <1>9, <1>10 DEF Injection, IsInjective
<1>12. place \in Surjection(1..N, 1..N)
    BY <1>1, <1>11, FS_Injection
<1>13. \A n \in 1..N : \E i \in 1..N : Rank(gs, i) = n - 1
    <2> TAKE n \in 1..N
    <2>1. PICK i \in 1..N : place[i] = n
        BY <1>12 DEF Surjection
    <2>2. Rank(gs, i) \in Int /\ Rank(gs, i) + 1 = n
        BY <1>7, <2>1
    <2>. QED
        BY <2>2
<1>. QED
    BY <1>6, <1>7, <1>8, <1>13

\* Sorted moves the groups around, the larger totals to the front.
LEMMA SortedPermutes ==
    ASSUME NEW gs, NEW N \in Nat, DOMAIN gs = 1..N,
           \A i \in 1..N : gs[i].total \in Int
    PROVE  \E p \in [1..N -> 1..N] :
            /\ Sorted(gs) = [n \in 1..N |-> gs[p[n]]]
            /\ \A m, n \in 1..N : p[m] = p[n] => m = n
            /\ \A i \in 1..N : \E n \in 1..N : p[n] = i
            /\ \A m, n \in 1..N : m < n => gs[p[m]].total >= gs[p[n]].total
<1>1. /\ \A i \in 1..N : Rank(gs, i) \in 0..(N - 1)
      /\ \A i, j \in 1..N : Before(gs, i, j) => Rank(gs, i) < Rank(gs, j)
      /\ \A i, j \in 1..N : Before(gs, i, j) \/ Before(gs, j, i) \/ i = j
      /\ \A n \in 1..N : \E i \in 1..N : Rank(gs, i) = n - 1
    BY RanksAreThePlaces
<1> DEFINE p == [n \in 1..N |-> CHOOSE i \in DOMAIN gs : Rank(gs, i) = n - 1]
<1>2. \A n \in 1..N : p[n] \in 1..N /\ Rank(gs, p[n]) = n - 1
    BY <1>1
<1>3. Sorted(gs) = [n \in 1..N |-> gs[p[n]]]
    BY DEF Sorted, Rank
<1>4. p \in [1..N -> 1..N]
    BY <1>2
<1> HIDE DEF p
<1>5. \A m, n \in 1..N : p[m] = p[n] => m = n
    <2> SUFFICES ASSUME NEW m \in 1..N, NEW n \in 1..N, p[m] = p[n]
                 PROVE  m = n
        OBVIOUS
    <2>1. m - 1 = n - 1
        BY <1>2
    <2>. QED
        BY <2>1
<1>6. \A i \in 1..N : \E n \in 1..N : p[n] = i
    <2> TAKE i \in 1..N
    <2>1. PICK r : r = Rank(gs, i)
        OBVIOUS
    <2>2. r \in 0..(N - 1)
        BY <1>1, <2>1
    <2>3. r + 1 \in 1..N /\ (r + 1) - 1 = r
        BY <2>2
    <2>4. p[r + 1] \in 1..N /\ Rank(gs, p[r + 1]) = r
        BY <1>2, <2>3
    <2>5. p[r + 1] = i
        BY <1>1, <2>1, <2>2, <2>4
    <2>. QED
        BY <2>3, <2>5
<1>7. \A m, n \in 1..N : m < n => gs[p[m]].total >= gs[p[n]].total
    <2> SUFFICES ASSUME NEW m \in 1..N, NEW n \in 1..N, m < n
                 PROVE  gs[p[m]].total >= gs[p[n]].total
        OBVIOUS
    <2>1. Rank(gs, p[m]) < Rank(gs, p[n])
        BY <1>2
    <2>2. ~ Before(gs, p[n], p[m])
        <3>1. p[m] \in 1..N /\ p[n] \in 1..N
            BY <1>2
        <3>2. /\ Before(gs, p[n], p[m]) => Rank(gs, p[n]) < Rank(gs, p[m])
              /\ Rank(gs, p[m]) \in Int /\ Rank(gs, p[n]) \in Int
            BY <1>1, <3>1
        <3>. QED
            BY <2>1, <3>2
    <2>3. gs[p[m]].total \in Int /\ gs[p[n]].total \in Int
        BY <1>2
    <2>. QED
        BY <2>2, <2>3 DEF Before
<1>. QED
    BY <1>3, <1>4, <1>5, <1>6, <1>7

-----------------------------------------------------------------------------
(* Folding the tail.                                                       *)

\* Everything past M put together leaves the sum as it is.
LEMMA TailFolded ==
    ASSUME NEW N \in Nat, NEW M \in Nat, M < N,
           NEW f, DOMAIN f = 1..N, \A i \in 1..N : f[i] \in Int,
           NEW g, DOMAIN g = 1..(M + 1),
           \A i \in 1..M : g[i] = f[i],
           g[M + 1] = SumFunction([i \in (M + 1)..N |-> f[i]])
    PROVE  SumFunction(g) = SumFunction(f) /\ g[M + 1] \in Int
<1> DEFINE front == [i \in 1..M |-> f[i]]
           tail == [i \in (M + 1)..N |-> f[i]]
<1>1. Addable(f)
    BY FS_Interval DEF Addable
<1>2. /\ DOMAIN f = DOMAIN front \cup DOMAIN tail
      /\ DOMAIN front \cap DOMAIN tail = {}
      /\ \A x \in DOMAIN front : f[x] = front[x]
      /\ \A x \in DOMAIN tail : f[x] = tail[x]
    OBVIOUS
<1>3. DOMAIN front = 1..M /\ \A i \in 1..M : front[i] = g[i]
    OBVIOUS
<1>4. g[M + 1] = SumFunction(tail)
    OBVIOUS
<1> HIDE DEF front, tail
<1>5. /\ Addable(front) /\ Addable(tail)
      /\ SumFunction(f) = SumFunction(front) + SumFunction(tail)
    BY <1>1, <1>2, SumInParts
<1>6. SumFunction(front) \in Int /\ SumFunction(tail) \in Int
    BY <1>5, SumTyped
<1>7. 1..(M + 1) = (1..M) \cup {M + 1} /\ M + 1 \notin 1..M /\ M + 1 \in 1..(M + 1)
    OBVIOUS
<1>8. Addable(g)
    <2>1. IsFiniteSet(1..(M + 1))
        BY FS_Interval
    <2>2. \A i \in 1..M : g[i] \in Int
        BY <1>3, <1>5 DEF Addable
    <2>3. \A i \in DOMAIN g : g[i] \in Int
        BY <1>4, <1>6, <1>7, <2>2
    <2>. QED
        BY <2>1, <2>3 DEF Addable
<1>9. DOMAIN front = DOMAIN g \ {M + 1} /\ \A y \in DOMAIN front : g[y] = front[y]
    BY <1>3, <1>7
<1>10. M + 1 \in DOMAIN g
    BY <1>7
<1>11. SumFunction(g) = g[M + 1] + SumFunction(front)
    BY <1>8, <1>9, <1>10, SumOneMore
<1>. QED
    BY <1>4, <1>5, <1>6, <1>11

-----------------------------------------------------------------------------
(* The result.                                                             *)

\* A series over all periods that shows what its key cost.
Complete(g) ==
    /\ g \in Group
    /\ DOMAIN g.values = 1..times
    /\ \A t \in 1..times : g.values[t] = Cost(g.key, t)
    /\ g.total = CostOf(g.key)

\* N complete series, one for each key reported.
Lineup(s, N) ==
    /\ N \in Nat
    /\ s \in Seq(Group)
    /\ DOMAIN s = 1..N
    /\ \A i \in 1..N : Complete(s[i])
    /\ \A i, j \in 1..N : s[i].key = s[j].key => i = j
    /\ ReportedKeys = {s[i].key : i \in 1..N}

LEMMA ReportedKeysKnown ==
    ASSUME Collected
    PROVE  ReportedKeys = {groups[i].key : i \in DOMAIN groups}
<1>1. ASSUME NEW k \in ReportedKeys
      PROVE  \E i \in DOMAIN groups : groups[i].key = k
    <2>1. PICK t \in 1..times : k \in DOMAIN reported[t]
        BY DEF ReportedKeys
    <2>. QED
        BY <2>1 DEF Collected, IndexOf
<1>2. ASSUME NEW i \in DOMAIN groups
      PROVE  groups[i].key \in ReportedKeys
    BY DEF Collected, UpToDate, ReportedKeys
<1>. QED
    BY <1>1, <1>2

\* The trailing zeros complete every series.
LEMMA FilledLineup ==
    ASSUME Collected
    PROVE  /\ Lineup(Filled, Len(groups))
           /\ \A i \in DOMAIN groups : Filled[i].total = groups[i].total
<1> DEFINE N == Len(groups)
<1>1. N \in Nat /\ DOMAIN groups = 1..N /\ times \in Nat
    BY LenProperties DEF Collected
<1>2. ASSUME NEW i \in 1..N
      PROVE  /\ Complete(Filled[i])
             /\ Filled[i].key = groups[i].key
             /\ Filled[i].total = groups[i].total
    <2>1. PICK g : g = groups[i]
        OBVIOUS
    <2>2. PICK v : v = Pad(g.values, times)
        OBVIOUS
    <2>3. g \in Group /\ UpToDate(g)
        BY <1>1, <2>1, ElementOfSeq DEF Collected
    <2>4. g.values \in Seq(Int) /\ Len(g.values) <= times
        BY <1>1, <2>3 DEF Group, UpToDate
    <2>5. /\ v \in Seq(Int)
          /\ Len(v) = times
          /\ \A t \in 1..times :
                v[t] = IF t <= Len(g.values) THEN g.values[t] ELSE 0
        BY <1>1, <2>2, <2>4, PadFills
    <2>6. Filled[i] = [g EXCEPT !.values = v]
        BY <1>1, <2>1, <2>2 DEF Filled, Group
    <2>7. Filled[i] = [key |-> g.key, values |-> v, total |-> g.total]
        BY <2>3, <2>6 DEF Group
    <2>8. \A t \in 1..times : v[t] = Cost(g.key, t)
        BY <2>3, <2>5 DEF UpToDate
    <2>9. DOMAIN v = 1..times
        BY <2>5, LenProperties
    <2>10. g.total = CostOf(g.key) /\ g.key \in Keys /\ g.total \in Int
        BY <2>3 DEF UpToDate, Group
    <2>. QED
        BY <2>1, <2>5, <2>7, <2>8, <2>9, <2>10 DEF Complete, Group
<1>3. DOMAIN Filled = 1..N
    BY <1>1 DEF Filled
<1>4. Filled \in Seq(Group)
    <2>1. Filled \in [1..N -> Group]
        BY <1>1, <1>2 DEF Filled, Complete
    <2>. QED
        BY <1>1, <2>1
<1>5. \A i, j \in 1..N : Filled[i].key = Filled[j].key => i = j
    BY <1>1, <1>2 DEF Collected
<1>6. ReportedKeys = {Filled[i].key : i \in 1..N}
    BY <1>1, <1>2, ReportedKeysKnown
<1> HIDE DEF N
<1>7. Lineup(Filled, N)
    BY <1>1, <1>2, <1>3, <1>4, <1>5, <1>6 DEF Lineup
<1>. QED
    BY <1>1, <1>2, <1>7 DEF N

\* Sorting keeps the line up and puts the large ones first.
LEMMA SortedLineup ==
    ASSUME Collected, NEW gs, NEW N, Lineup(gs, N)
    PROVE  /\ Lineup(Sorted(gs), N)
           /\ \A m, n \in 1..N : m < n =>
                Sorted(gs)[m].total >= Sorted(gs)[n].total
<1>1. /\ N \in Nat
      /\ DOMAIN gs = 1..N
      /\ \A i \in 1..N : Complete(gs[i])
      /\ \A i, j \in 1..N : gs[i].key = gs[j].key => i = j
      /\ ReportedKeys = {gs[i].key : i \in 1..N}
    BY DEF Lineup
<1>2. \A i \in 1..N : gs[i] \in Group /\ gs[i].total \in Int
    BY <1>1 DEF Complete, Group
<1>3. PICK p \in [1..N -> 1..N] :
        /\ Sorted(gs) = [n \in 1..N |-> gs[p[n]]]
        /\ \A m, n \in 1..N : p[m] = p[n] => m = n
        /\ \A i \in 1..N : \E n \in 1..N : p[n] = i
        /\ \A m, n \in 1..N : m < n => gs[p[m]].total >= gs[p[n]].total
    BY <1>1, <1>2, SortedPermutes
<1>4. PICK s : s = Sorted(gs)
    OBVIOUS
<1>5. DOMAIN s = 1..N /\ \A n \in 1..N : s[n] = gs[p[n]] /\ p[n] \in 1..N
    BY <1>3, <1>4
<1>6. s \in Seq(Group)
    <2>1. s \in [1..N -> Group]
        BY <1>2, <1>3, <1>4
    <2>. QED
        BY <1>1, <2>1
<1>7. \A i \in 1..N : Complete(s[i])
    <2>1. ASSUME NEW i \in 1..N, NEW g, g = s[i]
          PROVE  Complete(g)
        <3>1. PICK j \in 1..N : j = p[i] /\ g = gs[j]
            BY <1>5, <2>1
        <3>. QED
            BY <1>1, <3>1
    <2>. QED
        BY <2>1
<1>8. \A i, j \in 1..N : s[i].key = s[j].key => i = j
    <2> SUFFICES ASSUME NEW i \in 1..N, NEW j \in 1..N, s[i].key = s[j].key
                 PROVE  i = j
        OBVIOUS
    <2>1. PICK k \in 1..N : k = p[i] /\ s[i] = gs[k]
        BY <1>5
    <2>2. PICK l \in 1..N : l = p[j] /\ s[j] = gs[l]
        BY <1>5
    <2>3. k = l
        BY <1>1, <2>1, <2>2
    <2>4. \A m, n \in 1..N : p[m] = p[n] => m = n
        BY <1>3
    <2>. QED
        BY <2>1, <2>2, <2>3, <2>4
<1>9. ReportedKeys = {s[i].key : i \in 1..N}
    <2>1. {s[i].key : i \in 1..N} \subseteq {gs[i].key : i \in 1..N}
        BY <1>5
    <2>2. ASSUME NEW i \in 1..N
          PROVE  gs[i].key \in {s[n].key : n \in 1..N}
        <3>1. PICK n \in 1..N : p[n] = i
            BY <1>3
        <3>2. s[n] = gs[i]
            BY <1>5, <3>1
        <3>. QED
            BY <3>2
    <2>3. {gs[i].key : i \in 1..N} \subseteq {s[n].key : n \in 1..N}
        BY <2>2
    <2>. QED
        BY <1>1, <2>1, <2>3
<1>10. Lineup(s, N)
    BY <1>1, <1>5, <1>6, <1>7, <1>8, <1>9 DEF Lineup
<1>11. \A m, n \in 1..N : m < n => s[m].total >= s[n].total
    <2> SUFFICES ASSUME NEW m \in 1..N, NEW n \in 1..N, m < n
                 PROVE  s[m].total >= s[n].total
        OBVIOUS
    <2>1. gs[p[m]].total >= gs[p[n]].total
        BY <1>3
    <2>2. s[m] = gs[p[m]] /\ s[n] = gs[p[n]]
        BY <1>5
    <2>. QED
        BY <2>1, <2>2
<1>. QED
    BY <1>4, <1>10, <1>11

\* The lined up series are the keys reported, once each, so they add up to
\* what was reported.
LEMMA LineupSums ==
    ASSUME Collected, NEW s, NEW N, Lineup(s, N)
    PROVE  /\ IsFiniteSet(ReportedKeys)
           /\ Cardinality(ReportedKeys) = N
           /\ \A t \in 1..times :
                /\ Addable([i \in 1..N |-> s[i].values[t]])
                /\ SumFunction([i \in 1..N |-> s[i].values[t]])
                    = SumFunction([k \in ReportedKeys |-> Cost(k, t)])
           /\ Addable([i \in 1..N |-> s[i].total])
           /\ SumFunction([i \in 1..N |-> s[i].total])
                = SumFunction([k \in ReportedKeys |-> CostOf(k)])
<1> DEFINE p == [i \in 1..N |-> s[i].key]
<1>1. /\ N \in Nat
      /\ \A i \in 1..N : Complete(s[i])
      /\ \A i, j \in 1..N : p[i] = p[j] => i = j
      /\ ReportedKeys = {p[i] : i \in 1..N}
    BY DEF Lineup
<1>2. \A i \in 1..N :
        /\ \A t \in 1..times : s[i].values[t] = Cost(p[i], t)
        /\ s[i].total = CostOf(p[i])
    BY <1>1 DEF Complete
<1>3. DOMAIN p = 1..N
    OBVIOUS
<1> HIDE DEF p
<1>4. /\ \A i \in 1..N : p[i] \in ReportedKeys
      /\ \A k \in ReportedKeys : \E i \in 1..N : p[i] = k
    BY <1>1
<1>5. IsFiniteSet(1..N) /\ Cardinality(1..N) = N
    BY <1>1, FS_Interval
<1>6. IsFiniteSet(ReportedKeys) /\ Cardinality(ReportedKeys) = N
    <2>1. PICK q : q = [i \in 1..N |-> p[i]]
        OBVIOUS
    <2>2. q \in Surjection(1..N, ReportedKeys)
        BY <1>4, <2>1 DEF Surjection
    <2>3. q \in Injection(1..N, ReportedKeys)
        BY <1>1, <1>4, <2>1 DEF Injection, IsInjective
    <2>. QED
        BY <1>5, <2>2, <2>3, FS_Surjection
<1>7. ASSUME NEW g, DOMAIN g = 1..N, NEW f, DOMAIN f = ReportedKeys,
             \A k \in ReportedKeys : f[k] \in Int,
             \A i \in 1..N : g[i] = f[p[i]]
      PROVE  Addable(g) /\ SumFunction(g) = SumFunction(f)
    <2>1. Addable(f)
        BY <1>6, <1>7 DEF Addable
    <2>2. Addable(g)
        BY <1>4, <1>5, <1>7 DEF Addable
    <2>. QED
        BY <1>1, <1>3, <1>4, <1>7, <2>1, <2>2, SumRenamed
<1>8. ASSUME NEW t \in 1..times
      PROVE  /\ Addable([i \in 1..N |-> s[i].values[t]])
             /\ SumFunction([i \in 1..N |-> s[i].values[t]])
                 = SumFunction([k \in ReportedKeys |-> Cost(k, t)])
    <2> DEFINE g == [i \in 1..N |-> s[i].values[t]]
               f == [k \in ReportedKeys |-> Cost(k, t)]
    <2>1. \A k \in ReportedKeys : f[k] \in Int
        BY CostTyped
    <2>2. \A i \in 1..N : g[i] = f[p[i]]
        BY <1>2, <1>4
    <2>3. DOMAIN g = 1..N /\ DOMAIN f = ReportedKeys
        OBVIOUS
    <2> HIDE DEF f, g
    <2>4. Addable(g) /\ SumFunction(g) = SumFunction(f)
        BY <1>7, <2>1, <2>2, <2>3
    <2>. QED
        BY <2>4 DEF f, g
<1>9. /\ Addable([i \in 1..N |-> s[i].total])
      /\ SumFunction([i \in 1..N |-> s[i].total])
            = SumFunction([k \in ReportedKeys |-> CostOf(k)])
    <2> DEFINE g == [i \in 1..N |-> s[i].total]
               f == [k \in ReportedKeys |-> CostOf(k)]
    <2>1. \A k \in ReportedKeys : f[k] \in Int
        BY CostTyped
    <2>2. \A i \in 1..N : g[i] = f[p[i]]
        BY <1>2, <1>4
    <2>3. DOMAIN g = 1..N /\ DOMAIN f = ReportedKeys
        OBVIOUS
    <2> HIDE DEF f, g
    <2>4. Addable(g) /\ SumFunction(g) = SumFunction(f)
        BY <1>7, <2>1, <2>2, <2>3
    <2>. QED
        BY <2>4 DEF f, g
<1>. QED
    BY <1>6, <1>8, <1>9

\* What Fold makes of a line-up.
LEMMA FoldShape ==
    ASSUME Collected, NEW s, NEW N, Lineup(s, N), NEW gs, gs = Fold(s)
    PROVE  /\ N <= MaxGroups => gs = s
           /\ N > MaxGroups =>
                /\ DOMAIN gs = 1..(MaxGroups + 1)
                /\ Len(gs) = MaxGroups + 1
                /\ \A i \in 1..MaxGroups : gs[i] = s[i]
                /\ gs[MaxGroups + 1].key = Other
                /\ gs[MaxGroups + 1].values = [t \in 1..times |->
                        SumFunction([i \in (MaxGroups + 1)..N |-> s[i].values[t]])]
                /\ gs[MaxGroups + 1].total =
                        SumFunction([i \in (MaxGroups + 1)..N |-> s[i].total])
<1>1. /\ N \in Nat /\ s \in Seq(Group) /\ DOMAIN s = 1..N
      /\ MaxGroups \in Nat
    BY AggregateAssumption DEF Lineup
<1>2. Len(s) = N
    BY <1>1, LenProperties
<1>3. N <= MaxGroups => gs = s
    BY <1>2 DEF Fold
<1>4. ASSUME N > MaxGroups
      PROVE  /\ DOMAIN gs = 1..(MaxGroups + 1)
             /\ Len(gs) = MaxGroups + 1
             /\ \A i \in 1..MaxGroups : gs[i] = s[i]
             /\ gs[MaxGroups + 1].key = Other
             /\ gs[MaxGroups + 1].values = [t \in 1..times |->
                     SumFunction([i \in (MaxGroups + 1)..N |-> s[i].values[t]])]
             /\ gs[MaxGroups + 1].total =
                     SumFunction([i \in (MaxGroups + 1)..N |-> s[i].total])
    <2> DEFINE e == [key |-> Other,
                     values |-> [t \in 1..times |->
                        SumFunction([i \in (MaxGroups + 1)..N |-> s[i].values[t]])],
                     total |->
                        SumFunction([i \in (MaxGroups + 1)..N |-> s[i].total])]
               G == Group \cup {e}
               front == SubSeq(s, 1, MaxGroups)
    <2>1. gs = Append(front, e)
        BY <1>1, <1>2, <1>4 DEF Fold
    <2>2. /\ e \in G
          /\ e.key = Other
          /\ e.values = [t \in 1..times |->
                SumFunction([i \in (MaxGroups + 1)..N |-> s[i].values[t]])]
          /\ e.total = SumFunction([i \in (MaxGroups + 1)..N |-> s[i].total])
        OBVIOUS
    <2>3. \A i \in 1..MaxGroups : s[i] \in G
        <3>1. \A i \in 1..N : s[i] \in Group
            BY <1>1, <1>2, ElementOfSeq
        <3>. QED
            BY <1>1, <1>4, <3>1
    <2> HIDE DEF e, G
    <2>4. /\ front \in Seq(G)
          /\ Len(front) = MaxGroups
          /\ \A i \in 1..MaxGroups : front[i] = s[i]
        <3>1. /\ front \in Seq(G)
              /\ Len(front) = IF 1 <= MaxGroups THEN MaxGroups - 1 + 1 ELSE 0
              /\ \A i \in 1..(MaxGroups - 1 + 1) : front[i] = s[1 + i - 1]
            BY <1>1, <2>3, SubSeqProperties
        <3>2. MaxGroups - 1 + 1 = MaxGroups
            BY <1>1
        <3>3. \A i \in 1..MaxGroups : 1 + i - 1 = i
            OBVIOUS
        <3>. QED
            BY <1>1, <3>1, <3>2, <3>3
    <2> HIDE DEF front
    <2>5. /\ Append(front, e) \in Seq(G)
          /\ Len(Append(front, e)) = MaxGroups + 1
          /\ \A i \in 1..MaxGroups : Append(front, e)[i] = front[i]
          /\ Append(front, e)[MaxGroups + 1] = e
        BY <2>2, <2>4, AppendProperties
    <2>6. DOMAIN Append(front, e) = 1..(MaxGroups + 1)
        BY <2>5, LenProperties
    <2>. QED
        BY <2>1, <2>2, <2>4, <2>5, <2>6
<1>. QED
    BY <1>3, <1>4

\* The part of it that has nothing to do with sums.
LEMMA FoldKeepsFront ==
    ASSUME Collected, NEW s, NEW N, Lineup(s, N), NEW gs, gs = Fold(s)
    PROVE  /\ N <= MaxGroups => gs = s
           /\ N > MaxGroups =>
                /\ DOMAIN gs = 1..(MaxGroups + 1)
                /\ Len(gs) = MaxGroups + 1
                /\ \A i \in 1..MaxGroups : gs[i] = s[i]
                /\ gs[MaxGroups + 1].key = Other
                /\ DOMAIN gs[MaxGroups + 1].values = 1..times
<1>1. CASE N <= MaxGroups
    <2>1. Len(s) = N
        BY LenProperties DEF Lineup
    <2>2. gs = s
        BY <1>1, <2>1 DEF Fold
    <2>3. ~ (N > MaxGroups)
        BY <1>1, AggregateAssumption DEF Lineup
    <2>. QED
        BY <2>2, <2>3
<1>2. CASE ~ (N <= MaxGroups)
    <2>1. /\ DOMAIN gs = 1..(MaxGroups + 1)
          /\ Len(gs) = MaxGroups + 1
          /\ \A i \in 1..MaxGroups : gs[i] = s[i]
          /\ gs[MaxGroups + 1].key = Other
          /\ gs[MaxGroups + 1].values = [t \in 1..times |->
                  SumFunction([i \in (MaxGroups + 1)..N |-> s[i].values[t]])]
          /\ gs[MaxGroups + 1].total =
                  SumFunction([i \in (MaxGroups + 1)..N |-> s[i].total])
        <3>1. N > MaxGroups
            BY <1>2, AggregateAssumption DEF Lineup
        <3>. QED
            BY <3>1, FoldShape
    <2>2. DOMAIN gs[MaxGroups + 1].values = 1..times
        BY <2>1
    <2>. QED
        BY <1>2, <2>1, <2>2
<1>. QED
    BY <1>1, <1>2

\* Folding loses nothing.
LEMMA FoldSums ==
    ASSUME Collected, NEW s, NEW N, Lineup(s, N), NEW gs, gs = Fold(s)
    PROVE  /\ \A t \in 1..times :
                SumFunction([i \in DOMAIN gs |-> gs[i].values[t]])
                    = SumFunction([i \in 1..N |-> s[i].values[t]])
           /\ SumFunction([i \in DOMAIN gs |-> gs[i].total])
                = SumFunction([i \in 1..N |-> s[i].total])
<1> DEFINE M == MaxGroups
<1>1. N \in Nat /\ M \in Nat /\ DOMAIN s = 1..N
    BY AggregateAssumption DEF Lineup
<1>2. CASE N <= M
    <2>1. gs = s
        BY <1>2, FoldShape
    <2>. QED
        BY <1>1, <2>1
<1>3. CASE N > M
    <2>1. /\ DOMAIN gs = 1..(M + 1)
          /\ \A i \in 1..M : gs[i] = s[i]
          /\ gs[M + 1].values = [t \in 1..times |->
                    SumFunction([i \in (M + 1)..N |-> s[i].values[t]])]
          /\ gs[M + 1].total = SumFunction([i \in (M + 1)..N |-> s[i].total])
        BY <1>3, FoldShape
    <2>2. /\ \A t \in 1..times :
                gs[M + 1].values[t] =
                    SumFunction([i \in (M + 1)..N |-> s[i].values[t]])
          /\ gs[M + 1].total = SumFunction([i \in (M + 1)..N |-> s[i].total])
        BY <2>1
    <2>3. /\ \A t \in 1..times : Addable([i \in 1..N |-> s[i].values[t]])
          /\ Addable([i \in 1..N |-> s[i].total])
        BY LineupSums
    <2> HIDE DEF M
    <2>4. M < N /\ (M + 1)..N \subseteq 1..N /\ M + 1 \in 1..(M + 1)
          /\ 1..M \subseteq 1..(M + 1) /\ 1..M \subseteq 1..N
        BY <1>1, <1>3
    <2>5. ASSUME NEW t \in 1..times
          PROVE  SumFunction([i \in DOMAIN gs |-> gs[i].values[t]])
                    = SumFunction([i \in 1..N |-> s[i].values[t]])
        <3> DEFINE f == [i \in 1..N |-> s[i].values[t]]
                   g == [i \in DOMAIN gs |-> gs[i].values[t]]
                   rest == [i \in (M + 1)..N |-> f[i]]
        <3>1. \A i \in 1..N : f[i] \in Int
            BY <2>3 DEF Addable
        <3>2. \A i \in 1..M : g[i] = f[i]
            BY <2>1, <2>4
        <3>3. rest = [i \in (M + 1)..N |-> s[i].values[t]]
            BY <2>4
        <3>4. g[M + 1] = SumFunction(rest)
            BY <2>1, <2>2, <2>4, <3>3
        <3>5. DOMAIN g = 1..(M + 1) /\ DOMAIN f = 1..N
            BY <2>1
        <3> HIDE DEF f, g
        <3>6. SumFunction(g) = SumFunction(f)
            BY <1>1, <2>4, <3>1, <3>2, <3>4, <3>5, TailFolded
        <3>. QED
            BY <3>6 DEF f, g
    <2>6. SumFunction([i \in DOMAIN gs |-> gs[i].total])
            = SumFunction([i \in 1..N |-> s[i].total])
        <3> DEFINE f == [i \in 1..N |-> s[i].total]
                   g == [i \in DOMAIN gs |-> gs[i].total]
                   rest == [i \in (M + 1)..N |-> f[i]]
        <3>1. \A i \in 1..N : f[i] \in Int
            BY <2>3 DEF Addable
        <3>2. \A i \in 1..M : g[i] = f[i]
            BY <2>1, <2>4
        <3>3. rest = [i \in (M + 1)..N |-> s[i].total]
            BY <2>4
        <3>4. g[M + 1] = SumFunction(rest)
            BY <2>1, <2>2, <2>4, <3>3
        <3>5. DOMAIN g = 1..(M + 1) /\ DOMAIN f = 1..N
            BY <2>1
        <3> HIDE DEF f, g
        <3>6. SumFunction(g) = SumFunction(f)
            BY <1>1, <2>4, <3>1, <3>2, <3>4, <3>5, TailFolded
        <3>. QED
            BY <3>6 DEF f, g
    <2>. QED
        BY <2>5, <2>6
<1>. QED
    BY <1>1, <1>2, <1>3

\* The groups that keep their names,
Named(gs) == {i \in DOMAIN gs : gs[i].key # Other}
Names(gs) == {gs[i].key : i \in Named(gs)}

\* are the front of the line.
LEMMA NamedFront ==
    ASSUME Collected, NEW s, NEW N, Lineup(s, N), NEW gs, gs = Fold(s),
           NEW m, m = IF N <= MaxGroups THEN N ELSE MaxGroups
    PROVE  /\ m \in Nat /\ m <= N /\ N \in Nat /\ DOMAIN s = 1..N
           /\ Named(gs) = 1..m
           /\ \A i \in 1..m : gs[i] = s[i] /\ s[i].key # Other
<1>1. /\ N \in Nat /\ MaxGroups \in Nat /\ DOMAIN s = 1..N
      /\ \A i \in 1..N : s[i] \in Group
    BY AggregateAssumption DEF Lineup, Complete
<1>2. \A i \in 1..N : s[i].key # Other
    BY <1>1, AggregateAssumption DEF Group
<1>3. CASE N <= MaxGroups
    <2>1. gs = s /\ m = N
        BY <1>3, FoldKeepsFront
    <2>. QED
        BY <1>1, <1>2, <2>1 DEF Named
<1>4. CASE N > MaxGroups
    <2>1. /\ DOMAIN gs = 1..(MaxGroups + 1)
          /\ \A i \in 1..MaxGroups : gs[i] = s[i]
          /\ gs[MaxGroups + 1].key = Other
        BY <1>4, FoldKeepsFront
    <2>2. m = MaxGroups /\ 1..(m + 1) = (1..m) \cup {m + 1} /\ 1..m \subseteq 1..N
        BY <1>1, <1>4
    <2>. QED
        BY <1>1, <1>2, <1>4, <2>1, <2>2 DEF Named
<1>. QED
    BY <1>1, <1>3, <1>4

\* Every series of the result is aligned, and exact where it keeps its name.
LEMMA ResultExact ==
    ASSUME Collected, NEW s, NEW N, Lineup(s, N), NEW gs, gs = Fold(s)
    PROVE  /\ \A i \in DOMAIN gs : DOMAIN gs[i].values = 1..times
           /\ \A i \in DOMAIN gs : gs[i].key # Other =>
                /\ \A t \in 1..times : gs[i].values[t] = Cost(gs[i].key, t)
                /\ gs[i].total = CostOf(gs[i].key)
<1>1. PICK m : m = IF N <= MaxGroups THEN N ELSE MaxGroups
    OBVIOUS
<1>2. /\ m \in Nat /\ m <= N /\ N \in Nat
      /\ Named(gs) = 1..m
      /\ \A i \in 1..m : gs[i] = s[i]
    BY <1>1, NamedFront
<1>3. ASSUME NEW i \in 1..m
      PROVE  Complete(gs[i])
    <2>1. PICK g : g = gs[i]
        OBVIOUS
    <2>2. i \in 1..N /\ g = s[i]
        BY <1>2, <2>1
    <2>3. Complete(g)
        BY <2>2 DEF Lineup
    <2>. QED
        BY <2>1, <2>3
<1>4. ASSUME NEW i \in DOMAIN gs, i \notin 1..m
      PROVE  DOMAIN gs[i].values = 1..times
    <2>1. CASE N <= MaxGroups
        <3>1. gs = s /\ m = N
            BY <1>1, <2>1, FoldKeepsFront
        <3>2. DOMAIN s = 1..N
            BY DEF Lineup
        <3>. QED
            BY <1>4, <3>1, <3>2
    <2>2. CASE N > MaxGroups
        <3>1. /\ DOMAIN gs = 1..(MaxGroups + 1)
              /\ DOMAIN gs[MaxGroups + 1].values = 1..times
            BY <2>2, FoldKeepsFront
        <3>2. m = MaxGroups
            BY <1>1, <1>2, <2>2, AggregateAssumption
        <3>3. i = MaxGroups + 1
            BY <1>2, <1>4, <3>1, <3>2
        <3>. QED
            BY <3>1, <3>3
    <2>. QED
        BY <1>2, <2>1, <2>2, AggregateAssumption
<1>. QED
    BY <1>2, <1>3, <1>4 DEF Complete, Named

\* The largest keep their names.
LEMMA ResultLargest ==
    ASSUME Collected, NEW s, NEW N, Lineup(s, N), NEW gs, gs = Fold(s),
           \A i, j \in 1..N : i < j => s[i].total >= s[j].total
    PROVE  /\ Cardinality(Names(gs)) = Cardinality(Named(gs))
           /\ Names(gs) \subseteq ReportedKeys
           /\ \A i, j \in Named(gs) : i < j => gs[i].total >= gs[j].total
           /\ \A k \in ReportedKeys \ Names(gs), l \in Names(gs) :
                CostOf(k) <= CostOf(l)
           /\ IF Cardinality(ReportedKeys) <= MaxGroups
              THEN Names(gs) = ReportedKeys /\ Len(gs) = Cardinality(Names(gs))
              ELSE /\ Cardinality(Names(gs)) = MaxGroups
                   /\ Len(gs) = MaxGroups + 1
                   /\ gs[MaxGroups + 1].key = Other
<1> DEFINE named == Named(gs)
           names == Names(gs)
<1>1. PICK m : m = IF N <= MaxGroups THEN N ELSE MaxGroups
    OBVIOUS
<1>2. /\ m \in Nat /\ m <= N /\ N \in Nat
      /\ named = 1..m
      /\ \A i \in 1..m : gs[i] = s[i]
    BY <1>1, NamedFront
<1>3. 1..m \subseteq 1..N
    BY <1>2
<1>4. names = {s[i].key : i \in 1..m}
    BY <1>2 DEF Names
<1>5. /\ \A i \in 1..N : s[i].total = CostOf(s[i].key) /\ s[i].total \in Int
      /\ \A i, j \in 1..N : s[i].key = s[j].key => i = j
      /\ ReportedKeys = {s[i].key : i \in 1..N}
    BY DEF Lineup, Complete, Group
<1>6. Cardinality(names) = m /\ Cardinality(named) = m
    <2>1. IsFiniteSet(1..m) /\ Cardinality(1..m) = m
        BY <1>2, FS_Interval
    <2>2. PICK q : q = [i \in 1..m |-> s[i].key]
        OBVIOUS
    <2>3. q \in Surjection(1..m, names)
        BY <1>4, <2>2 DEF Surjection
    <2>4. q \in Injection(1..m, names)
        BY <1>3, <1>4, <1>5, <2>2 DEF Injection, IsInjective
    <2>. QED
        BY <1>2, <2>1, <2>3, <2>4, FS_Surjection
<1>7. names \subseteq ReportedKeys
    BY <1>3, <1>4, <1>5
<1>8. \A i, j \in named : i < j => gs[i].total >= gs[j].total
    <2> SUFFICES ASSUME NEW i \in 1..m, NEW j \in 1..m, i < j
                 PROVE  gs[i].total >= gs[j].total
        BY <1>2
    <2>1. i \in 1..N /\ j \in 1..N /\ gs[i] = s[i] /\ gs[j] = s[j]
        BY <1>2, <1>3
    <2>. QED
        BY <2>1
<1>9. \A k \in ReportedKeys \ names, l \in names : CostOf(k) <= CostOf(l)
    <2> SUFFICES ASSUME NEW k \in ReportedKeys \ names, NEW l \in names
                 PROVE  CostOf(k) <= CostOf(l)
        OBVIOUS
    <2>1. PICK i \in 1..N : s[i].key = k
        BY <1>5
    <2>2. PICK j \in 1..m : s[j].key = l
        BY <1>4
    <2>3. i \notin 1..m
        BY <1>4, <2>1
    <2>4. j < i /\ j \in 1..N
        BY <1>2, <2>3
    <2>5. s[j].total >= s[i].total
        BY <2>4
    <2>6. s[j].total = CostOf(l) /\ s[i].total = CostOf(k)
          /\ s[j].total \in Int /\ s[i].total \in Int
        BY <1>5, <2>1, <2>2, <2>4
    <2>. QED
        BY <2>5, <2>6
<1>10. Cardinality(ReportedKeys) = N
    BY LineupSums
<1>11. CASE N <= MaxGroups
    <2>1. gs = s /\ m = N
        BY <1>1, <1>11, FoldKeepsFront
    <2>2. Len(s) = N
        BY <1>2, LenProperties DEF Lineup
    <2>. QED
        BY <1>4, <1>5, <1>6, <1>7, <1>8, <1>9, <1>10, <1>11, <2>1, <2>2
<1>12. CASE ~ (N <= MaxGroups)
    <2>1. N > MaxGroups /\ m = MaxGroups
        BY <1>1, <1>2, <1>12, AggregateAssumption
    <2>2. Len(gs) = MaxGroups + 1 /\ gs[MaxGroups + 1].key = Other
        BY <2>1, FoldKeepsFront
    <2>. QED
        BY <1>6, <1>7, <1>8, <1>9, <1>10, <1>12, <2>1, <2>2
<1>. QED
    BY <1>11, <1>12

-----------------------------------------------------------------------------
(* The theorems about SeriesAggregate.                                     *)

\* Results that hold when aggregate returns, and until then vacuously.
ResultInv == GroupsExact /\ CostConserved /\ LargestKeepTheirNames

\* aggregate's last part makes a result as promised.
LEMMA FinishDelivers ==
    ASSUME Collected, Finish
    PROVE  ResultInv'
<1> DEFINE N == Len(groups)
<1>1. PICK s : s = Sorted(Filled)
    OBVIOUS
<1>2. PICK gs : gs = Fold(s)
    OBVIOUS
<1>3. groups' = gs /\ times' = times /\ reported' = reported /\ total' = GrandTotal
    BY <1>1, <1>2 DEF Finish
<1>4. /\ \A k, t : Cost(k, t)' = Cost(k, t)
      /\ \A k : CostOf(k)' = CostOf(k)
      /\ ReportedKeys' = ReportedKeys
    BY <1>3 DEF Cost, CostOf, ReportedKeys
<1>5. Lineup(Filled, N) /\ \A i \in DOMAIN groups : Filled[i].total = groups[i].total
    BY FilledLineup
<1>6. /\ Lineup(s, N)
      /\ \A i, j \in 1..N : i < j => s[i].total >= s[j].total
    BY <1>1, <1>5, SortedLineup
<1>7. GroupsExact'
    <2>1. /\ \A i \in DOMAIN gs : DOMAIN gs[i].values = 1..times
          /\ \A i \in DOMAIN gs : gs[i].key # Other =>
                /\ \A t \in 1..times : gs[i].values[t] = Cost(gs[i].key, t)
                /\ gs[i].total = CostOf(gs[i].key)
        BY <1>2, <1>6, ResultExact
    <2>. QED
        BY <1>3, <1>4, <2>1 DEF GroupsExact
<1>8. CostConserved'
    <2>1. /\ \A t \in 1..times :
                SumFunction([i \in DOMAIN gs |-> gs[i].values[t]])
                    = SumFunction([k \in ReportedKeys |-> Cost(k, t)])
          /\ SumFunction([i \in DOMAIN gs |-> gs[i].total])
                = SumFunction([k \in ReportedKeys |-> CostOf(k)])
        <3>1. /\ \A t \in 1..times :
                    SumFunction([i \in DOMAIN gs |-> gs[i].values[t]])
                        = SumFunction([i \in 1..N |-> s[i].values[t]])
              /\ SumFunction([i \in DOMAIN gs |-> gs[i].total])
                    = SumFunction([i \in 1..N |-> s[i].total])
            BY <1>2, <1>6, FoldSums
        <3>2. /\ \A t \in 1..times :
                    SumFunction([i \in 1..N |-> s[i].values[t]])
                        = SumFunction([k \in ReportedKeys |-> Cost(k, t)])
              /\ SumFunction([i \in 1..N |-> s[i].total])
                    = SumFunction([k \in ReportedKeys |-> CostOf(k)])
            BY <1>6, LineupSums
        <3>. QED
            BY <3>1, <3>2
    <2>2. GrandTotal = SumFunction([k \in ReportedKeys |-> CostOf(k)])
        <3>1. SumFunction([i \in 1..N |-> Filled[i].total])
                = SumFunction([k \in ReportedKeys |-> CostOf(k)])
            BY <1>5, LineupSums
        <3>2. DOMAIN groups = 1..N
            BY LenProperties DEF Collected
        <3>3. [i \in 1..N |-> Filled[i].total]
                = [i \in DOMAIN groups |-> groups[i].total]
            BY <1>5, <3>2
        <3>. QED
            BY <3>1, <3>3 DEF GrandTotal
    <2>. QED
        BY <1>3, <1>4, <2>1, <2>2 DEF CostConserved
<1>9. LargestKeepTheirNames'
    <2>1. /\ Cardinality(Names(gs)) = Cardinality(Named(gs))
          /\ Names(gs) \subseteq ReportedKeys
          /\ \A i, j \in Named(gs) : i < j => gs[i].total >= gs[j].total
          /\ \A k \in ReportedKeys \ Names(gs), l \in Names(gs) :
                CostOf(k) <= CostOf(l)
          /\ IF Cardinality(ReportedKeys) <= MaxGroups
             THEN Names(gs) = ReportedKeys /\ Len(gs) = Cardinality(Names(gs))
             ELSE /\ Cardinality(Names(gs)) = MaxGroups
                  /\ Len(gs) = MaxGroups + 1
                  /\ gs[MaxGroups + 1].key = Other
        BY <1>2, <1>6, ResultLargest
    <2>. QED
        BY <1>3, <1>4, <2>1 DEF LargestKeepTheirNames, Named, Names
<1>. QED
    BY <1>7, <1>8, <1>9 DEF ResultInv

\* The invariant of aggregate: groups up to date while periods come in, and a
\* result as promised once it has returned.
AggregateInv == CollectedInv /\ ResultInv

LEMMA AggregateInvCorrect == Spec => []AggregateInv
<1>1. Init => AggregateInv
    BY InitCollected DEF Init, AggregateInv, ResultInv, GroupsExact,
        CostConserved, LargestKeepTheirNames
<1>2. AggregateInv /\ [Next]_vars => AggregateInv'
    <2> SUFFICES ASSUME AggregateInv, [Next]_vars
                 PROVE  AggregateInv'
        OBVIOUS
    <2>1. CASE NextPeriod
        <3>1. Collected /\ done' = FALSE
            BY <2>1 DEF AggregateInv, CollectedInv, NextPeriod
        <3>2. Collected'
            BY <2>1, <3>1, NextPeriodKeeps
        <3>. QED
            BY <3>1, <3>2 DEF AggregateInv, CollectedInv, ResultInv,
                GroupsExact, CostConserved, LargestKeepTheirNames
    <2>2. ASSUME NEW k \in Keys, NEW amount \in Amounts, AddGroup(k, amount)
          PROVE  AggregateInv'
        <3>1. Collected /\ done' = FALSE /\ amount \in Int
            BY <2>2, AggregateAssumption DEF AggregateInv, CollectedInv, AddGroup
        <3>2. Collected'
            BY <2>2, <3>1, AddGroupKeeps
        <3>. QED
            BY <3>1, <3>2 DEF AggregateInv, CollectedInv, ResultInv,
                GroupsExact, CostConserved, LargestKeepTheirNames
    <2>3. CASE Finish
        <3>1. Collected /\ done' = TRUE
            BY <2>3 DEF AggregateInv, CollectedInv, Finish
        <3>2. ResultInv'
            BY <2>3, <3>1, FinishDelivers
        <3>. QED
            BY <3>1, <3>2 DEF AggregateInv, CollectedInv
    <2>4. CASE UNCHANGED vars
        <3>1. /\ \A k, t : Cost(k, t)' = Cost(k, t)
              /\ \A k : CostOf(k)' = CostOf(k)
              /\ ReportedKeys' = ReportedKeys
            BY <2>4 DEF vars, Cost, CostOf, ReportedKeys
        <3>2. CollectedInv'
            BY <2>4, <3>1 DEF vars, AggregateInv, CollectedInv, Collected,
                UpToDate, IndexOf
        <3>3. ResultInv'
            BY <2>4, <3>1 DEF vars, AggregateInv, ResultInv, GroupsExact,
                CostConserved, LargestKeepTheirNames
        <3>. QED
            BY <3>2, <3>3 DEF AggregateInv
    <2>. QED
        BY <2>1, <2>2, <2>3, <2>4 DEF Next
<1>. QED
    BY <1>1, <1>2, PTL DEF Spec

\* Every series of the result lines up with the periods, and each group that
\* keeps its name shows what it reported, period by period and in total.
THEOREM GroupsExactCorrect == Spec => []GroupsExact
BY AggregateInvCorrect, PTL DEF AggregateInv, ResultInv

\* Sorting and folding lose no money, in no period and not in the total.
THEOREM CostConservedCorrect == Spec => []CostConserved
BY AggregateInvCorrect, PTL DEF AggregateInv, ResultInv

\* The cap takes the smallest groups' names, and only when it must.
THEOREM LargestKeepTheirNamesCorrect == Spec => []LargestKeepTheirNames
BY AggregateInvCorrect, PTL DEF AggregateInv, ResultInv

-----------------------------------------------------------------------------
(* SummaryTotals.  The invariant.                                          *)

Row == [service: Services, amount: Int]

TotalsTyped ==
    /\ step \in Reports \cup {"totals", "done"}
    /\ rows \in [Reports -> Seq(Row)]
    /\ DOMAIN totals = Reports
    /\ \A b \in Reports :
        /\ IsFiniteSet(DOMAIN totals[b])
        /\ DOMAIN totals[b] \subseteq Services
        /\ \A s \in DOMAIN totals[b] : totals[b][s] \in Int
    /\ left \in [Reports -> SUBSET Services]
    /\ sum \in [Reports -> Int]

\* The map of report b is what its rows add up to, service by service and all
\* together.
MapExact(b) ==
    /\ \A s : Get(totals[b], s) = Reported(b, s)
    /\ SumFunction(totals[b]) = ReportedAll(b)

\* What the range over the map of b has added up, and what it still has to.
Tallied(b) ==
    /\ left[b] \subseteq DOMAIN totals[b]
    /\ sum[b] + SumFunction([s \in left[b] |-> totals[b][s]])
        = SumFunction(totals[b])

\* The reports are read one after the other, and both before the ranges start.
RangesInOrder ==
    /\ step \in Reports => \A b \in Reports : sum[b] = 0
    /\ step = "previous" => left["current"] = DOMAIN totals["current"]
    /\ step \in {"totals", "done"} => \A b \in Reports : Tallied(b)

TotalsInv ==
    /\ TotalsTyped
    /\ \A b \in Reports : MapExact(b)
    /\ RangesInOrder

-----------------------------------------------------------------------------
(* Sums over maps.                                                         *)

\* An amount put into a map.
LEMMA PutAdds ==
    ASSUME NEW map, Addable(map), NEW s, NEW v \in Int
    PROVE  /\ Addable(Put(map, s, v))
           /\ DOMAIN Put(map, s, v) = DOMAIN map \cup {s}
           /\ SumFunction(Put(map, s, v)) = SumFunction(map) + v
           /\ Get(Put(map, s, v), s) = Get(map, s) + v
           /\ \A t : t # s => Get(Put(map, s, v), t) = Get(map, t)
<1> DEFINE p == Put(map, s, v)
<1>1. /\ DOMAIN p = DOMAIN map \cup {s}
      /\ p[s] = Get(map, s) + v
      /\ \A t \in DOMAIN map \ {s} : p[t] = map[t]
    BY DEF Put
<1>2. Get(map, s) \in Int
    BY DEF Get, Addable
<1> HIDE DEF p
<1>3. Addable(p)
    <2>1. IsFiniteSet(DOMAIN map \cup {s})
        BY FS_AddElement DEF Addable
    <2>2. \A t \in DOMAIN p : p[t] \in Int
        BY <1>1, <1>2 DEF Addable
    <2>. QED
        BY <1>1, <2>1, <2>2 DEF Addable
<1>4. SumFunction(map) \in Int
    BY SumTyped
<1>5. CASE s \in DOMAIN map
    <2>1. DOMAIN p = DOMAIN map /\ \A t \in DOMAIN map \ {s} : map[t] = p[t]
        BY <1>1, <1>5
    <2>2. SumFunction(p) = SumFunction(map) - map[s] + p[s]
        BY <1>3, <1>5, <2>1, SumChanged
    <2>3. p[s] = map[s] + v /\ map[s] \in Int
        BY <1>1, <1>5 DEF Get, Addable
    <2>. QED
        BY <1>1, <1>3, <1>4, <2>2, <2>3 DEF p, Get
<1>6. CASE s \notin DOMAIN map
    <2>1. /\ DOMAIN map = DOMAIN p \ {s} /\ s \in DOMAIN p
          /\ \A t \in DOMAIN map : p[t] = map[t]
        BY <1>1, <1>6
    <2>2. SumFunction(p) = p[s] + SumFunction(map)
        BY <1>3, <2>1, SumOneMore
    <2>3. p[s] = v
        BY <1>1, <1>6 DEF Get
    <2>. QED
        BY <1>1, <1>3, <1>4, <1>6, <2>2, <2>3 DEF p, Get
<1>. QED
    BY <1>5, <1>6

\* Services that are not in a map add nothing to it.
LEMMA SumOverMore ==
    ASSUME NEW map, Addable(map), NEW S, IsFiniteSet(S), DOMAIN map \subseteq S
    PROVE  /\ Addable([s \in S |-> Get(map, s)])
           /\ SumFunction([s \in S |-> Get(map, s)]) = SumFunction(map)
<1> DEFINE f == [s \in S |-> Get(map, s)]
           h == [s \in S \ DOMAIN map |-> 0]
<1>1. Addable(f)
    BY DEF Addable, Get
<1>2. /\ DOMAIN f = DOMAIN map \cup DOMAIN h /\ DOMAIN map \cap DOMAIN h = {}
      /\ \A x \in DOMAIN map : f[x] = map[x]
      /\ \A x \in DOMAIN h : f[x] = h[x]
    BY DEF Get
<1>3. SumFunction(h) = 0
    <2>1. IsFiniteSet(S \ DOMAIN map)
        BY FS_Subset
    <2>. QED
        BY <2>1, SumOfZeros
<1> HIDE DEF f, h
<1>4. SumFunction(f) = SumFunction(map) + SumFunction(h)
    BY <1>1, <1>2, SumInParts
<1>5. SumFunction(map) \in Int
    BY SumTyped
<1>. QED
    BY <1>1, <1>3, <1>4, <1>5 DEF f

-----------------------------------------------------------------------------
(* The invariant of SummaryTotals is kept.                                 *)

LEMMA InitTotals == TotalsInit => TotalsInv
<1> SUFFICES ASSUME TotalsInit
             PROVE  TotalsInv
    OBVIOUS
<1>1. /\ step = "current"
      /\ rows = [b \in Reports |-> << >>]
      /\ totals = [b \in Reports |-> EmptyMap]
      /\ left = [b \in Reports |-> {}]
      /\ sum = [b \in Reports |-> 0]
    BY DEF TotalsInit
<1>2. DOMAIN EmptyMap = {} /\ IsFiniteSet({})
    BY FS_EmptySet DEF EmptyMap
<1>3. << >> \in Seq(Row) /\ DOMAIN << >> = {}
    BY EmptySeq
<1>4. TotalsTyped
    BY <1>1, <1>2, <1>3 DEF TotalsTyped, Reports
<1>5. ASSUME NEW b \in Reports
      PROVE  MapExact(b)
    <2>1. totals[b] = EmptyMap /\ rows[b] = << >>
        BY <1>1, <1>5
    <2>2. ASSUME NEW f, DOMAIN f = {}
          PROVE  SumFunction(f) = 0
        BY <1>2, <2>2, SumTyped DEF Addable
    <2>3. \A s : Get(totals[b], s) = 0
        BY <1>2, <2>1 DEF Get
    <2>4. \A s : Reported(b, s) = 0
        BY <1>3, <2>1, <2>2 DEF Reported
    <2>5. ReportedAll(b) = 0
        BY <1>3, <2>1, <2>2 DEF ReportedAll
    <2>6. SumFunction(totals[b]) = 0
        BY <1>2, <2>1, <2>2
    <2>. QED
        BY <2>3, <2>4, <2>5, <2>6 DEF MapExact
<1>6. RangesInOrder
    BY <1>1 DEF RangesInOrder, Reports
<1>. QED
    BY <1>4, <1>5, <1>6 DEF TotalsInv

\* The maps can be added up.
LEMMA MapsAddable ==
    ASSUME TotalsTyped, NEW b \in Reports
    PROVE  Addable(totals[b])
BY DEF TotalsTyped, Addable

\* A row goes into the map of its report.
LEMMA ReadRowKeeps ==
    ASSUME TotalsInv, NEW s \in Services, NEW v \in Int, ReadRow(s, v)
    PROVE  TotalsInv'
<1>1. /\ step \in Reports /\ step' = step /\ left' = left /\ sum' = sum
      /\ TotalsTyped /\ RangesInOrder
    BY DEF TotalsInv, ReadRow
<1>2. PICK row : row = [service |-> s, amount |-> v]
    OBVIOUS
<1>3. row \in Row /\ row.service = s /\ row.amount = v
    BY <1>2 DEF Row
<1>4. PICK q : q = rows[step]
    OBVIOUS
<1>5. PICK map : map = totals[step]
    OBVIOUS
<1>6. /\ q \in Seq(Row)
      /\ Addable(map)
      /\ DOMAIN map \subseteq Services
    BY <1>1, <1>4, <1>5, MapsAddable DEF TotalsTyped
<1>7. /\ rows' = [rows EXCEPT ![step] = Append(q, row)]
      /\ totals' = [totals EXCEPT ![step] = Put(map, s, v)]
    BY <1>2, <1>4, <1>5 DEF ReadRow
<1> DEFINE n == Len(q)
<1>8. /\ n \in Nat /\ DOMAIN q = 1..n
      /\ \A i \in 1..n : q[i] \in Row
    BY <1>6, LenProperties, ElementOfSeq
<1>9. PICK r : r = Append(q, row)
    OBVIOUS
<1>10. /\ r \in Seq(Row)
       /\ DOMAIN r = 1..(n + 1)
       /\ \A i \in 1..n : r[i] = q[i]
       /\ r[n + 1] = row
    <2>1. /\ r \in Seq(Row)
          /\ Len(r) = n + 1
          /\ \A i \in 1..n : r[i] = q[i]
          /\ r[n + 1] = row
        BY <1>3, <1>6, <1>9, AppendProperties
    <2>. QED
        BY <2>1, LenProperties
<1> HIDE DEF n
<1>11. PICK new : new = Put(map, s, v)
    OBVIOUS
<1>12. /\ Addable(new)
       /\ DOMAIN new = DOMAIN map \cup {s}
       /\ SumFunction(new) = SumFunction(map) + v
       /\ \A t : Get(new, t) = IF t = s THEN Get(map, t) + v ELSE Get(map, t)
    <2>1. /\ Addable(Put(map, s, v))
          /\ DOMAIN Put(map, s, v) = DOMAIN map \cup {s}
          /\ SumFunction(Put(map, s, v)) = SumFunction(map) + v
          /\ Get(Put(map, s, v), s) = Get(map, s) + v
          /\ \A t : t # s => Get(Put(map, s, v), t) = Get(map, t)
        BY <1>6, PutAdds
    <2>. QED
        BY <1>11, <2>1
<1>13. /\ rows'[step] = r /\ totals'[step] = new
       /\ \A b \in Reports \ {step} : rows'[b] = rows[b] /\ totals'[b] = totals[b]
       /\ DOMAIN totals' = Reports
    BY <1>1, <1>7, <1>9, <1>11 DEF TotalsTyped
<1>14. TotalsTyped'
    <2>1. rows' \in [Reports -> Seq(Row)]
        BY <1>1, <1>7, <1>9, <1>10 DEF TotalsTyped
    <2>2. ASSUME NEW b \in Reports
          PROVE  /\ IsFiniteSet(DOMAIN totals'[b])
                 /\ DOMAIN totals'[b] \subseteq Services
                 /\ \A t \in DOMAIN totals'[b] : totals'[b][t] \in Int
        <3>1. CASE b = step
            BY <1>6, <1>12, <1>13, <3>1 DEF Addable
        <3>2. CASE b # step
            BY <1>1, <1>13, <3>2 DEF TotalsTyped
        <3>. QED
            BY <3>1, <3>2
    <2>. QED
        BY <1>1, <1>13, <2>1, <2>2 DEF TotalsTyped
<1>15. ASSUME NEW t
       PROVE  Reported(step, t)' = Reported(step, t) + IF t = s THEN v ELSE 0
    <2> DEFINE f == [i \in DOMAIN q |-> IF q[i].service = t THEN q[i].amount ELSE 0]
               g == [i \in DOMAIN r |-> IF r[i].service = t THEN r[i].amount ELSE 0]
    <2>1. Reported(step, t) = SumFunction(f)
        BY <1>4 DEF Reported
    <2>2. Reported(step, t)' = SumFunction(g)
        BY <1>1, <1>13 DEF Reported
    <2>3. DOMAIN f = 1..n /\ DOMAIN g = 1..(n + 1)
        BY <1>8, <1>10
    <2>4. \A i \in 1..n : f[i] \in Int
        BY <1>8 DEF Row
    <2>5. \A i \in 1..n : g[i] = f[i]
        BY <1>8, <1>10
    <2>6. n + 1 \in 1..(n + 1) /\ g[n + 1] = IF t = s THEN v ELSE 0
        BY <1>3, <1>8, <1>10
    <2> HIDE DEF f, g
    <2>7. g[n + 1] \in Int
        BY <2>6
    <2>8. SumFunction(g) = SumFunction(f) + g[n + 1]
        BY <1>8, <2>3, <2>4, <2>5, <2>7, SumAppended
    <2>. QED
        BY <2>1, <2>2, <2>6, <2>8
<1>16. ReportedAll(step)' = ReportedAll(step) + v
    <2> DEFINE f == [i \in DOMAIN q |-> q[i].amount]
               g == [i \in DOMAIN r |-> r[i].amount]
    <2>1. ReportedAll(step) = SumFunction(f)
        BY <1>4 DEF ReportedAll
    <2>2. ReportedAll(step)' = SumFunction(g)
        BY <1>1, <1>13 DEF ReportedAll
    <2>3. DOMAIN f = 1..n /\ DOMAIN g = 1..(n + 1)
        BY <1>8, <1>10
    <2>4. \A i \in 1..n : f[i] \in Int
        BY <1>8 DEF Row
    <2>5. \A i \in 1..n : g[i] = f[i]
        BY <1>8, <1>10
    <2>6. n + 1 \in 1..(n + 1) /\ g[n + 1] = v
        BY <1>3, <1>8, <1>10
    <2> HIDE DEF f, g
    <2>7. SumFunction(g) = SumFunction(f) + g[n + 1]
        BY <1>8, <2>3, <2>4, <2>5, <2>6, SumAppended
    <2>. QED
        BY <2>1, <2>2, <2>6, <2>7
<1>17. ASSUME NEW b \in Reports
       PROVE  MapExact(b)'
    <2>1. MapExact(b)
        BY DEF TotalsInv
    <2>2. CASE b = step
        <3>1. /\ \A t : Get(map, t) = Reported(step, t)
              /\ SumFunction(map) = ReportedAll(step)
              /\ \A t : Get(map, t) \in Int
            BY <1>5, <1>6, <2>1, <2>2 DEF MapExact, Get, Addable
        <3>2. \A t : Get(new, t) = Reported(step, t)'
            BY <1>12, <1>15, <3>1
        <3>3. SumFunction(new) = ReportedAll(step)'
            BY <1>12, <1>16, <3>1
        <3>. QED
            BY <1>1, <1>13, <2>2, <3>2, <3>3 DEF MapExact
    <2>3. CASE b # step
        <3>1. rows'[b] = rows[b] /\ totals'[b] = totals[b]
            BY <1>13, <2>3
        <3>. QED
            BY <2>1, <3>1 DEF MapExact, Reported, ReportedAll
    <2>. QED
        BY <2>2, <2>3
<1>18. RangesInOrder'
    BY <1>1, <1>13 DEF RangesInOrder, Reports
<1>. QED
    BY <1>14, <1>17, <1>18 DEF TotalsInv

\* The map is complete.
LEMMA ReportOverKeeps ==
    ASSUME TotalsInv, ReportOver
    PROVE  TotalsInv'
<1>1. /\ step \in Reports
      /\ step' = IF step = "current" THEN "previous" ELSE "totals"
      /\ left' = [left EXCEPT ![step] = DOMAIN totals[step]]
      /\ rows' = rows /\ totals' = totals /\ sum' = sum
      /\ TotalsTyped /\ RangesInOrder
    BY DEF TotalsInv, ReportOver
<1>2. TotalsTyped'
    <2>1. left' \in [Reports -> SUBSET Services]
        BY <1>1 DEF TotalsTyped
    <2>. QED
        BY <1>1, <2>1 DEF TotalsTyped, Reports
<1>3. \A b \in Reports : MapExact(b)'
    BY <1>1 DEF TotalsInv, MapExact, Reported, ReportedAll
<1>4. CASE step = "current"
    <2>1. step' = "previous" /\ left'["current"] = DOMAIN totals'["current"]
        BY <1>1, <1>4 DEF TotalsTyped, Reports
    <2>2. RangesInOrder'
        BY <1>1, <2>1 DEF RangesInOrder, Reports
    <2>. QED
        BY <1>2, <1>3, <2>2 DEF TotalsInv
<1>5. CASE step = "previous"
    <2>1. step' = "totals" /\ \A b \in Reports : left'[b] = DOMAIN totals[b]
        BY <1>1, <1>5 DEF TotalsTyped, RangesInOrder, Reports
    <2>2. ASSUME NEW b \in Reports
          PROVE  Tallied(b)'
        <3>1. PICK map : map = totals[b]
            OBVIOUS
        <3>2. Addable(map)
            BY <1>1, <3>1, MapsAddable
        <3>3. [s \in DOMAIN map |-> map[s]] = [s \in left'[b] |-> totals'[b][s]]
            BY <1>1, <2>1, <3>1
        <3>4. SumFunction([s \in DOMAIN map |-> map[s]]) = SumFunction(map)
            BY <3>2, SumSame
        <3>5. SumFunction(map) \in Int
            BY <3>2, SumTyped
        <3>6. sum'[b] = 0
            BY <1>1 DEF RangesInOrder
        <3>7. sum'[b] + SumFunction([s \in left'[b] |-> totals'[b][s]])
                = SumFunction(totals'[b])
            BY <1>1, <3>1, <3>3, <3>4, <3>5, <3>6
        <3>. QED
            BY <1>1, <2>1, <3>7 DEF Tallied
    <2>3. RangesInOrder'
        BY <2>1, <2>2 DEF RangesInOrder, Reports
    <2>. QED
        BY <1>2, <1>3, <2>3 DEF TotalsInv
<1>. QED
    BY <1>1, <1>4, <1>5 DEF Reports

\* The range over a map moves a service's amount into the tile.
LEMMA AddUpKeeps ==
    ASSUME TotalsInv, NEW b \in Reports, NEW s \in Services, AddUp(b, s)
    PROVE  TotalsInv'
<1>1. /\ step = "totals" /\ step' = step
      /\ s \in left[b]
      /\ sum' = [sum EXCEPT ![b] = @ + totals[b][s]]
      /\ left' = [left EXCEPT ![b] = @ \ {s}]
      /\ rows' = rows /\ totals' = totals
      /\ TotalsTyped /\ RangesInOrder
    BY DEF TotalsInv, AddUp
<1>2. \A c \in Reports : Tallied(c)
    BY <1>1 DEF RangesInOrder
<1>3. PICK map : map = totals[b]
    OBVIOUS
<1>4. Addable(map) /\ s \in DOMAIN map /\ map[s] \in Int
    BY <1>1, <1>2, <1>3, MapsAddable DEF Tallied, Addable
<1>5. /\ sum'[b] = sum[b] + map[s] /\ sum[b] \in Int
      /\ left'[b] = left[b] \ {s}
      /\ \A c \in Reports \ {b} : sum'[c] = sum[c] /\ left'[c] = left[c]
    BY <1>1, <1>3 DEF TotalsTyped
<1>6. TotalsTyped'
    <2>1. left' \in [Reports -> SUBSET Services] /\ sum' \in [Reports -> Int]
        BY <1>1, <1>3, <1>4 DEF TotalsTyped
    <2>. QED
        BY <1>1, <2>1 DEF TotalsTyped
<1>7. ASSUME NEW c \in Reports
      PROVE  MapExact(c)'
    <2>1. MapExact(c)
        BY DEF TotalsInv
    <2>2. rows' = rows /\ totals' = totals
        BY <1>1
    <2>. QED
        BY <2>1, <2>2 DEF MapExact, Reported, ReportedAll
<1>8. Tallied(b)'
    <2> DEFINE f == [t \in left[b] |-> map[t]]
               g == [t \in left[b] \ {s} |-> map[t]]
    <2>1. left[b] \subseteq DOMAIN map /\ sum[b] + SumFunction(f) = SumFunction(map)
        BY <1>2, <1>3 DEF Tallied
    <2>2. DOMAIN f = left[b] /\ DOMAIN g = left[b] \ {s} /\ f[s] = map[s]
          /\ \A y \in DOMAIN g : f[y] = g[y]
        BY <1>1
    <2>3. Addable(f)
        <3>1. IsFiniteSet(left[b])
            BY <1>4, <2>1, FS_Subset DEF Addable
        <3>2. \A t \in left[b] : f[t] \in Int
            BY <1>4, <2>1 DEF Addable
        <3>. QED
            BY <2>2, <3>1, <3>2 DEF Addable
    <2>4. Addable(g)
        BY <2>2, <2>3, FS_Subset DEF Addable
    <2>5. SumFunction([t \in left'[b] |-> totals'[b][t]]) = SumFunction(g)
        BY <1>1, <1>3, <1>5
    <2> HIDE DEF f, g
    <2>6. SumFunction(f) = f[s] + SumFunction(g)
        <3>1. s \in DOMAIN f /\ DOMAIN g = DOMAIN f \ {s}
            BY <1>1, <2>2
        <3>. QED
            BY <2>2, <2>3, <3>1, SumOneMore
    <2>7. SumFunction(f) \in Int /\ SumFunction(g) \in Int
        BY <2>3, <2>4, SumTyped
    <2>8. sum'[b] + SumFunction(g) = SumFunction(map)
        BY <1>4, <1>5, <2>1, <2>2, <2>6, <2>7
    <2>9. left'[b] \subseteq DOMAIN totals'[b]
        BY <1>1, <1>3, <1>5, <2>1
    <2>. QED
        BY <1>1, <1>3, <2>5, <2>8, <2>9 DEF Tallied
<1>9. ASSUME NEW c \in Reports, c # b
      PROVE  Tallied(c)'
    BY <1>1, <1>2, <1>5, <1>9 DEF Tallied
<1>10. RangesInOrder'
    BY <1>1, <1>8, <1>9 DEF RangesInOrder, Reports
<1>. QED
    BY <1>6, <1>7, <1>10 DEF TotalsInv

-----------------------------------------------------------------------------
(* The movers.                                                             *)

\* Services in either report are as many as their movers, and any order of the
\* movers names each of them once.
LEMMA OrderOfMovers ==
    ASSUME TotalsTyped, NEW q \in Orders({Mover(s) : s \in Seen})
    PROVE  /\ IsFiniteSet(Seen)
           /\ Cardinality(Seen) \in Nat
           /\ DOMAIN q = 1..Cardinality(Seen)
           /\ q \in Seq({Mover(s) : s \in Seen})
           /\ \A i \in DOMAIN q : q[i].service \in Seen /\ q[i] = Mover(q[i].service)
           /\ \A i, j \in DOMAIN q : q[i].service = q[j].service => i = j
           /\ \A s \in Seen : \E i \in DOMAIN q : q[i].service = s
           /\ \A i, j \in DOMAIN q : i < j => ~ Larger(q[j], q[i])
<1> DEFINE MS == {Mover(s) : s \in Seen}
           n == Cardinality(MS)
<1>1. IsFiniteSet(Seen)
    BY FS_Union DEF Seen, TotalsTyped, Reports
<1>2. \A s : Mover(s).service = s
    BY DEF Mover
<1>3. IsFiniteSet(MS) /\ Cardinality(MS) = Cardinality(Seen)
    <2>1. PICK f : f = [s \in Seen |-> Mover(s)]
        OBVIOUS
    <2>2. f \in Surjection(Seen, MS)
        BY <2>1 DEF Surjection
    <2>3. f \in Injection(Seen, MS)
        BY <1>2, <2>1 DEF Injection, IsInjective
    <2>. QED
        BY <1>1, <2>2, <2>3, FS_Surjection
<1>4. n \in Nat /\ Cardinality(Seen) = n
    BY <1>3, FS_CardinalityType
<1>5. /\ q \in [1..n -> MS]
      /\ \A i, j \in 1..n : i # j => q[i] # q[j]
    BY DEF Orders, SetToSeqs
<1>6. \A i, j \in 1..Len(q) : i < j => ~ Larger(q[j], q[i])
    BY DEF Orders
<1> HIDE DEF n
<1>7. q \in Seq(MS) /\ DOMAIN q = 1..n /\ Len(q) = n
    BY <1>4, <1>5
<1>8. q \in Surjection(1..n, MS)
    <2>1. q \in Injection(1..n, MS)
        BY <1>5 DEF Injection, IsInjective
    <2>2. IsFiniteSet(1..n) /\ Cardinality(1..n) = n
        BY <1>4, FS_Interval
    <2>. QED
        BY <1>3, <1>4, <2>1, <2>2, FS_Injection
<1>9. \A i \in 1..n : q[i].service \in Seen /\ q[i] = Mover(q[i].service)
    <2> TAKE i \in 1..n
    <2>1. PICK s \in Seen : q[i] = Mover(s)
        BY <1>5
    <2>. QED
        BY <1>2, <2>1
<1>10. \A i, j \in 1..n : q[i].service = q[j].service => i = j
    <2> SUFFICES ASSUME NEW i \in 1..n, NEW j \in 1..n, q[i].service = q[j].service
                 PROVE  i = j
        OBVIOUS
    <2>1. q[i] = q[j]
        BY <1>9
    <2>. QED
        BY <1>5, <2>1
<1>11. \A s \in Seen : \E i \in 1..n : q[i].service = s
    <2> TAKE s \in Seen
    <2>1. PICK i \in 1..n : q[i] = Mover(s)
        BY <1>8 DEF Surjection
    <2>. QED
        BY <1>2, <2>1
<1>. QED
    BY <1>1, <1>4, <1>6, <1>7, <1>9, <1>10, <1>11

\* What is left of an order after the cut.
LEMMA CutShape ==
    ASSUME NEW S, NEW q \in Seq(S), NEW n \in Nat, n = Len(q)
    PROVE  \E m \in Nat :
            /\ m <= n /\ (m < n => m = MaxMovers) /\ (n <= MaxMovers => m = n)
            /\ m <= MaxMovers
            /\ DOMAIN Cut(q) = 1..m
            /\ Len(Cut(q)) = m
            /\ \A i \in 1..m : Cut(q)[i] = q[i]
<1>1. MaxMovers \in Nat /\ DOMAIN q = 1..n
    BY TotalsAssumption, LenProperties
<1>2. CASE n > MaxMovers
    <2>1. Cut(q) = SubSeq(q, 1, MaxMovers)
        BY <1>2 DEF Cut
    <2>2. \A i \in 1..MaxMovers : q[i] \in S
        BY <1>1, <1>2, ElementOfSeq
    <2>3. /\ SubSeq(q, 1, MaxMovers) \in Seq(S)
          /\ Len(SubSeq(q, 1, MaxMovers)) =
                IF 1 <= MaxMovers THEN MaxMovers - 1 + 1 ELSE 0
          /\ \A i \in 1..(MaxMovers - 1 + 1) :
                SubSeq(q, 1, MaxMovers)[i] = q[1 + i - 1]
        BY <1>1, <2>2, SubSeqProperties
    <2>4. MaxMovers - 1 + 1 = MaxMovers /\ \A i \in 1..MaxMovers : 1 + i - 1 = i
        BY <1>1
    <2>5. Len(Cut(q)) = MaxMovers
        BY <1>1, <2>1, <2>3, <2>4
    <2>6. DOMAIN Cut(q) = 1..MaxMovers
        BY <2>1, <2>3, <2>5, LenProperties
    <2>7. \A i \in 1..MaxMovers : Cut(q)[i] = q[i]
        BY <2>1, <2>3, <2>4
    <2>. QED
        BY <1>1, <1>2, <2>5, <2>6, <2>7
<1>3. CASE ~ (n > MaxMovers)
    <2>1. Cut(q) = q
        BY <1>3 DEF Cut
    <2>2. n <= MaxMovers
        BY <1>1, <1>3
    <2>. QED
        BY <1>1, <2>1, <2>2
<1>. QED
    BY <1>2, <1>3

\* The changes of all services seen add up to the difference of the totals.
LEMMA ChangesAddUp ==
    ASSUME TotalsTyped, NEW f, DOMAIN f = Seen,
           \A s \in Seen : f[s] =
            Get(totals["current"], s) - Get(totals["previous"], s)
    PROVE  /\ Addable(f)
           /\ SumFunction(f) =
                SumFunction(totals["current"]) - SumFunction(totals["previous"])
<1> DEFINE map == totals["current"]
           prev == totals["previous"]
           g == [s \in Seen |-> Get(map, s)]
           h == [s \in Seen |-> Get(prev, s)]
<1>1. /\ Addable(map) /\ Addable(prev)
      /\ DOMAIN map \subseteq Seen /\ DOMAIN prev \subseteq Seen
    BY MapsAddable DEF Seen, Reports
<1>2. IsFiniteSet(Seen)
    BY FS_Union DEF Seen, TotalsTyped, Reports
<1>3. \A s \in Seen : f[s] = g[s] - h[s]
    OBVIOUS
<1>4. DOMAIN g = DOMAIN f /\ DOMAIN h = DOMAIN f
    OBVIOUS
<1> HIDE DEF map, prev
<1>5. Addable(g) /\ SumFunction(g) = SumFunction(map)
    BY <1>1, <1>2, SumOverMore
<1>6. Addable(h) /\ SumFunction(h) = SumFunction(prev)
    BY <1>1, <1>2, SumOverMore
<1> HIDE DEF g, h
<1>7. Addable(f) /\ SumFunction(f) = SumFunction(g) - SumFunction(h)
    BY <1>3, <1>4, <1>5, <1>6, SumOfDifferences
<1>. QED
    BY <1>5, <1>6, <1>7 DEF map, prev

SummaryInv == MoversExplainTheChange /\ LargestChangesShown

\* The last part of fetchSummary keeps its promises.
LEMMA FindMoversDelivers ==
    ASSUME TotalsInv, FindMovers
    PROVE  SummaryInv'
<1>1. PICK q \in Orders({Mover(s) : s \in Seen}) : movers' = Cut(q)
    BY DEF FindMovers
<1>2. /\ TotalsTyped /\ \A b \in Reports : MapExact(b) /\ Tallied(b)
      /\ \A b \in Reports : left[b] = {}
      /\ rows' = rows /\ totals' = totals /\ sum' = sum
    BY DEF TotalsInv, FindMovers, RangesInOrder
<1> DEFINE n == Cardinality(Seen)
<1>3. /\ IsFiniteSet(Seen)
      /\ n \in Nat
      /\ DOMAIN q = 1..n
      /\ q \in Seq({Mover(s) : s \in Seen})
      /\ \A i \in 1..n : q[i].service \in Seen /\ q[i] = Mover(q[i].service)
      /\ \A i, j \in 1..n : q[i].service = q[j].service => i = j
      /\ \A s \in Seen : \E i \in 1..n : q[i].service = s
      /\ \A i, j \in 1..n : i < j => ~ Larger(q[j], q[i])
    BY <1>1, <1>2, OrderOfMovers
<1>4. Len(q) = n
    BY <1>3, LenProperties
<1>5. PICK m \in Nat :
        /\ m <= n /\ (m < n => m = MaxMovers) /\ (n <= MaxMovers => m = n)
        /\ m <= MaxMovers
        /\ DOMAIN movers' = 1..m
        /\ Len(movers') = m
        /\ \A i \in 1..m : movers'[i] = q[i]
    BY <1>1, <1>3, <1>4, CutShape
<1>6. 1..m \subseteq 1..n
    BY <1>3, <1>5
<1>7. /\ \A b \in Reports : \A s : Get(totals[b], s) = Reported(b, s)
      /\ \A b \in Reports : \A s : Reported(b, s) \in Int
      /\ \A b \in Reports : SumFunction(totals[b]) = ReportedAll(b)
    <2>1. \A b \in Reports : \A s : Get(totals[b], s) \in Int
        BY <1>2 DEF TotalsTyped, Get
    <2>. QED
        BY <1>2, <2>1 DEF MapExact
<1>8. \A s : Mover(s).delta = Change(s) /\ Change(s) \in Int
    BY <1>7 DEF Mover, Change, Reports
<1>9. \A i \in 1..n : q[i].delta = Change(q[i].service) /\ q[i].delta \in Int
    BY <1>3, <1>8
<1>10. \A s : Change(s)' = Change(s)
    BY <1>2 DEF Change, Reported
<1>11. Seen' = Seen
    BY <1>2 DEF Seen
<1>12. \A b \in Reports : sum[b] = ReportedAll(b)
    <2> TAKE b \in Reports
    <2>1. SumFunction([s \in left[b] |-> totals[b][s]]) = 0
        BY <1>2, FS_EmptySet, SumOfZeros
    <2>2. sum[b] \in Int
        BY <1>2 DEF TotalsTyped
    <2>. QED
        BY <1>2, <1>7, <2>1, <2>2 DEF Tallied
<1>13. MoversExplainTheChange'
    <2>1. ASSUME n <= MaxMovers
          PROVE  SumFunction([i \in DOMAIN movers' |-> movers'[i].delta])
                    = sum["current"] - sum["previous"]
        <3> DEFINE f == [s \in Seen |-> Get(totals["current"], s)
                                            - Get(totals["previous"], s)]
                   g == [i \in DOMAIN movers' |-> movers'[i].delta]
                   p == [i \in 1..n |-> q[i].service]
        <3>1. m = n
            BY <1>5, <2>1
        <3>2. Addable(f) /\ SumFunction(f) =
                SumFunction(totals["current"]) - SumFunction(totals["previous"])
            BY <1>2, ChangesAddUp
        <3>3. \A s \in Seen : f[s] = Change(s)
            BY <1>8 DEF Mover
        <3>4. DOMAIN g = 1..n /\ DOMAIN f = Seen /\ DOMAIN p = 1..n
            BY <1>5, <3>1
        <3>5. \A i \in 1..n : g[i] = f[p[i]] /\ p[i] \in Seen /\ g[i] \in Int
            BY <1>3, <1>5, <1>9, <3>1, <3>3
        <3>6. /\ \A i, j \in 1..n : p[i] = p[j] => i = j
              /\ \A s \in Seen : \E i \in 1..n : p[i] = s
            BY <1>3
        <3>7. IsFiniteSet(1..n)
            BY <1>3, FS_Interval
        <3> HIDE DEF f, g, p, n
        <3>8. Addable(g)
            BY <3>4, <3>5, <3>7 DEF Addable
        <3>9. /\ DOMAIN p = DOMAIN g
              /\ \A i \in DOMAIN g : p[i] \in DOMAIN f /\ g[i] = f[p[i]]
              /\ \A i, j \in DOMAIN g : p[i] = p[j] => i = j
              /\ \A s \in DOMAIN f : \E i \in DOMAIN g : p[i] = s
            BY <3>4, <3>5, <3>6
        <3>10. SumFunction(g) = SumFunction(f)
            BY <3>2, <3>8, <3>9, SumRenamed
        <3>. QED
            BY <1>7, <1>12, <3>2, <3>10 DEF g, Reports
    <2>2. \A b \in Reports : sum'[b] = ReportedAll(b)'
        BY <1>2, <1>12 DEF ReportedAll
    <2>. QED
        BY <1>2, <1>11, <2>1, <2>2 DEF MoversExplainTheChange
<1>14. PICK shown : shown = {q[i].service : i \in 1..m}
    OBVIOUS
<1>15. Shown' = shown
    BY <1>5, <1>14 DEF Shown
<1>16. LargestChangesShown'
    <2>1. \A i \in 1..m : movers'[i].delta = Change(movers'[i].service)
        BY <1>5, <1>6, <1>9
    <2>2. Cardinality(shown) = m
        <3>1. IsFiniteSet(1..m) /\ Cardinality(1..m) = m
            BY FS_Interval
        <3>2. PICK f : f = [i \in 1..m |-> q[i].service]
            OBVIOUS
        <3>3. f \in Surjection(1..m, shown)
            BY <1>14, <3>2 DEF Surjection
        <3>4. f \in Injection(1..m, shown)
            BY <1>3, <1>6, <1>14, <3>2 DEF Injection, IsInjective
        <3>. QED
            BY <3>1, <3>3, <3>4, FS_Surjection
    <2>3. \A i, j \in 1..n : i < j => AbsOf(q[j].delta) <= AbsOf(q[i].delta)
        <3> SUFFICES ASSUME NEW i \in 1..n, NEW j \in 1..n, i < j
                     PROVE  AbsOf(q[j].delta) <= AbsOf(q[i].delta)
            OBVIOUS
        <3>1. ~ Larger(q[j], q[i])
            BY <1>3
        <3>2. q[i].delta \in Int /\ q[j].delta \in Int
            BY <1>9
        <3>. QED
            BY <3>1, <3>2 DEF Larger, AbsOf
    <2>4. \A i \in 1..(m - 1) :
            AbsOf(movers'[i].delta) >= AbsOf(movers'[i + 1].delta)
        <3> SUFFICES ASSUME NEW i \in 1..(m - 1)
                     PROVE  AbsOf(movers'[i].delta) >= AbsOf(movers'[i + 1].delta)
            OBVIOUS
        <3>1. i \in 1..m /\ i + 1 \in 1..m /\ i < i + 1
            OBVIOUS
        <3>2. AbsOf(q[i + 1].delta) <= AbsOf(q[i].delta)
            BY <1>6, <2>3, <3>1
        <3>3. q[i].delta \in Int /\ q[i + 1].delta \in Int
            BY <1>6, <1>9, <3>1
        <3>. QED
            BY <1>5, <3>1, <3>2, <3>3 DEF AbsOf
    <2>5. \A s : s \notin Seen => Change(s) = 0
        <3> TAKE s
        <3>1. s \notin Seen => /\ Get(totals["current"], s) = 0
                              /\ Get(totals["previous"], s) = 0
            BY DEF Seen, Get
        <3>. QED
            BY <1>8, <3>1 DEF Mover
    <2>6. m < MaxMovers => \A s \in Services \ shown : Change(s) = 0
        <3> SUFFICES ASSUME m < MaxMovers, NEW s \in Services \ shown
                     PROVE  Change(s) = 0
            OBVIOUS
        <3>1. m = n
            BY <1>3, <1>5
        <3>2. s \notin Seen
            BY <1>3, <1>14, <3>1
        <3>. QED
            BY <2>5, <3>2
    <2>7. \A s \in Services \ shown, t \in shown :
            AbsOf(Change(s)) <= AbsOf(Change(t))
        <3> SUFFICES ASSUME NEW s \in Services \ shown, NEW t \in shown
                     PROVE  AbsOf(Change(s)) <= AbsOf(Change(t))
            OBVIOUS
        <3>1. PICK i \in 1..m : q[i].service = t
            BY <1>14
        <3>2. i \in 1..n /\ q[i].delta = Change(t) /\ Change(t) \in Int
            BY <1>6, <1>8, <1>9, <3>1
        <3>3. CASE s \in Seen
            <4>1. PICK j \in 1..n : q[j].service = s
                BY <1>3, <3>3
            <4>2. j \notin 1..m
                BY <1>14, <4>1
            <4>3. i < j
                BY <1>3, <3>1, <4>1, <4>2
            <4>. QED
                BY <1>9, <2>3, <3>2, <4>1, <4>3
        <3>4. CASE s \notin Seen
            <4>1. Change(s) = 0
                BY <2>5, <3>4
            <4>. QED
                BY <3>2, <4>1 DEF AbsOf
        <3>. QED
            BY <3>3, <3>4
    <2>. QED
        BY <1>5, <1>10, <1>15, <2>1, <2>2, <2>4, <2>6, <2>7 DEF LargestChangesShown
<1>. QED
    BY <1>13, <1>16 DEF SummaryInv

\* While it runs the maps are exact and the ranges keep count; once it has
\* returned the summary is as promised.
LEMMA SummaryInvCorrect == TotalsSpec => [](TotalsInv /\ SummaryInv)
<1>1. TotalsInit => TotalsInv /\ SummaryInv
    BY InitTotals DEF TotalsInit, SummaryInv, MoversExplainTheChange,
        LargestChangesShown, Done
<1>2. TotalsInv /\ SummaryInv /\ [TotalsNext]_totalsVars
        => (TotalsInv /\ SummaryInv)'
    <2> SUFFICES ASSUME TotalsInv, SummaryInv, [TotalsNext]_totalsVars
                 PROVE  TotalsInv' /\ SummaryInv'
        OBVIOUS
    <2>1. ASSUME step' # "done"
          PROVE  SummaryInv'
        BY <2>1 DEF SummaryInv, MoversExplainTheChange, LargestChangesShown, Done
    <2>2. ASSUME NEW s \in Services, NEW v \in RowAmounts, ReadRow(s, v)
          PROVE  TotalsInv' /\ SummaryInv'
        <3>1. v \in Int
            BY TotalsAssumption
        <3>2. step' # "done"
            BY <2>2 DEF ReadRow, Reports
        <3>. QED
            BY <2>1, <2>2, <3>1, <3>2, ReadRowKeeps
    <2>3. CASE ReportOver
        <3>1. step' # "done"
            BY <2>3 DEF ReportOver, Reports
        <3>. QED
            BY <2>1, <2>3, <3>1, ReportOverKeeps
    <2>4. ASSUME NEW b \in Reports, NEW s \in Services, AddUp(b, s)
          PROVE  TotalsInv' /\ SummaryInv'
        <3>1. step' # "done"
            BY <2>4 DEF AddUp
        <3>. QED
            BY <2>1, <2>4, <3>1, AddUpKeeps
    <2>5. CASE FindMovers
        <3>1. /\ step = "totals" /\ step' = "done"
              /\ rows' = rows /\ totals' = totals /\ left' = left /\ sum' = sum
              /\ TotalsTyped /\ RangesInOrder /\ \A b \in Reports : MapExact(b)
            BY <2>5 DEF FindMovers, TotalsInv
        <3>2. TotalsTyped'
            BY <3>1 DEF TotalsTyped
        <3>3. \A b \in Reports : MapExact(b)'
            BY <3>1 DEF MapExact, Reported, ReportedAll
        <3>4. \A b \in Reports : Tallied(b)'
            BY <3>1 DEF RangesInOrder, Tallied
        <3>5. RangesInOrder'
            BY <3>1, <3>4 DEF RangesInOrder, Reports
        <3>6. TotalsInv'
            BY <3>2, <3>3, <3>5 DEF TotalsInv
        <3>. QED
            BY <2>5, <3>6, FindMoversDelivers
    <2>6. CASE UNCHANGED totalsVars
        <3>1. /\ step' = step /\ rows' = rows /\ totals' = totals
              /\ left' = left /\ sum' = sum /\ movers' = movers
            BY <2>6 DEF totalsVars
        <3>2. /\ \A b, s : Reported(b, s)' = Reported(b, s)
              /\ \A b : ReportedAll(b)' = ReportedAll(b)
              /\ \A b : Tallied(b)' = Tallied(b)
            BY <3>1 DEF Reported, ReportedAll, Tallied
        <3>3. TotalsInv'
            BY <3>1, <3>2 DEF TotalsInv, TotalsTyped, MapExact, RangesInOrder
        <3>4. /\ \A s : Change(s)' = Change(s)
              /\ Seen' = Seen /\ Shown' = Shown /\ Done' = Done
            BY <3>1, <3>2 DEF Change, Seen, Shown, Done
        <3>5. SummaryInv'
            BY <3>1, <3>2, <3>4 DEF SummaryInv, MoversExplainTheChange,
                LargestChangesShown
        <3>. QED
            BY <3>3, <3>5
    <2>. QED
        BY <2>2, <2>3, <2>4, <2>5, <2>6 DEF TotalsNext
<1>. QED
    BY <1>1, <1>2, PTL DEF TotalsSpec

\* Both tiles hold everything that was billed, and when nothing is cut the
\* movers' deltas add up to their difference.
THEOREM MoversExplainTheChangeCorrect == TotalsSpec => []MoversExplainTheChange
BY SummaryInvCorrect, PTL DEF SummaryInv

\* The table shows the largest changes, each service once, largest first.
THEOREM LargestChangesShownCorrect == TotalsSpec => []LargestChangesShown
BY SummaryInvCorrect, PTL DEF SummaryInv
=============================================================================
