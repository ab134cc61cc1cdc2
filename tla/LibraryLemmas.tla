---------------------------- MODULE LibraryLemmas ----------------------------
(***************************************************************************)
(* What the community modules' Min, Max and FlattenSeq compute, and counting up *)
(* to a bound in place of induction, for the proofs about the components.  *)
(***************************************************************************)
EXTENDS Integers, SequencesExt, FiniteSetsExt, FiniteSetTheorems, SequenceTheorems, TLAPS

\* A non-empty finite set of integers has a least element.
LEMMA LeastElement ==
  ASSUME NEW S \in SUBSET Int, IsFiniteSet(S), S # {}
  PROVE  \E x \in S : \A y \in S : x <= y
<1> DEFINE Below(x) == {y \in S : y < x}
           F == {Below(x) : x \in S}
<1>1. F \subseteq FiniteSubsetsOf(S)
  <2> SUFFICES ASSUME NEW x \in S PROVE Below(x) \in FiniteSubsetsOf(S)
    OBVIOUS
  <2>1. Below(x) \in SUBSET S
    OBVIOUS
  <2> QED
    BY <2>1, FS_Subset DEF FiniteSubsetsOf
<1>2. F # {}
  OBVIOUS
<1>3. IsWellFoundedOn(StrictSubsetOrdering(S), FiniteSubsetsOf(S))
  BY FS_StrictSubsetOrderingWellFounded
<1>4. PICK U \in F : \A V \in F : <<V, U>> \notin StrictSubsetOrdering(S)
  BY <1>1, <1>2, <1>3, WFMin
<1>5. PICK x \in S : U = Below(x)
  OBVIOUS
<1>6. ASSUME NEW y \in S, ~(x <= y)
      PROVE  FALSE
  <2>1. y \in Below(x) /\ y \notin Below(y) /\ Below(y) \subseteq Below(x)
    <3>1. x \in Int /\ y \in Int /\ y < x /\ ~(y < y)
      BY <1>6
    <3>2. ASSUME NEW z \in S, z < y
          PROVE  z < x
      BY <3>1, <3>2
    <3> QED
      BY <3>1, <3>2
  <2>2. Below(y) \in F /\ Below(x) \in SUBSET S /\ Below(y) \in SUBSET S
    OBVIOUS
  <2> DEFINE A == Below(y)
             B == Below(x)
  <2>3. A \in SUBSET S /\ B \in SUBSET S /\ A \subseteq B /\ A # B
    BY <2>1
  <2> HIDE DEF A, B
  <2>4. <<A, B>> \in StrictSubsetOrdering(S)
    BY <2>3 DEF StrictSubsetOrdering
  <2> QED
    BY <1>4, <1>5, <2>2, <2>4 DEF A, B
<1> QED
  BY <1>6

\* .. which Min finds.
LEMMA MinOfFinite ==
  ASSUME NEW S \in SUBSET Int, IsFiniteSet(S), S # {}
  PROVE  Min(S) \in S /\ \A y \in S : Min(S) <= y
BY LeastElement DEF Min

\* .. and a greatest, which Max finds.
LEMMA MaxOfFinite ==
  ASSUME NEW S \in SUBSET Int, IsFiniteSet(S), S # {}
  PROVE  Max(S) \in S /\ \A y \in S : Max(S) >= y
<1> DEFINE T == {-x : x \in S}
<1>1. T \in SUBSET Int /\ T # {}
  <2>1. \A x \in S : -x \in Int
    OBVIOUS
  <2>2. PICK x \in S : TRUE
    OBVIOUS
  <2>3. -x \in T
    OBVIOUS
  <2> QED
    BY <2>1, <2>3
<1>2. IsFiniteSet(T)
  <2> DEFINE f == [x \in S |-> -x]
  <2>1. f \in Surjection(S, T)
    BY DEF Surjection
  <2> HIDE DEF f, T
  <2> QED
    BY <2>1, FS_Surjection
<1>3. PICK m \in T : \A y \in T : m <= y
  BY <1>1, <1>2, LeastElement
<1>4. -m \in S /\ \A y \in S : -m >= y
  <2>1. m \in Int /\ \A y \in S : y \in Int /\ -y \in T
    BY <1>1
  <2>2. PICK x \in S : m = -x
    BY <1>3
  <2>3. -m = x
    BY <2>1, <2>2
  <2>4. ASSUME NEW y \in S PROVE -m >= y
    BY <1>3, <2>1
  <2> QED
    BY <2>3, <2>4
<1> QED
  BY <1>4 DEF Max

\* Sets of numbers between two bounds are finite.
LEMMA IntervalsFinite ==
  ASSUME NEW a \in Int, NEW b \in Int, NEW S, S \subseteq a..b
  PROVE  IsFiniteSet(S) /\ S \in SUBSET Int
<1>1. IsFiniteSet(a..b) /\ a..b \subseteq Int
  BY FS_Interval
<1>2. S \in SUBSET (a..b)
  OBVIOUS
<1> QED
  BY <1>1, <1>2, FS_Subset

\* What a sequence has at its ends.
LEMMA AtTheEnds ==
  ASSUME NEW S, NEW q \in Seq(S)
  PROVE  /\ Len(q) \in Nat /\ (q = <<>> <=> Len(q) = 0)
         /\ \A i \in 1..Len(q) : q[i] \in S
         /\ q # <<>> => /\ Head(q) = q[1] /\ Tail(q) \in Seq(S) /\ Len(Tail(q)) = Len(q) - 1
                        /\ \A i \in 1..Len(q) - 1 : Tail(q)[i] = q[i + 1]
         /\ \A x \in S : /\ Append(q, x) \in Seq(S) /\ Len(Append(q, x)) = Len(q) + 1
                         /\ Append(q, x)[Len(q) + 1] = x
                         /\ \A i \in 1..Len(q) : Append(q, x)[i] = q[i]
<1>1. Len(q) \in Nat /\ (q = <<>> <=> Len(q) = 0)
  BY LenProperties, EmptySeq
<1>2. \A i \in 1..Len(q) : q[i] \in S
  BY ElementOfSeq
<1>3. q # <<>> => /\ Head(q) = q[1] /\ Tail(q) \in Seq(S) /\ Len(Tail(q)) = Len(q) - 1
                  /\ \A i \in 1..Len(q) - 1 : Tail(q)[i] = q[i + 1]
  BY <1>1, HeadTailProperties
<1>4. \A x \in S : /\ Append(q, x) \in Seq(S) /\ Len(Append(q, x)) = Len(q) + 1
                   /\ Append(q, x)[Len(q) + 1] = x
                   /\ \A i \in 1..Len(q) : Append(q, x)[i] = q[i]
  BY AppendProperties
<1> QED
  BY <1>1, <1>2, <1>3, <1>4

\* A property of 0 that goes from n to n + 1 is one of all the numbers up to a bound.
LEMMA CountingUp ==
  ASSUME NEW N \in Nat, NEW G, 0 \in G,
         \A n \in 1..N : n - 1 \in G => n \in G
  PROVE  \A n \in 0..N : n \in G
<1> DEFINE Bad == {n \in 0..N : n \notin G}
<1> SUFFICES ASSUME Bad # {} PROVE FALSE
  OBVIOUS
<1>1. Bad \in SUBSET Int /\ IsFiniteSet(Bad)
  <2>1. IsFiniteSet(0..N) /\ Bad \in SUBSET (0..N)
    BY FS_Interval
  <2> HIDE DEF Bad
  <2>2. IsFiniteSet(Bad)
    BY <2>1, FS_Subset
  <2> QED
    BY <2>1, <2>2
<1>2. PICK n \in Bad : \A k \in Bad : n <= k
  BY <1>1, LeastElement
<1>3. n \in 1..N /\ n - 1 \in 0..N /\ n - 1 \notin Bad
  BY <1>2
<1> QED
  BY <1>3

\* The function that FlattenSeq defines, up to n.
Flattens(f, m, n) == f = [i \in 1..n |-> IF i = 1 THEN m[i] ELSE f[i - 1] \o m[i]]

\* Its values.
LEMMA FlattensAt ==
  ASSUME NEW m, NEW n, NEW f, Flattens(f, m, n), NEW j \in 1..n
  PROVE  f[j] = IF j = 1 THEN m[j] ELSE f[j - 1] \o m[j]
<1> DEFINE h == [i \in 1..n |-> IF i = 1 THEN m[i] ELSE f[i - 1] \o m[i]]
<1>1. h[j] = IF j = 1 THEN m[j] ELSE f[j - 1] \o m[j]
  OBVIOUS
<1>2. f = h
  BY DEF Flattens
<1> HIDE DEF h
<1>3. f[j] = h[j]
  BY <1>2
<1> QED
  BY <1>1, <1>3

\* There is one.
LEMMA FlattensExists ==
  ASSUME NEW S, NEW m \in Seq(S)
  PROVE  \E f : Flattens(f, m, Len(m))
<1> DEFINE G == {n \in 0..Len(m) : \E f : Flattens(f, m, n)}
<1>1. Len(m) \in Nat
  BY LenProperties
<1>2. 0 \in G
  <2>1. Flattens([i \in 1..0 |-> m[i]], m, 0)
    BY DEF Flattens
  <2> QED
    BY <1>1, <2>1
<1>3. ASSUME NEW n \in 1..Len(m), n - 1 \in G
      PROVE  n \in G
  <2>1. PICK f : Flattens(f, m, n - 1)
    BY <1>3
  <2> DEFINE g == [i \in 1..n |-> IF i < n THEN f[i] ELSE IF n = 1 THEN m[1] ELSE f[n - 1] \o m[n]]
  <2>2. /\ DOMAIN f = 1..(n - 1)
        /\ \A i \in 1..(n - 1) : f[i] = IF i = 1 THEN m[i] ELSE f[i - 1] \o m[i]
    BY <2>1 DEF Flattens
  <2>3. ASSUME NEW i \in 1..n
        PROVE  g[i] = IF i = 1 THEN m[i] ELSE g[i - 1] \o m[i]
    <3>1. CASE i < n
      <4>1. i \in 1..(n - 1) /\ g[i] = f[i]
        BY <1>1, <3>1
      <4>2. i # 1 => i - 1 \in 1..n /\ i - 1 < n
        BY <1>1, <3>1
      <4>3. i # 1 => g[i - 1] = f[i - 1]
        BY <4>2
      <4> QED
        BY <2>2, <4>1, <4>3
    <3>2. CASE i = n
      BY <1>1, <3>2
    <3> QED
      BY <3>1, <3>2
  <2>4. g = [i \in 1..n |-> IF i = 1 THEN m[i] ELSE g[i - 1] \o m[i]]
    <3> HIDE DEF g
    <3>1. DOMAIN g = 1..n /\ g = [i \in DOMAIN g |-> g[i]]
      BY DEF g
    <3> QED
      BY <2>3, <3>1
  <2>5. Flattens(g, m, n)
    BY <2>4 DEF Flattens
  <2> HIDE DEF g
  <2> QED
    BY <1>1, <2>5
<1> QED
  <2> HIDE DEF G
  <2>1. \A n \in 0..Len(m) : n \in G
    BY <1>1, <1>2, <1>3, CountingUp
  <2> QED
    BY <1>1, <2>1 DEF G

\* FlattenSeq takes its last value.
LEMMA FlattenIs ==
  ASSUME NEW S, NEW m \in Seq(S), m # <<>>
  PROVE  \E f : Flattens(f, m, Len(m)) /\ FlattenSeq(m) = f[Len(m)]
<1> DEFINE F == CHOOSE f : Flattens(f, m, Len(m))
<1>1. Flattens(F, m, Len(m))
  BY FlattensExists
<1>2. Len(m) # 0
  BY EmptySeq
<1>3. FlattenSeq(m) = F[Len(m)]
  BY <1>2 DEF FlattenSeq, Flattens
<1> QED
  BY <1>1, <1>3

Agree(a, b, n) == \A i \in 1..n : a[i] = b[i]

\* Two sequences that begin in the same way are flattened in the same way so far.
LEMMA FlattensAgree ==
  ASSUME NEW S, NEW m \in Seq(S), NEW p \in Seq(S), NEW n \in Nat,
         n <= Len(m), n <= Len(p), Agree(m, p, n),
         NEW f, Flattens(f, m, Len(m)), NEW g, Flattens(g, p, Len(p))
  PROVE  Agree(f, g, n)
<1> DEFINE G == {i \in 0..n : i = 0 \/ f[i] = g[i]}
<1>1. Len(m) \in Nat /\ Len(p) \in Nat
  BY LenProperties
<1>2. \A i \in 1..n : /\ f[i] = IF i = 1 THEN m[i] ELSE f[i - 1] \o m[i]
                      /\ g[i] = IF i = 1 THEN p[i] ELSE g[i - 1] \o p[i]
  <2> SUFFICES ASSUME NEW i \in 1..n
               PROVE  /\ f[i] = IF i = 1 THEN m[i] ELSE f[i - 1] \o m[i]
                      /\ g[i] = IF i = 1 THEN p[i] ELSE g[i - 1] \o p[i]
    OBVIOUS
  <2>1. i \in 1..Len(m) /\ i \in 1..Len(p)
    BY <1>1
  <2> QED
    BY <2>1, FlattensAt
<1>3. 0 \in G
  OBVIOUS
<1>4. ASSUME NEW i \in 1..n, i - 1 \in G
      PROVE  i \in G
  <2>1. i = 1 \/ f[i - 1] = g[i - 1]
    BY <1>4
  <2>2. f[i] = g[i]
    BY <1>2, <2>1 DEF Agree
  <2> QED
    BY <2>2
<1>5. \A i \in 0..n : i \in G
  <2> HIDE DEF G
  <2> QED
    BY <1>3, <1>4, CountingUp
<1> QED
  BY <1>5 DEF Agree

\* FlattenSeq of one more sequence.
LEMMA FlattenAppend ==
  ASSUME NEW S, NEW m \in Seq(Seq(S)), NEW d \in Seq(S)
  PROVE  FlattenSeq(Append(m, d)) = (IF m = <<>> THEN d ELSE FlattenSeq(m) \o d)
<1> DEFINE p == Append(m, d)
<1>1. /\ p \in Seq(Seq(S)) /\ p # <<>> /\ Len(p) = Len(m) + 1 /\ Len(m) \in Nat
      /\ p[Len(m) + 1] = d /\ \A i \in 1..Len(m) : p[i] = m[i]
  BY AppendProperties, LenProperties
<1> HIDE DEF p
<1>2. PICK g : Flattens(g, p, Len(p)) /\ FlattenSeq(p) = g[Len(p)]
  BY <1>1, FlattenIs
<1>3. g[Len(p)] = IF Len(p) = 1 THEN d ELSE g[Len(p) - 1] \o d
  <2>1. PICK n \in 1..Len(p) : n = Len(p) /\ p[n] = d
    BY <1>1
  <2>2. Flattens(g, p, n)
    BY <1>2, <2>1
  <2>3. g[n] = IF n = 1 THEN p[n] ELSE g[n - 1] \o p[n]
    <3> n \in 1..n
      BY <1>1, <2>1
    <3> QED
      BY <2>2, FlattensAt
  <2> QED
    BY <2>1, <2>3
<1>4. CASE m = <<>>
  BY <1>1, <1>2, <1>3, <1>4, EmptySeq DEF p
<1>5. CASE m # <<>>
  <2>1. PICK f : Flattens(f, m, Len(m)) /\ FlattenSeq(m) = f[Len(m)]
    BY <1>5, FlattenIs
  <2>2. Len(m) \in Nat \ {0}
    BY <1>1, <1>5, EmptySeq
  <2>3. PICK n \in Nat \ {0} : n = Len(m)
    BY <2>2
  <2>4. n <= Len(m) /\ n <= Len(p) /\ Agree(m, p, n)
    BY <1>1, <2>3 DEF Agree
  <2>5. Agree(f, g, n)
    <3> DEFINE T == Seq(S)
    <3>1. m \in Seq(T) /\ p \in Seq(T) /\ Flattens(f, m, Len(m)) /\ Flattens(g, p, Len(p))
      BY <1>1, <1>2, <2>1
    <3> HIDE DEF T
    <3> QED
      BY <2>4, <3>1, FlattensAgree
  <2>6. g[Len(p)] = g[n] \o d /\ g[n] = f[n]
    <3>1. n \in 1..n /\ Len(p) = n + 1 /\ Len(p) # 1 /\ Len(p) - 1 = n
      BY <1>1, <2>3
    <3> QED
      BY <1>3, <2>5, <3>1 DEF Agree
  <2> QED
    BY <1>2, <1>5, <2>1, <2>3, <2>6 DEF p
<1> QED
  BY <1>4, <1>5

\* The first n sequences of m, flattened.
Flattened(m, n) == FlattenSeq(SubSeq(m, 1, n))

\* .. begin with nothing and grow by one sequence at a time.
LEMMA FlattenPrefix ==
  ASSUME NEW S, NEW m \in Seq(Seq(S))
  PROVE  /\ Flattened(m, 0) = <<>>
         /\ Flattened(m, Len(m)) = FlattenSeq(m)
         /\ \A n \in 1..Len(m) :
              Flattened(m, n) = IF n = 1 THEN m[n] ELSE Flattened(m, n - 1) \o m[n]
<1>1. Len(m) \in Nat /\ \A i \in 1..Len(m) : m[i] \in Seq(S)
  BY LenProperties, ElementOfSeq
<1>2. SubSeq(m, 1, 0) = <<>> /\ SubSeq(m, 1, Len(m)) = m
  BY SubSeqEmpty, SubSeqFull
<1>3. Flattened(m, 0) = <<>>
  BY <1>2 DEF Flattened, FlattenSeq
<1>4. ASSUME NEW n \in 1..Len(m)
      PROVE  Flattened(m, n) = IF n = 1 THEN m[n] ELSE Flattened(m, n - 1) \o m[n]
  <2> DEFINE p == SubSeq(m, 1, n - 1)
  <2>1. n \in Nat /\ n - 1 \in Int /\ 1 \in Int
    BY <1>1
  <2>2. \A i \in 1..(n - 1) : m[i] \in Seq(S)
    BY <1>1, <2>1
  <2>3. /\ p \in Seq(Seq(S)) /\ Len(p) = n - 1
        /\ \A i \in 1..(n - 1) : p[i] = m[i]
    <3> DEFINE T == Seq(S)
    <3>1. \A i \in 1..(n - 1) : m[i] \in T
      BY <2>2
    <3> HIDE DEF T
    <3>2. /\ SubSeq(m, 1, n - 1) \in Seq(T)
          /\ Len(SubSeq(m, 1, n - 1)) = (IF 1 <= n - 1 THEN (n - 1) - 1 + 1 ELSE 0)
          /\ \A i \in 1..(n - 1) - 1 + 1 : SubSeq(m, 1, n - 1)[i] = m[1 + i - 1]
      BY <2>1, <3>1, SubSeqProperties
    <3>3. \A i \in 1..(n - 1) : p[i] = m[i]
      BY <2>1, <3>2
    <3> QED
      BY <2>1, <3>2, <3>3 DEF T
  <2>4. SubSeq(m, 1, n) = Append(p, m[n])
    <3> DEFINE T == Seq(S)
    <3>1. m \in Seq(T) /\ m[n] \in T
      BY <1>1
    <3> HIDE DEF T
    <3>2. 1 \in 1..Len(m) /\ n \in 1..Len(m)
      BY <1>1
    <3>3. SubSeq(m, 1, n) = SubSeq(m, 1, n - 1) \o <<m[n]>>
      BY <3>1, <3>2, SubSeqRecursiveSecond
    <3>4. p \in Seq(T)
      BY <2>3 DEF T
    <3> QED
      BY <3>1, <3>3, <3>4, AppendIsConcat
  <2>5. p = <<>> <=> n = 1
    <3> HIDE DEF p
    <3> QED
      BY <2>1, <2>3, EmptySeq
  <2> HIDE DEF p
  <2>6. FlattenSeq(Append(p, m[n])) = IF p = <<>> THEN m[n] ELSE FlattenSeq(p) \o m[n]
    BY <1>1, <2>3, FlattenAppend
  <2> QED
    BY <2>4, <2>5, <2>6 DEF Flattened, p
<1> QED
  BY <1>2, <1>3, <1>4 DEF Flattened

\* Flattened sequences over S are a sequence over S.
LEMMA FlattenType ==
  ASSUME NEW S, NEW m \in Seq(Seq(S))
  PROVE  FlattenSeq(m) \in Seq(S)
<1> DEFINE G == {n \in 0..Len(m) : Flattened(m, n) \in Seq(S)}
<1>1. Len(m) \in Nat /\ \A i \in 1..Len(m) : m[i] \in Seq(S)
  BY LenProperties, ElementOfSeq
<1>5. 0 \in 0..Len(m) /\ Len(m) \in 0..Len(m)
  <2>1. PICK k \in Nat : k = Len(m)
    BY <1>1
  <2>2. 0 \in 0..k /\ k \in 0..k
    OBVIOUS
  <2> QED
    BY <2>1, <2>2
<1>2. 0 \in G
  <2>1. Flattened(m, 0) = <<>> /\ <<>> \in Seq(S)
    BY FlattenPrefix, EmptySeq
  <2> QED
    BY <1>5, <2>1
<1>3. ASSUME NEW n \in 1..Len(m), n - 1 \in G
      PROVE  n \in G
  <2>1. Flattened(m, n) = IF n = 1 THEN m[n] ELSE Flattened(m, n - 1) \o m[n]
    BY FlattenPrefix
  <2>2. m[n] \in Seq(S) /\ Flattened(m, n - 1) \in Seq(S)
    BY <1>1, <1>3
  <2>3. n # 1 => Flattened(m, n - 1) \o m[n] \in Seq(S)
    BY <2>2, ConcatProperties
  <2>4. Flattened(m, n) \in Seq(S) /\ n \in 0..Len(m)
    BY <1>1, <2>1, <2>2, <2>3
  <2> QED
    BY <2>4
<1>4. \A n \in 0..Len(m) : n \in G
  <2> HIDE DEF G
  <2> QED
    BY <1>1, <1>2, <1>3, CountingUp
<1> QED
  <2>1. Flattened(m, Len(m)) = FlattenSeq(m)
    BY FlattenPrefix
  <2> QED
    BY <1>4, <1>5, <2>1
=============================================================================
