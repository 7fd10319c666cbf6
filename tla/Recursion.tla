----------------------------- MODULE Recursion -----------------------------
(***************************************************************************)
(* Induction and recursive definitions over data of finite height.  The    *)
(* provers cannot instantiate an operator in a fact they are given; the    *)
(* operators here are constants of the module, and INSTANCE gives them.    *)
(***************************************************************************)
EXTENDS Naturals, Sequences, SequencesExt, WellFoundedInduction, TLAPS

CONSTANTS Height(_),   \* of a datum
          Parts(_),    \* the data that it is defined by
          Step(_, _),  \* the value of a datum, given those of its parts
          Claim(_)     \* what is shown of every datum

\* All that a definition or a claim may go back to is further down.
IsFounded(S) ==
    \A x \in S : /\ Height(x) \in Nat
                 /\ \A y \in Parts(x) : y \in S /\ Height(y) < Height(x)

LEMMA SmallestNat ==
    ASSUME NEW T, T \subseteq Nat, T # {}
    PROVE  \E n \in T : \A m \in T : n <= m
<1>1. IsWellFoundedOn(OpToRel(<, Nat), Nat)
  BY NatLessThanWellFounded
<1>2. PICK n \in T : \A m \in T : ~ (<<m, n>> \in OpToRel(<, Nat))
  BY <1>1, WFMin, Zenon
<1>3. ASSUME NEW m \in T
      PROVE  ~ (m < n)
  <2>1. m \in Nat /\ n \in Nat
    OBVIOUS
  <2>. QED  BY <1>2, <2>1, Zenon DEF OpToRel
<1>4. \A m \in T : n <= m
  BY <1>3
<1>. QED  BY <1>4

\* Every datum is as claimed if it is whenever its parts are.
LEMMA DataInduction ==
    ASSUME NEW S, IsFounded(S),
           \A x \in S : (\A y \in Parts(x) : Claim(y)) => Claim(x)
    PROVE  \A x \in S : Claim(x)
<1> DEFINE Wrong == {x \in S : ~Claim(x)}
           T == {Height(x) : x \in Wrong}
<1>. SUFFICES ASSUME Wrong # {} PROVE FALSE
  OBVIOUS
<1>1. T \subseteq Nat /\ T # {}
  BY DEF IsFounded
<1>. HIDE DEF T
<1>2. PICK n \in T : \A m \in T : n <= m
  BY <1>1, SmallestNat, Zenon
<1>3. PICK x \in Wrong : n = Height(x)
  BY DEF T
<1>4. ASSUME NEW y \in Parts(x), ~Claim(y)
      PROVE  FALSE
  <2>1. y \in Wrong /\ Height(y) < n /\ Height(y) \in Nat /\ n \in Nat
    BY <1>3, <1>4 DEF IsFounded
  <2>2. Height(y) \in T
    BY <2>1 DEF T
  <2>. QED  BY <1>2, <2>1, <2>2
<1>. QED  BY <1>3, <1>4

-----------------------------------------------------------------------------
(* A recursive definition defines a function.                              *)

Below(S, n) == {x \in S : Height(x) < n}
\* g is the function, as far as to height n.
Fits(g, S, n) == g = [x \in Below(S, n) |-> Step(g, x)]

\* The value of a datum depends on its parts alone.
IsStep(S) ==
    \A x \in S : \A f, g :
        (\A y \in Parts(x) : f[y] = g[y]) => Step(f, x) = Step(g, x)

LEMMA PartsAreBelow ==
    ASSUME NEW S, IsFounded(S), NEW n \in Nat, NEW x \in Below(S, n + 1),
           NEW y \in Parts(x)
    PROVE  y \in Below(S, n)
BY DEF IsFounded, Below

LEMMA BelowGrows ==
    ASSUME NEW S, IsFounded(S), NEW n \in Nat, NEW m \in Nat, n <= m
    PROVE  Below(S, n) \subseteq Below(S, m)
BY DEF IsFounded, Below

\* What fits up to a height fits below it.
LEMMA RestrictionFits ==
    ASSUME NEW S, IsFounded(S), IsStep(S), NEW n \in Nat, NEW m \in Nat,
           n <= m, NEW g, Fits(g, S, m)
    PROVE  Fits([x \in Below(S, n) |-> g[x]], S, n)
<1> DEFINE k == [x \in Below(S, n) |-> g[x]]
<1>1. ASSUME NEW x \in Below(S, n)
      PROVE  k[x] = Step(k, x)
  <2>1. x \in Below(S, m) /\ x \in S
    BY BelowGrows DEF Below
  <2>2. g[x] = Step(g, x)
    BY <2>1 DEF Fits
  <2>3. ASSUME NEW y \in Parts(x)
        PROVE  k[y] = g[y]
    <3>1. y \in Below(S, n)
      BY <2>1 DEF IsFounded, Below
    <3>. QED  BY <3>1
  <2>. HIDE DEF k
  <2>4. Step(k, x) = Step(g, x)
    BY <2>1, <2>3 DEF IsStep
  <2>. QED  BY <2>2, <2>4 DEF k
<1>2. k = [x \in Below(S, n) |-> k[x]]
  OBVIOUS
<1>. HIDE DEF k
<1>3. k = [x \in Below(S, n) |-> Step(k, x)]
  BY <1>1, <1>2
<1>. QED  BY <1>3 DEF Fits, k

\* Two functions that fit up to a height agree there.
LEMMA FitsOnce ==
    ASSUME NEW S, IsFounded(S), IsStep(S), NEW n \in Nat,
           NEW g, Fits(g, S, n), NEW k, Fits(k, S, n)
    PROVE  g = k
<1> DEFINE Wrong == {x \in Below(S, n) : g[x] # k[x]}
           T == {Height(x) : x \in Wrong}
<1>1. SUFFICES Wrong = {}
  BY <1>1 DEF Fits
<1>. SUFFICES ASSUME Wrong # {} PROVE FALSE
  OBVIOUS
<1>2. T \subseteq Nat /\ T # {}
  BY DEF IsFounded, Below
<1>. HIDE DEF T
<1>3. PICK h \in T : \A m \in T : h <= m
  BY <1>2, SmallestNat, Zenon
<1>4. PICK x \in Wrong : h = Height(x)
  BY DEF T
<1>5. ASSUME NEW y \in Parts(x)
      PROVE  g[y] = k[y]
  <2>1. y \in Below(S, n) /\ Height(y) < h /\ Height(y) \in Nat /\ h \in Nat
    BY <1>4 DEF IsFounded, Below
  <2>2. SUFFICES y \notin Wrong
    BY <2>1, <2>2
  <2>3. y \in Wrong => Height(y) \in T
    BY DEF T
  <2>. QED  BY <1>3, <2>1, <2>3
<1>6. x \in Below(S, n) /\ x \in S /\ g[x] # k[x]
  BY DEF Below
<1>7. Step(g, x) = Step(k, x)
  BY <1>5, <1>6 DEF IsStep
<1>. QED  BY <1>6, <1>7 DEF Fits

\* Up to any height some function fits.
LEMMA SomeFits ==
    ASSUME NEW S, IsFounded(S), IsStep(S), NEW n \in Nat
    PROVE  \E g : Fits(g, S, n)
<1> DEFINE Wrong == {i \in Nat : ~ \E g : Fits(g, S, i)}
<1>. SUFFICES ASSUME Wrong # {} PROVE FALSE
  OBVIOUS
<1>1. PICK m \in Wrong : \A i \in Wrong : m <= i
  <2>1. Wrong \subseteq Nat
    OBVIOUS
  <2>. HIDE DEF Wrong
  <2>. QED  BY <2>1, SmallestNat, Zenon
<1>2. m # 0
  <2>1. Below(S, 0) = {}
    BY DEF IsFounded, Below
  <2>2. Fits([x \in Below(S, 0) |-> 0], S, 0)
    BY <2>1 DEF Fits
  <2>. QED  BY <2>2
<1>3. m - 1 \in Nat /\ m - 1 \notin Wrong
  BY <1>1, <1>2
<1>4. PICK g : Fits(g, S, m - 1)
  BY <1>3
<1> DEFINE k == [x \in Below(S, m) |-> Step(g, x)]
<1>5. ASSUME NEW x \in Below(S, m)
      PROVE  k[x] = Step(k, x)
  <2>1. x \in S /\ k[x] = Step(g, x)
    BY DEF Below
  <2>2. ASSUME NEW y \in Parts(x)
        PROVE  k[y] = g[y]
    <3>1. y \in Below(S, m - 1)
      BY <1>3, PartsAreBelow
    <3>2. y \in Below(S, m)
      BY <1>3, <3>1, BelowGrows
    <3>3. g[y] = Step(g, y)
      BY <1>4, <3>1 DEF Fits
    <3>. QED  BY <3>2, <3>3
  <2>. HIDE DEF k
  <2>. QED  BY <2>1, <2>2 DEF IsStep
<1>6. k = [x \in Below(S, m) |-> k[x]]
  OBVIOUS
<1>. HIDE DEF k
<1>7. Fits(k, S, m)
  BY <1>5, <1>6 DEF Fits
<1>. QED  BY <1>7

\* f[x \in S] == Step(f, x) has a solution.
LEMMA RecursiveFunction ==
    ASSUME NEW S, IsFounded(S), IsStep(S)
    PROVE  \E f : f = [x \in S |-> Step(f, x)]
<1> DEFINE G(n) == CHOOSE g : Fits(g, S, n)
           f == [x \in S |-> G(Height(x) + 1)[x]]
<1>1. ASSUME NEW n \in Nat
      PROVE  Fits(G(n), S, n)
  BY SomeFits, Zenon
<1>. HIDE DEF G
<1>2. ASSUME NEW n \in Nat, NEW y \in Below(S, n)
      PROVE  G(n)[y] = f[y]
  <2>1. y \in S /\ Height(y) \in Nat /\ Height(y) + 1 <= n
    BY DEF Below, IsFounded
  <2> DEFINE m == Height(y) + 1
             k == [x \in Below(S, m) |-> G(n)[x]]
  <2>2. m \in Nat /\ y \in Below(S, m) /\ m <= n
    BY <2>1 DEF Below
  <2>3. Fits(k, S, m)
    BY <2>2, <1>1, RestrictionFits
  <2>4. k = G(m)
    BY <2>2, <2>3, <1>1, FitsOnce
  <2>5. k[y] = G(n)[y]
    BY <2>2
  <2>. QED  BY <2>1, <2>4, <2>5
<1>3. ASSUME NEW x \in S
      PROVE  f[x] = Step(f, x)
  <2> DEFINE n == Height(x) + 1
  <2>1. Height(x) \in Nat /\ n \in Nat /\ x \in Below(S, n)
    BY DEF Below, IsFounded
  <2>2. f[x] = Step(G(n), x)
    BY <1>1, <1>2, <2>1 DEF Fits
  <2>3. ASSUME NEW y \in Parts(x)
        PROVE  G(n)[y] = f[y]
    <3>1. y \in Below(S, Height(x))
      BY <2>1, PartsAreBelow
    <3>2. y \in Below(S, n)
      BY <2>1, <3>1, BelowGrows
    <3>. QED  BY <1>2, <2>1, <3>2
  <2>. HIDE DEF f, n
  <2>4. Step(G(n), x) = Step(f, x)
    BY <2>3 DEF IsStep
  <2>. QED  BY <2>2, <2>4
<1>4. f = [x \in S |-> f[x]]
  OBVIOUS
<1>. HIDE DEF f
<1>5. f = [x \in S |-> Step(f, x)]
  BY <1>3, <1>4
<1>. QED  BY <1>5, Zenon

-----------------------------------------------------------------------------
(* Folds.  FoldLeft folds the largest index in last, by a function on sets *)
(* of indices.                                                             *)

\* g folds the first n members of seq.
IsFold(g, base, seq, n) ==
    g = [s \in SUBSET (1..n) |->
            IF s = {} THEN base ELSE Step(g[s \ {Max(s)}], seq[Max(s)])]

LEMMA MaxOfLast ==
    ASSUME NEW n \in Nat, NEW s \in SUBSET (1..n), n \in s
    PROVE  Max(s) = n
<1>1. \E x \in s : \A y \in s : x >= y
  OBVIOUS
<1>2. Max(s) \in s /\ \A y \in s : Max(s) >= y
  BY <1>1 DEF Max
<1>3. Max(s) \in 1..n /\ Max(s) >= n
  BY <1>2
<1>. QED  BY <1>3

LEMMA LastOfSegment ==
    ASSUME NEW n \in Nat, n # 0
    PROVE  Max(1..n) = n /\ (1..n) \ {n} = 1..n - 1 /\ 1..n # {}
<1>1. 1..n \in SUBSET (1..n) /\ n \in 1..n
  OBVIOUS
<1>2. Max(1..n) = n
  BY <1>1, MaxOfLast
<1>3. (1..n) \ {n} = 1..n - 1
  <2>1. ASSUME NEW x
        PROVE  x \in (1..n) \ {n} <=> x \in 1..n - 1
    OBVIOUS
  <2>. QED  BY <2>1
<1>. QED  BY <1>1, <1>2, <1>3

LEMMA MaxIsMember ==
    ASSUME NEW n \in Nat, NEW s \in SUBSET (1..n), s # {}
    PROVE  Max(s) \in s
<1> DEFINE T == {n - x : x \in s}
<1>1. T \subseteq Nat /\ T # {}
  <2>1. \A x \in s : x \in Nat /\ x <= n
    OBVIOUS
  <2>2. \A x \in s : n - x \in Nat
    BY <2>1
  <2>. QED  BY <2>2
<1>. HIDE DEF T
<1>2. PICK m \in T : \A k \in T : m <= k
  BY <1>1, SmallestNat, Zenon
<1>3. PICK x \in s : m = n - x
  BY DEF T
<1>4. ASSUME NEW y \in s
      PROVE  x >= y
  <2>1. n - y \in T
    BY DEF T
  <2>. QED  BY <1>2, <1>3, <2>1
<1>. QED  BY <1>4 DEF Max

LEMMA SomeFold ==
    ASSUME NEW base, NEW seq, NEW n \in Nat
    PROVE  \E g : IsFold(g, base, seq, n)
<1> DEFINE Wrong == {i \in Nat : ~ \E g : IsFold(g, base, seq, i)}
<1>. SUFFICES ASSUME Wrong # {} PROVE FALSE
  OBVIOUS
<1>1. PICK m \in Wrong : \A i \in Wrong : m <= i
  <2>1. Wrong \subseteq Nat
    OBVIOUS
  <2>. HIDE DEF Wrong
  <2>. QED  BY <2>1, SmallestNat, Zenon
<1>2. m # 0
  <2> DEFINE g == [s \in SUBSET (1..0) |-> base]
  <2>1. \A s \in SUBSET (1..0) : s = {}
    OBVIOUS
  <2>2. IsFold(g, base, seq, 0)
    BY <2>1 DEF IsFold
  <2>. QED  BY <2>2
<1>3. m \in Nat /\ m - 1 \in Nat /\ m - 1 \notin Wrong
  BY <1>1, <1>2
<1>4. PICK g : IsFold(g, base, seq, m - 1)
  BY <1>3
<1> DEFINE k == [s \in SUBSET (1..m) |->
                    IF m \in s THEN Step(g[s \ {m}], seq[m]) ELSE g[s]]
<1>5. ASSUME NEW s \in SUBSET (1..m)
      PROVE  k[s] = IF s = {} THEN base
                    ELSE Step(k[s \ {Max(s)}], seq[Max(s)])
  <2>1. CASE m \in s
    <3>1. Max(s) = m
      BY <1>3, <2>1, MaxOfLast
    <3>2. s \ {m} \in SUBSET (1..m) /\ m \notin s \ {m}
      OBVIOUS
    <3>3. k[s \ {m}] = g[s \ {m}] /\ k[s] = Step(g[s \ {m}], seq[m])
      BY <2>1, <3>2
    <3>. QED  BY <2>1, <3>1, <3>3
  <2>2. CASE m \notin s
    <3>1. s \in SUBSET (1..m - 1) /\ k[s] = g[s]
      BY <1>3, <2>2
    <3>2. g[s] = IF s = {} THEN base
                 ELSE Step(g[s \ {Max(s)}], seq[Max(s)])
      BY <1>4, <3>1 DEF IsFold
    <3>3. s \ {Max(s)} \in SUBSET (1..m) /\ m \notin s \ {Max(s)}
      BY <2>2
    <3>4. k[s \ {Max(s)}] = g[s \ {Max(s)}]
      BY <3>3
    <3>. QED  BY <3>1, <3>2, <3>4
  <2>. QED  BY <2>1, <2>2
<1>6. k = [s \in SUBSET (1..m) |-> k[s]]
  OBVIOUS
<1>. HIDE DEF k
<1>7. IsFold(k, base, seq, m)
  BY <1>5, <1>6 DEF IsFold
<1>. QED  BY <1>7

LEMMA FoldLeftIsFold ==
    ASSUME NEW base, NEW seq, NEW n \in Nat, DOMAIN seq = 1..n
    PROVE  \E g : IsFold(g, base, seq, n) /\ FoldLeft(Step, base, seq) = g[1..n]
<1>1. \E g : IsFold(g, base, seq, n)
  BY SomeFold
<1> DEFINE iter == CHOOSE g : IsFold(g, base, seq, n)
<1>2. IsFold(iter, base, seq, n)
  BY <1>1, Zenon
<1>3. FoldLeft(Step, base, seq) = iter[1..n]
  BY DEF FoldLeft, MapThenFoldSet, IsFold
<1>. QED  BY <1>2, <1>3

\* Folding a sequence without its last member agrees with folding all of it.
LEMMA FoldsAgree ==
    ASSUME NEW base, NEW seq, NEW shorter, NEW n \in Nat, NEW m \in Nat, n <= m,
           \A i \in 1..n : shorter[i] = seq[i],
           NEW g, IsFold(g, base, shorter, n), NEW k, IsFold(k, base, seq, m)
    PROVE  g[1..n] = k[1..n]
<1> DEFINE Wrong == {i \in 0..n : g[1..i] # k[1..i]}
<1>. SUFFICES ASSUME Wrong # {} PROVE FALSE
  OBVIOUS
<1>1. PICK i \in Wrong : \A j \in Wrong : i <= j
  <2>1. Wrong \subseteq Nat
    OBVIOUS
  <2>. HIDE DEF Wrong
  <2>. QED  BY <2>1, SmallestNat, Zenon
<1>2. /\ 1..i \in SUBSET (1..n) /\ 1..i \in SUBSET (1..m)
      /\ g[1..i] = IF 1..i = {} THEN base
                   ELSE Step(g[(1..i) \ {Max(1..i)}], shorter[Max(1..i)])
      /\ k[1..i] = IF 1..i = {} THEN base
                   ELSE Step(k[(1..i) \ {Max(1..i)}], seq[Max(1..i)])
  <2>1. 1..i \in SUBSET (1..n) /\ 1..i \in SUBSET (1..m)
    OBVIOUS
  <2>. QED  BY <2>1 DEF IsFold
<1>3. i # 0
  <2>1. 1..0 = {}
    OBVIOUS
  <2>. QED  BY <1>2, <2>1
<1>4. i - 1 \in 0..n /\ i - 1 \notin Wrong /\ i \in 1..n
  BY <1>1, <1>3
<1>5. Max(1..i) = i /\ (1..i) \ {i} = 1..i - 1 /\ 1..i # {}
  <2>1. i \in Nat /\ i # 0
    BY <1>4
  <2>. HIDE DEF Wrong
  <2>. QED  BY <2>1, LastOfSegment
<1>6. g[1..i - 1] = k[1..i - 1]
  BY <1>4
<1>. QED  BY <1>2, <1>4, <1>5, <1>6

\* A fold of the first i members, for each i.
LEMMA FoldStepwise ==
    ASSUME NEW base, NEW seq, NEW n \in Nat, NEW g, IsFold(g, base, seq, n)
    PROVE  /\ g[1..0] = base
           /\ \A i \in 1..n : g[1..i] = Step(g[1..i - 1], seq[i])
<1>1. 1..0 = {} /\ 1..0 \in SUBSET (1..n)
  OBVIOUS
<1>2. g[1..0] = base
  BY <1>1 DEF IsFold
<1>3. ASSUME NEW i \in 1..n
      PROVE  g[1..i] = Step(g[1..i - 1], seq[i])
  <2>1. 1..i \in SUBSET (1..n) /\ i \in Nat /\ i # 0
    OBVIOUS
  <2>2. Max(1..i) = i /\ (1..i) \ {i} = 1..i - 1 /\ 1..i # {}
    BY <2>1, LastOfSegment
  <2>. QED  BY <2>1, <2>2 DEF IsFold
<1>. QED  BY <1>2, <1>3

LEMMA FoldOfNothing ==
    ASSUME NEW base, NEW seq, DOMAIN seq = {}
    PROVE  FoldLeft(Step, base, seq) = base
<1>1. 1..0 = {}
  OBVIOUS
<1>2. PICK g : IsFold(g, base, seq, 0) /\ FoldLeft(Step, base, seq) = g[1..0]
  BY <1>1, FoldLeftIsFold
<1>3. 1..0 \in SUBSET (1..0)
  OBVIOUS
<1>. QED  BY <1>1, <1>2, <1>3 DEF IsFold

LEMMA FoldOfMore ==
    ASSUME NEW base, NEW seq, NEW shorter, NEW n \in Nat,
           DOMAIN seq = 1..n + 1, DOMAIN shorter = 1..n,
           \A i \in 1..n : shorter[i] = seq[i]
    PROVE  FoldLeft(Step, base, seq)
               = Step(FoldLeft(Step, base, shorter), seq[n + 1])
<1> DEFINE m == n + 1
<1>1. PICK k : IsFold(k, base, seq, m) /\ FoldLeft(Step, base, seq) = k[1..m]
  BY FoldLeftIsFold
<1>2. PICK g : /\ IsFold(g, base, shorter, n)
               /\ FoldLeft(Step, base, shorter) = g[1..n]
  BY FoldLeftIsFold
<1>3. g[1..n] = k[1..n]
  BY <1>1, <1>2, FoldsAgree
<1>4. Max(1..m) = m /\ (1..m) \ {m} = 1..n /\ 1..m # {}
  BY LastOfSegment
<1>5. k[1..m] = Step(k[1..n], seq[m])
  <2>1. 1..m \in SUBSET (1..m)
    OBVIOUS
  <2>. QED  BY <1>1, <1>4, <2>1 DEF IsFold
<1>. QED  BY <1>1, <1>2, <1>3, <1>5

\* What holds of the base and outlives every step holds of the fold.
LEMMA FoldInduction ==
    ASSUME NEW base, NEW seq, NEW n \in Nat, NEW g, IsFold(g, base, seq, n),
           Claim(base),
           \A r : \A i \in 1..n : Claim(r) => Claim(Step(r, seq[i]))
    PROVE  Claim(g[1..n])
<1> DEFINE Wrong == {i \in 0..n : ~Claim(g[1..i])}
<1>. SUFFICES ASSUME Wrong # {} PROVE FALSE
  OBVIOUS
<1>2. PICK i \in Wrong : \A j \in Wrong : i <= j
  <2>1. Wrong \subseteq Nat
    OBVIOUS
  <2>. HIDE DEF Wrong
  <2>. QED  BY <2>1, SmallestNat, Zenon
<1>3. g[1..i] = IF 1..i = {} THEN base
                ELSE Step(g[(1..i) \ {Max(1..i)}], seq[Max(1..i)])
  <2>1. 1..i \in SUBSET (1..n)
    OBVIOUS
  <2>. QED  BY <2>1 DEF IsFold
<1>4. i # 0
  <2>1. 1..0 = {}
    OBVIOUS
  <2>. QED  BY <1>3, <2>1
<1>5. i - 1 \in 0..n /\ i - 1 \notin Wrong /\ i \in 1..n
  BY <1>2, <1>4
<1>6. Max(1..i) = i /\ (1..i) \ {i} = 1..i - 1 /\ 1..i # {}
  <2>1. i \in Nat /\ i # 0
    BY <1>5
  <2>. HIDE DEF Wrong
  <2>. QED  BY <2>1, LastOfSegment
<1>7. g[1..i] = Step(g[1..i - 1], seq[i]) /\ Claim(g[1..i - 1])
  BY <1>3, <1>5, <1>6
<1>. QED  BY <1>5, <1>7
=============================================================================
