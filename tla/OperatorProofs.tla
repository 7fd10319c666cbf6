--------------------------- MODULE OperatorProofs ---------------------------
(***************************************************************************)
(* What comes back of one expression and of one operator: an expression    *)
(* that the producer wrote and the consumer read has the value it had, and *)
(* an operator on inputs that come back does.  Nothing here depends on the *)
(* plans built so far.                                                     *)
(***************************************************************************)
EXTENDS RoundTrip, SequenceTheorems, TLAPS

-----------------------------------------------------------------------------
(* Sequences whose elements have no type.                                  *)

IsSeq(s) == Len(s) \in Nat /\ s = [i \in 1..Len(s) |-> s[i]]

LEMMA SeqIsSeq ==
    ASSUME NEW S, NEW s \in Seq(S)
    PROVE  IsSeq(s)
BY DEF IsSeq

LEMMA MadeIsSeq ==
    ASSUME NEW n \in Nat, NEW s, s = [k \in 1..n |-> s[k]]
    PROVE  IsSeq(s) /\ Len(s) = n
<1>1. s \in Seq({s[k] : k \in 1..n}) /\ DOMAIN s = 1..n
  OBVIOUS
<1>. QED  BY <1>1 DEF IsSeq

\* As many as there are in s.
LEMMA OverDomain ==
    ASSUME NEW s, IsSeq(s), NEW t, DOMAIN t = DOMAIN s,
           t = [k \in DOMAIN t |-> t[k]]
    PROVE  IsSeq(t) /\ Len(t) = Len(s)
<1>1. DOMAIN s = 1..Len(s) /\ Len(s) \in Nat
  BY DEF IsSeq
<1>2. t = [k \in 1..Len(s) |-> t[k]]
  BY <1>1
<1>. QED  BY <1>1, <1>2, MadeIsSeq

LEMMA ConcatIsSeq ==
    ASSUME NEW s, IsSeq(s), NEW t, IsSeq(t)
    PROVE  IsSeq(s \o t) /\ Len(s \o t) = Len(s) + Len(t)
<1> DEFINE S == {s[i] : i \in 1..Len(s)} \cup {t[i] : i \in 1..Len(t)}
<1>1. s \in Seq(S) /\ t \in Seq(S)
  BY DEF IsSeq
<1>. HIDE DEF S
<1>2. s \o t \in Seq(S) /\ Len(s \o t) = Len(s) + Len(t)
  BY <1>1
<1>. QED  BY <1>2, SeqIsSeq

LEMMA AppendIsSeq ==
    ASSUME NEW s, IsSeq(s), NEW e
    PROVE  /\ IsSeq(Append(s, e)) /\ Len(Append(s, e)) = Len(s) + 1
           /\ Append(s, e)[Len(s) + 1] = e
           /\ \A i \in 1..Len(s) : Append(s, e)[i] = s[i]
<1> DEFINE S == {s[i] : i \in 1..Len(s)} \cup {e}
<1>1. s \in Seq(S) /\ e \in S
  BY DEF IsSeq
<1>. HIDE DEF S
<1>2. /\ Append(s, e) \in Seq(S) /\ Len(Append(s, e)) = Len(s) + 1
      /\ Append(s, e)[Len(s) + 1] = e
      /\ \A i \in 1..Len(s) : Append(s, e)[i] = s[i]
  BY <1>1
<1>. QED  BY <1>2, SeqIsSeq

\* Without the topmost n.
LEMMA BelowIsSeq ==
    ASSUME NEW s, IsSeq(s), NEW n \in 0..Len(s)
    PROVE  /\ IsSeq(SubSeq(s, 1, Len(s) - n))
           /\ Len(SubSeq(s, 1, Len(s) - n)) = Len(s) - n
           /\ \A i \in 1..Len(s) - n : SubSeq(s, 1, Len(s) - n)[i] = s[i]
<1> DEFINE m == Len(s) - n
<1>1. m \in Nat /\ \A i \in 1..m : 1 + i - 1 = i
  BY DEF IsSeq
<1>2. SubSeq(s, 1, m) = [i \in 1..m |-> s[i]]
  BY <1>1
<1>. HIDE DEF m
<1>3. IsSeq(SubSeq(s, 1, m)) /\ Len(SubSeq(s, 1, m)) = m
  BY <1>1, <1>2, MadeIsSeq
<1>4. \A i \in 1..m : SubSeq(s, 1, m)[i] = s[i]
  BY <1>2
<1>. QED  BY <1>3, <1>4 DEF m

-----------------------------------------------------------------------------
(* Expressions that are nested no deeper than they are looked into.        *)

Nested0(e) == e.args = <<>>
Nested1(e) == \A k \in DOMAIN e.args : Nested0(e.args[k])
Nested2(e) == \A k \in DOMAIN e.args : Nested1(e.args[k])
Nested3(e) == \A k \in DOMAIN e.args : Nested2(e.args[k])
Nested4(e) == \A k \in DOMAIN e.args : Nested3(e.args[k])
Height(e) == CASE Nested0(e) -> 0
               [] ~Nested0(e) /\ Nested1(e) -> 1
               [] ~Nested1(e) /\ Nested2(e) -> 2
               [] ~Nested2(e) /\ Nested3(e) -> 3
               [] OTHER -> 4

LEMMA NestedGrows ==
    ASSUME NEW e
    PROVE  /\ Nested0(e) => Nested1(e)
           /\ Nested1(e) => Nested2(e)
           /\ Nested2(e) => Nested3(e)
           /\ Nested3(e) => Nested4(e)
<1>0. \A x : Nested0(x) => Nested1(x)
  BY DEF Nested0, Nested1
<1>1. \A x : Nested1(x) => Nested2(x)
  BY <1>0 DEF Nested1, Nested2
<1>2. \A x : Nested2(x) => Nested3(x)
  BY <1>1 DEF Nested2, Nested3
<1>3. \A x : Nested3(x) => Nested4(x)
  BY <1>2 DEF Nested3, Nested4
<1>. QED  BY <1>0, <1>1, <1>2, <1>3

LEMMA ArgumentsAreLower ==
    ASSUME NEW e, Nested4(e), NEW k \in DOMAIN e.args
    PROVE  /\ Nested4(e.args[k])
           /\ Height(e) \in Nat /\ Height(e.args[k]) \in Nat
           /\ Height(e.args[k]) < Height(e)
<1> DEFINE a == e.args[k]
<1>1. /\ ~Nested0(e)
      /\ Nested1(e) => Nested0(a)
      /\ Nested2(e) => Nested1(a)
      /\ Nested3(e) => Nested2(a)
      /\ Nested3(a)
  <2>1. ~Nested0(e)
    BY DEF Nested0
  <2>2. Nested1(e) => Nested0(a)
    BY Zenon DEF Nested1
  <2>3. Nested2(e) => Nested1(a)
    BY Zenon DEF Nested2
  <2>4. Nested3(e) => Nested2(a)
    BY Zenon DEF Nested3
  <2>5. Nested3(a)
    BY Zenon DEF Nested4
  <2>. HIDE DEF a
  <2>. QED  BY <2>1, <2>2, <2>3, <2>4, <2>5, Zenon
<1>2. /\ Nested0(a) => Nested1(a)
      /\ Nested1(a) => Nested2(a)
      /\ Nested2(a) => Nested3(a)
      /\ Nested3(a) => Nested4(a)
      /\ Nested0(e) => Nested1(e)
      /\ Nested1(e) => Nested2(e)
      /\ Nested2(e) => Nested3(e)
  BY NestedGrows
<1>. HIDE DEF a
<1>3. Height(e) \in Nat /\ Height(a) \in Nat /\ Height(a) < Height(e)
  BY <1>1, <1>2 DEF Height
<1>. QED  BY <1>1, <1>2, <1>3 DEF a

Down0(e) == {e}
Down1(e) == Down0(e) \cup Arguments(Down0(e))
Down2(e) == Down1(e) \cup Arguments(Down1(e))
Down3(e) == Down2(e) \cup Arguments(Down2(e))
Down4(e) == Down3(e) \cup Arguments(Down3(e))

LEMMA WithinIsDown ==
    ASSUME NEW e
    PROVE  Within(e) = Down4(e)
<1>1. CASE e.args = <<>>
  <2>1. Arguments({e}) = {}
    BY <1>1 DEF Arguments, Range
  <2>. QED  BY <1>1, <2>1 DEF Within, Down0, Down1, Down2, Down3, Down4
<1>2. CASE e.args # <<>>
  <2> DEFINE IsFrom(f) == f = [n \in 0..MaxNesting |->
                                  IF n = 0 THEN {e}
                                  ELSE LET S == f[n - 1] IN S \cup Arguments(S)]
             down == [n \in 0..4 |-> CASE n = 0 -> Down0(e) [] n = 1 -> Down1(e)
                                       [] n = 2 -> Down2(e) [] n = 3 -> Down3(e)
                                       [] n = 4 -> Down4(e)]
  <2>1. IsFrom(down)
    <3>1. 0..4 = {0, 1, 2, 3, 4}
      OBVIOUS
    <3>2. ASSUME NEW n \in 0..4
          PROVE  down[n] = IF n = 0 THEN {e}
                           ELSE down[n - 1] \cup Arguments(down[n - 1])
      <4>1. CASE n = 0
        BY <4>1 DEF Down0
      <4>2. CASE n = 1
        BY <4>2 DEF Down1
      <4>3. CASE n = 2
        BY <4>3 DEF Down2
      <4>4. CASE n = 3
        BY <4>4 DEF Down3
      <4>5. CASE n = 4
        BY <4>5 DEF Down4
      <4>. QED  BY <4>1, <4>2, <4>3, <4>4, <4>5
    <3>3. down = [n \in 0..4 |-> down[n]]
      OBVIOUS
    <3>. HIDE DEF down
    <3>. QED  BY <3>2, <3>3 DEF MaxNesting
  <2> DEFINE from == CHOOSE f : IsFrom(f)
  <2>2. IsFrom(from)
    BY <2>1, Zenon
  <2>3. Within(e) = from[MaxNesting]
    BY <1>2 DEF Within
  <2>. HIDE DEF from, down
  <2>4. from[0] = Down0(e)
    BY <2>2 DEF MaxNesting, Down0
  <2>5. from[1] = Down1(e)
    BY <2>2, <2>4 DEF MaxNesting, Down1
  <2>6. from[2] = Down2(e)
    BY <2>2, <2>5 DEF MaxNesting, Down2
  <2>7. from[3] = Down3(e)
    BY <2>2, <2>6 DEF MaxNesting, Down3
  <2>8. from[4] = Down4(e)
    BY <2>2, <2>7 DEF MaxNesting, Down4
  <2>. QED  BY <2>3, <2>8 DEF MaxNesting
<1>. QED  BY <1>1, <1>2

LEMMA ArgumentsOf ==
    ASSUME NEW S, NEW y
    PROVE  y \in Arguments(S) <=> \E x \in S : \E k \in DOMAIN x.args : y = x.args[k]
BY DEF Arguments, Range

\* What is found at the last level has no arguments left.
LEMMA WithinIsClosed ==
    ASSUME NEW e, Nested4(e), NEW x \in Within(e)
    PROVE  Nested4(x) /\ \A k \in DOMAIN x.args : x.args[k] \in Within(e)
<1>1. x \in Down4(e)
  BY WithinIsDown
<1>2. \A y \in Down0(e) : Nested4(y)
  BY DEF Down0
<1>3. \A y \in Down1(e) : y \in Down0(e) \/ Nested3(y)
  BY <1>2, ArgumentsOf DEF Down1, Nested4
<1>4. \A y \in Down2(e) : y \in Down1(e) \/ Nested2(y)
  <2>. SUFFICES ASSUME NEW y \in Arguments(Down1(e)), y \notin Down1(e)
                PROVE  Nested2(y)
    BY DEF Down2
  <2>1. PICK z \in Down1(e) : \E k \in DOMAIN z.args : y = z.args[k]
    BY ArgumentsOf
  <2>2. z \notin Down0(e)
    BY <2>1, ArgumentsOf DEF Down1
  <2>. QED  BY <1>3, <2>1, <2>2 DEF Nested3
<1>5. \A y \in Down3(e) : y \in Down2(e) \/ Nested1(y)
  <2>. SUFFICES ASSUME NEW y \in Arguments(Down2(e)), y \notin Down2(e)
                PROVE  Nested1(y)
    BY DEF Down3
  <2>1. PICK z \in Down2(e) : \E k \in DOMAIN z.args : y = z.args[k]
    BY ArgumentsOf
  <2>2. z \notin Down1(e)
    BY <2>1, ArgumentsOf DEF Down2
  <2>. QED  BY <1>4, <2>1, <2>2 DEF Nested2
<1>6. \A y \in Down4(e) : y \in Down3(e) \/ Nested0(y)
  <2>. SUFFICES ASSUME NEW y \in Arguments(Down3(e)), y \notin Down3(e)
                PROVE  Nested0(y)
    BY DEF Down4
  <2>1. PICK z \in Down3(e) : \E k \in DOMAIN z.args : y = z.args[k]
    BY ArgumentsOf
  <2>2. z \notin Down2(e)
    BY <2>1, ArgumentsOf DEF Down3
  <2>. QED  BY <1>5, <2>1, <2>2 DEF Nested1
<1>7. Nested4(x)
  BY <1>1, <1>2, <1>3, <1>4, <1>5, <1>6, NestedGrows
<1>8. \A k \in DOMAIN x.args : x.args[k] \in Down4(e)
  <2>1. CASE x \in Down3(e)
    BY <2>1, ArgumentsOf DEF Down4
  <2>2. CASE Nested0(x)
    BY <2>2 DEF Nested0
  <2>. QED  BY <1>1, <1>6, <2>1, <2>2
<1>. QED  BY <1>7, <1>8, WithinIsDown

LEMMA WithinItself == ASSUME NEW e PROVE e \in Within(e)
BY WithinIsDown DEF Down0, Down1, Down2, Down3, Down4

LEMMA ArgumentsMonotone ==
    ASSUME NEW S, NEW T, S \subseteq T
    PROVE  Arguments(S) \subseteq Arguments(T)
BY ArgumentsOf

LEMMA WithinArgument ==
    ASSUME NEW e, Nested4(e), NEW k \in DOMAIN e.args
    PROVE  Within(e.args[k]) \subseteq Within(e)
<1> DEFINE a == e.args[k]
<1>1. a \in Down1(e)
  BY ArgumentsOf DEF Down0, Down1
<1>2. Down0(a) \subseteq Down1(e)
  BY <1>1 DEF Down0
<1>3. Down1(a) \subseteq Down2(e)
  BY <1>2, ArgumentsMonotone DEF Down1, Down2
<1>4. Down2(a) \subseteq Down3(e)
  BY <1>3, ArgumentsMonotone DEF Down2, Down3
<1>5. Down3(a) \subseteq Down4(e)
  BY <1>4, ArgumentsMonotone DEF Down3, Down4
<1>6. \A x \in Within(e) : \A i \in DOMAIN x.args : x.args[i] \in Within(e)
  BY WithinIsClosed
<1>7. Arguments(Down3(a)) \subseteq Within(e)
  BY <1>5, <1>6, WithinIsDown, ArgumentsOf
<1>8. Down4(a) \subseteq Within(e)
  BY <1>5, <1>7, WithinIsDown DEF Down4
<1>. QED  BY <1>8, WithinIsDown

-----------------------------------------------------------------------------
(* The value of an expression and both translations of it are recursive    *)
(* functions of the same form: what is made of a place, <<what, expression,*)
(* the columns or the offset>>, follows from what is made of its arguments.*)

With(d) == IF d[1] = "written" /\ Producer!OffsetDropped(d[2]) THEN 0 ELSE d[3]
PartsOf(d) == {<<d[1], d[2].args[k], With(d)>> : k \in DOMAIN d[2].args}
MadeOf(f, d) == [k \in DOMAIN d[2].args |-> f[<<d[1], d[2].args[k], With(d)>>]]
MadeBy(what, e, args, with) ==
    CASE what = "value"   -> ValueOf(e, args, with)
      [] what = "written" -> Producer!TransformExprOn(e, args, with)
      [] what = "read"    -> TransformExprOn(e, args)
StepOf(f, d) == MadeBy(d[1], d[2], MadeOf(f, d), d[3])
HeightOf(d) == Height(d[2])
IsPlace(d) == Nested4(d[2])

PlaceOf == INSTANCE Recursion
           WITH Height <- HeightOf, Parts <- PartsOf, Step <- StepOf,
                Claim <- IsPlace

Withs(what, with) == IF what = "written" THEN {0, with} ELSE {with}
Places(what, e, with) ==
    {<<what, x, w>> : x \in Within(e), w \in Withs(what, with)}
IsMade(f, S) == f = [d \in S |-> StepOf(f, d)]
Made(what, e, with) ==
    (CHOOSE f : IsMade(f, Places(what, e, with)))[<<what, e, with>>]

LEMMA PlacesAreFounded ==
    ASSUME NEW what, NEW e, Nested4(e), NEW with
    PROVE  PlaceOf!IsFounded(Places(what, e, with))
<1> DEFINE S == Places(what, e, with)
<1>. SUFFICES ASSUME NEW d \in S
              PROVE  /\ HeightOf(d) \in Nat
                     /\ \A y \in PartsOf(d) : y \in S /\ HeightOf(y) < HeightOf(d)
  BY DEF PlaceOf!IsFounded
<1>1. PICK x \in Within(e), w \in Withs(what, with) : d = <<what, x, w>>
  BY DEF Places
<1>2. Nested4(x) /\ \A k \in DOMAIN x.args : x.args[k] \in Within(e)
  BY WithinIsClosed
<1>3. HeightOf(d) \in Nat
  BY <1>1 DEF HeightOf, Height
<1>4. With(d) \in Withs(what, with)
  BY <1>1 DEF With, Withs
<1>5. ASSUME NEW k \in DOMAIN x.args
      PROVE  /\ <<what, x.args[k], With(d)>> \in S
             /\ HeightOf(<<what, x.args[k], With(d)>>) < HeightOf(d)
  <2>1. Height(x.args[k]) < Height(x)
    BY <1>2, ArgumentsAreLower
  <2>2. x.args[k] \in Within(e)
    BY <1>2
  <2>. QED  BY <1>1, <1>4, <2>1, <2>2 DEF HeightOf, Places
<1>. QED  BY <1>1, <1>3, <1>5 DEF PartsOf

LEMMA PlacesHaveSteps == \A S : PlaceOf!IsStep(S)
<1>. SUFFICES ASSUME NEW d, NEW f, NEW g, \A y \in PartsOf(d) : f[y] = g[y]
              PROVE  StepOf(f, d) = StepOf(g, d)
  BY DEF PlaceOf!IsStep
<1>1. MadeOf(f, d) = MadeOf(g, d)
  BY DEF MadeOf, PartsOf
<1>. QED  BY <1>1 DEF StepOf

LEMMA SomethingIsMade ==
    ASSUME NEW what, NEW e, Nested4(e), NEW with
    PROVE  \E f : IsMade(f, Places(what, e, with))
BY PlacesAreFounded, PlacesHaveSteps, PlaceOf!RecursiveFunction DEF IsMade

LEMMA MadeOnce ==
    ASSUME NEW what, NEW e, Nested4(e), NEW with,
           NEW f, IsMade(f, Places(what, e, with)),
           NEW g, IsMade(g, Places(what, e, with))
    PROVE  f = g
<1> DEFINE S == Places(what, e, with)
<1>1. PlaceOf!Below(S, 5) = S
  <2>1. \A d : HeightOf(d) < 5
    BY DEF HeightOf, Height
  <2>. QED  BY <2>1 DEF PlaceOf!Below
<1>2. PlaceOf!Fits(f, S, 5) /\ PlaceOf!Fits(g, S, 5)
  <2>. HIDE DEF S
  <2>. QED  BY <1>1 DEF PlaceOf!Fits, IsMade, S
<1>3. PlaceOf!IsFounded(S)
  BY PlacesAreFounded
<1>. HIDE DEF S
<1>. QED  BY <1>2, <1>3, PlacesHaveSteps, PlaceOf!FitsOnce

\* What is made of a place within e is what is made of it by itself.
LEMMA MadeWithin ==
    ASSUME NEW what, NEW e, Nested4(e), NEW with,
           NEW k \in DOMAIN e.args, NEW a, a = e.args[k],
           NEW f, IsMade(f, Places(what, e, with)), NEW w \in Withs(what, with)
    PROVE  f[<<what, a, w>>] = Made(what, a, w)
<1> DEFINE S == Places(what, a, w)
           g == [d \in S |-> f[d]]
<1>1. Nested4(a)
  BY ArgumentsAreLower
<1>2. S \subseteq Places(what, e, with)
  <2>1. Within(a) \subseteq Within(e)
    BY WithinArgument
  <2>2. Withs(what, w) \subseteq Withs(what, with)
    BY DEF Withs
  <2>. QED  BY <2>1, <2>2 DEF Places
<1>3. PlaceOf!IsFounded(S)
  BY <1>1, PlacesAreFounded
<1>4. IsMade(g, S)
  <2>1. ASSUME NEW d \in S
        PROVE  g[d] = StepOf(g, d)
    <3>1. f[d] = StepOf(f, d)
      BY <1>2 DEF IsMade
    <3>2. \A y \in PartsOf(d) : f[y] = g[y]
      BY <1>3 DEF PlaceOf!IsFounded
    <3>3. StepOf(f, d) = StepOf(g, d)
      <4>. HIDE DEF g
      <4>. QED  BY <3>2, PlacesHaveSteps DEF PlaceOf!IsStep
    <3>. QED  BY <3>1, <3>3
  <2>2. g = [d \in S |-> g[d]]
    OBVIOUS
  <2>. HIDE DEF g, S
  <2>. QED  BY <2>1, <2>2 DEF IsMade
<1> DEFINE h == CHOOSE h : IsMade(h, S)
<1>5. IsMade(h, S)
  BY <1>4, Zenon
<1>6. g = h
  <2>. HIDE DEF g, h
  <2>. QED  BY <1>1, <1>4, <1>5, MadeOnce
<1>7. <<what, a, w>> \in S
  BY WithinItself DEF Places, Withs
<1>8. g[<<what, a, w>>] = f[<<what, a, w>>]
  BY <1>7
<1>9. Made(what, a, w) = h[<<what, a, w>>]
  BY DEF Made
<1>. HIDE DEF g, h, S
<1>. QED  BY <1>6, <1>8, <1>9

\* The recursive definition.
LEMMA MadeStepwise ==
    ASSUME NEW what, NEW e, Nested4(e), NEW with
    PROVE  Made(what, e, with) =
               MadeBy(what, e,
                      [k \in DOMAIN e.args |->
                          Made(what, e.args[k], With(<<what, e, with>>))],
                      with)
<1> DEFINE d == <<what, e, with>>
           w == With(d)
<1>1. PICK f : IsMade(f, Places(what, e, with)) /\ Made(what, e, with) = f[d]
  <2> DEFINE f == CHOOSE f : IsMade(f, Places(what, e, with))
  <2>1. IsMade(f, Places(what, e, with))
    BY SomethingIsMade, Zenon
  <2>2. Made(what, e, with) = f[d]
    BY DEF Made
  <2>. HIDE DEF f, d
  <2>. QED  BY <2>1, <2>2
<1>2. d \in Places(what, e, with)
  <2>1. e \in Within(e) /\ with \in Withs(what, with)
    BY WithinItself DEF Withs
  <2>. QED  BY <2>1 DEF Places
<1>3. f[d] = StepOf(f, d)
  <2>. HIDE DEF d
  <2>. QED  BY <1>1, <1>2 DEF IsMade
<1>4. w \in Withs(what, with)
  BY DEF With, Withs
<1>5. d[1] = what /\ d[2] = e /\ d[3] = with
  OBVIOUS
<1>. HIDE DEF d
<1>6. ASSUME NEW k \in DOMAIN e.args
      PROVE  f[<<what, e.args[k], w>>] = Made(what, e.args[k], w)
  <2> DEFINE a == e.args[k]
  <2>1. a = e.args[k] /\ IsMade(f, Places(what, e, with))
    BY <1>1
  <2>. HIDE DEF a, w
  <2>. QED  BY <1>4, <2>1, MadeWithin
<1>7. MadeOf(f, d) = [k \in DOMAIN e.args |-> Made(what, e.args[k], w)]
  BY <1>5, <1>6 DEF MadeOf
<1>. QED  BY <1>1, <1>3, <1>5, <1>7 DEF StepOf, d

LEMMA ValueIsMade ==
    ASSUME NEW e, Nested4(e), NEW cols
    PROVE  Value(e, cols) = Made("value", e, cols)
<1> DEFINE S == Places("value", e, cols)
           IsValue(f) == f = [x \in Within(e) |->
                                 ValueOf(x, [k \in DOMAIN x.args |-> f[x.args[k]]],
                                         cols)]
           value == CHOOSE f : IsValue(f)
<1>1. Value(e, cols) = value[e]
  BY DEF Value, Folded
<1>2. ASSUME NEW x \in Within(e)
      PROVE  <<"value", x, cols>> \in S /\ With(<<"value", x, cols>>) = cols
  BY DEF Places, Withs, With
<1>3. ASSUME NEW d \in S
      PROVE  \E x \in Within(e) : d = <<"value", x, cols>>
  BY DEF Places, Withs
<1>4. \A x \in Within(e) : \A k \in DOMAIN x.args : x.args[k] \in Within(e)
  BY WithinIsClosed
<1>5. \E f : IsValue(f)
  <2>1. PICK f : IsMade(f, S)
    BY SomethingIsMade
  <2> DEFINE g == [x \in Within(e) |-> f[<<"value", x, cols>>]]
  <2>2. ASSUME NEW x \in Within(e)
        PROVE  g[x] = ValueOf(x, [k \in DOMAIN x.args |-> g[x.args[k]]], cols)
    <3> DEFINE d == <<"value", x, cols>>
    <3>1. d[1] = "value" /\ d[2] = x /\ d[3] = cols /\ With(d) = cols /\ d \in S
      BY <1>2
    <3>2. \A k \in DOMAIN x.args : g[x.args[k]] = f[<<"value", x.args[k], cols>>]
      BY <1>4
    <3>3. g[x] = f[d]
      OBVIOUS
    <3>. HIDE DEF d, g, S
    <3>4. f[d] = StepOf(f, d)
      BY <2>1, <3>1 DEF IsMade
    <3>5. MadeOf(f, d) = [k \in DOMAIN x.args |-> g[x.args[k]]]
      BY <3>1, <3>2 DEF MadeOf
    <3>. QED  BY <3>1, <3>3, <3>4, <3>5 DEF StepOf, MadeBy
  <2>3. g = [x \in Within(e) |-> g[x]]
    OBVIOUS
  <2>. HIDE DEF g
  <2>4. IsValue(g)
    BY <2>2, <2>3
  <2>. HIDE DEF IsValue
  <2>. QED  BY <2>4
<1>6. IsValue(value)
  BY <1>5, Zenon
<1>. HIDE DEF value
<1> DEFINE f == [d \in S |-> value[d[2]]]
<1>7. IsMade(f, S)
  <2>1. ASSUME NEW d \in S
        PROVE  f[d] = StepOf(f, d)
    <3>1. PICK x \in Within(e) : d = <<"value", x, cols>>
      BY <1>3
    <3>2. d[1] = "value" /\ d[2] = x /\ d[3] = cols /\ With(d) = cols
      BY <1>2, <3>1
    <3>3. \A k \in DOMAIN x.args :
              f[<<"value", x.args[k], cols>>] = value[x.args[k]]
      BY <1>2, <1>4
    <3>4. f[d] = value[x]
      BY <3>2
    <3>. HIDE DEF f, S
    <3>5. MadeOf(f, d) = [k \in DOMAIN x.args |-> value[x.args[k]]]
      BY <3>2, <3>3 DEF MadeOf
    <3>6. value[x] = ValueOf(x, [k \in DOMAIN x.args |-> value[x.args[k]]], cols)
      BY <1>6
    <3>. QED  BY <3>2, <3>4, <3>5, <3>6 DEF StepOf, MadeBy
  <2>2. f = [d \in S |-> f[d]]
    OBVIOUS
  <2>. HIDE DEF f, S
  <2>. QED  BY <2>1, <2>2 DEF IsMade
<1>8. f[<<"value", e, cols>>] = value[e]
  BY <1>2, WithinItself
<1>. HIDE DEF f
<1> DEFINE g == CHOOSE g : IsMade(g, S)
<1>9. IsMade(g, S)
  BY <1>7, Zenon
<1>10. Made("value", e, cols) = g[<<"value", e, cols>>]
  BY DEF Made
<1>. HIDE DEF g
<1>11. f = g
  BY <1>7, <1>9, MadeOnce
<1>. QED  BY <1>1, <1>8, <1>10, <1>11

LEMMA ReadIsMade ==
    ASSUME NEW e, Nested4(e)
    PROVE  TransformExpr(e) = Made("read", e, 0)
<1> DEFINE S == Places("read", e, 0)
           IsRead(f) == f = [x \in Within(e) |->
                                 TransformExprOn(x, [k \in DOMAIN x.args |->
                                                     f[x.args[k]]])]
           read == CHOOSE f : IsRead(f)
<1>1. TransformExpr(e) = read[e]
  BY DEF TransformExpr, Folded
<1>2. ASSUME NEW x \in Within(e)
      PROVE  <<"read", x, 0>> \in S /\ With(<<"read", x, 0>>) = 0
  BY DEF Places, Withs, With
<1>3. ASSUME NEW d \in S
      PROVE  \E x \in Within(e) : d = <<"read", x, 0>>
  BY DEF Places, Withs
<1>4. \A x \in Within(e) : \A k \in DOMAIN x.args : x.args[k] \in Within(e)
  BY WithinIsClosed
<1>5. \E f : IsRead(f)
  <2>1. PICK f : IsMade(f, S)
    BY SomethingIsMade
  <2> DEFINE g == [x \in Within(e) |-> f[<<"read", x, 0>>]]
  <2>2. ASSUME NEW x \in Within(e)
        PROVE  g[x] = TransformExprOn(x, [k \in DOMAIN x.args |-> g[x.args[k]]])
    <3> DEFINE d == <<"read", x, 0>>
    <3>1. d[1] = "read" /\ d[2] = x /\ d[3] = 0 /\ With(d) = 0 /\ d \in S
      BY <1>2
    <3>2. \A k \in DOMAIN x.args : g[x.args[k]] = f[<<"read", x.args[k], 0>>]
      BY <1>4
    <3>3. g[x] = f[d]
      OBVIOUS
    <3>. HIDE DEF d, g, S
    <3>4. f[d] = StepOf(f, d)
      BY <2>1, <3>1 DEF IsMade
    <3>5. MadeOf(f, d) = [k \in DOMAIN x.args |-> g[x.args[k]]]
      BY <3>1, <3>2 DEF MadeOf
    <3>. QED  BY <3>1, <3>3, <3>4, <3>5 DEF StepOf, MadeBy
  <2>3. g = [x \in Within(e) |-> g[x]]
    OBVIOUS
  <2>. HIDE DEF g
  <2>4. IsRead(g)
    BY <2>2, <2>3
  <2>. HIDE DEF IsRead
  <2>. QED  BY <2>4
<1>6. IsRead(read)
  BY <1>5, Zenon
<1>. HIDE DEF read
<1> DEFINE f == [d \in S |-> read[d[2]]]
<1>7. IsMade(f, S)
  <2>1. ASSUME NEW d \in S
        PROVE  f[d] = StepOf(f, d)
    <3>1. PICK x \in Within(e) : d = <<"read", x, 0>>
      BY <1>3
    <3>2. d[1] = "read" /\ d[2] = x /\ d[3] = 0 /\ With(d) = 0
      BY <1>2, <3>1
    <3>3. \A k \in DOMAIN x.args :
              f[<<"read", x.args[k], 0>>] = read[x.args[k]]
      BY <1>2, <1>4
    <3>4. f[d] = read[x]
      BY <3>2
    <3>. HIDE DEF f, S
    <3>5. MadeOf(f, d) = [k \in DOMAIN x.args |-> read[x.args[k]]]
      BY <3>2, <3>3 DEF MadeOf
    <3>6. read[x] = TransformExprOn(x, [k \in DOMAIN x.args |-> read[x.args[k]]])
      BY <1>6
    <3>. QED  BY <3>2, <3>4, <3>5, <3>6 DEF StepOf, MadeBy
  <2>2. f = [d \in S |-> f[d]]
    OBVIOUS
  <2>. HIDE DEF f, S
  <2>. QED  BY <2>1, <2>2 DEF IsMade
<1>8. f[<<"read", e, 0>>] = read[e]
  BY <1>2, WithinItself
<1>. HIDE DEF f
<1> DEFINE g == CHOOSE g : IsMade(g, S)
<1>9. IsMade(g, S)
  BY <1>7, Zenon
<1>10. Made("read", e, 0) = g[<<"read", e, 0>>]
  BY DEF Made
<1>. HIDE DEF g
<1>11. f = g
  BY <1>7, <1>9, MadeOnce
<1>. QED  BY <1>1, <1>8, <1>10, <1>11

LEMMA WrittenIsMade ==
    ASSUME NEW e, Nested4(e), NEW offset
    PROVE  Producer!TransformExpr(e, offset) = Made("written", e, offset)
<1> DEFINE S == Places("written", e, offset)
           below(x, o) == IF Producer!OffsetDropped(x) THEN 0 ELSE o
           W == Within(e) \X {0, offset}
           IsWritten(f) ==
               f = [at \in W |->
                       Producer!TransformExprOn(
                           at[1], [k \in DOMAIN at[1].args |->
                                      f[<<at[1].args[k], below(at[1], at[2])>>]],
                           at[2])]
           written == CHOOSE f : IsWritten(f)
<1>0. Producer!Within(e) = Within(e)
  BY DEF Producer!Within, Within, Producer!Arguments, Arguments,
         Producer!Range, Range, Producer!MaxNesting, MaxNesting
<1>1. Producer!TransformExpr(e, offset) = written[<<e, offset>>]
  BY <1>0 DEF Producer!TransformExpr
<1>2. ASSUME NEW at \in W
      PROVE  /\ <<"written", at[1], at[2]>> \in S
             /\ With(<<"written", at[1], at[2]>>) = below(at[1], at[2])
             /\ \A k \in DOMAIN at[1].args :
                    <<at[1].args[k], below(at[1], at[2])>> \in W
  <2>1. at[1] \in Within(e) /\ at[2] \in {0, offset}
    OBVIOUS
  <2>2. <<"written", at[1], at[2]>> \in S
    BY <2>1 DEF Places, Withs
  <2>3. With(<<"written", at[1], at[2]>>) = below(at[1], at[2])
    BY DEF With
  <2>4. below(at[1], at[2]) \in {0, offset}
    BY <2>1
  <2>. HIDE DEF below
  <2>5. \A k \in DOMAIN at[1].args : at[1].args[k] \in Within(e)
    BY <2>1, WithinIsClosed
  <2>. QED  BY <2>2, <2>3, <2>4, <2>5
<1>3. ASSUME NEW d \in S
      PROVE  /\ d = <<"written", d[2], d[3]>>
             /\ <<d[2], d[3]>> \in W
  BY DEF Places, Withs
<1>. HIDE DEF below
<1>5. \E f : IsWritten(f)
  <2>1. PICK f : IsMade(f, S)
    BY SomethingIsMade
  <2> DEFINE g == [at \in W |-> f[<<"written", at[1], at[2]>>]]
  <2>2. ASSUME NEW at \in W
        PROVE  g[at] = Producer!TransformExprOn(
                           at[1], [k \in DOMAIN at[1].args |->
                                      g[<<at[1].args[k], below(at[1], at[2])>>]],
                           at[2])
    <3> DEFINE d == <<"written", at[1], at[2]>>
    <3>1. /\ d[1] = "written" /\ d[2] = at[1] /\ d[3] = at[2]
          /\ With(d) = below(at[1], at[2]) /\ d \in S
      BY <1>2
    <3>2. ASSUME NEW k \in DOMAIN at[1].args
          PROVE  g[<<at[1].args[k], below(at[1], at[2])>>]
                     = f[<<"written", at[1].args[k], below(at[1], at[2])>>]
      <4> DEFINE b == <<at[1].args[k], below(at[1], at[2])>>
      <4>1. b \in W /\ b[1] = at[1].args[k] /\ b[2] = below(at[1], at[2])
        BY <1>2
      <4>. HIDE DEF b, W
      <4>2. g[b] = f[<<"written", b[1], b[2]>>]
        BY <4>1
      <4>. QED  BY <4>1, <4>2 DEF b
    <3>3. g[at] = f[d]
      OBVIOUS
    <3>. HIDE DEF d, g, S
    <3>4. f[d] = StepOf(f, d)
      BY <2>1, <3>1 DEF IsMade
    <3>5. MadeOf(f, d) = [k \in DOMAIN at[1].args |->
                             g[<<at[1].args[k], below(at[1], at[2])>>]]
      BY <3>1, <3>2 DEF MadeOf
    <3>. QED  BY <3>1, <3>3, <3>4, <3>5 DEF StepOf, MadeBy
  <2>3. g = [at \in W |-> g[at]]
    OBVIOUS
  <2>. HIDE DEF g, W
  <2>4. IsWritten(g)
    BY <2>2, <2>3
  <2>. HIDE DEF IsWritten
  <2>. QED  BY <2>4
<1>6. IsWritten(written)
  BY <1>5, Zenon
<1>. HIDE DEF written
<1> DEFINE f == [d \in S |-> written[<<d[2], d[3]>>]]
<1>7. IsMade(f, S)
  <2>1. ASSUME NEW d \in S
        PROVE  f[d] = StepOf(f, d)
    <3> DEFINE at == <<d[2], d[3]>>
    <3>1. /\ at \in W /\ at[1] = d[2] /\ at[2] = d[3] /\ d[1] = "written"
          /\ d = <<"written", d[2], d[3]>>
      BY <1>3
    <3>2. f[d] = written[at]
      OBVIOUS
    <3>. HIDE DEF at
    <3>3. With(d) = below(at[1], at[2])
      BY <1>2, <3>1
    <3>4. ASSUME NEW k \in DOMAIN d[2].args
          PROVE  f[<<"written", d[2].args[k], With(d)>>]
                     = written[<<at[1].args[k], below(at[1], at[2])>>]
      <4> DEFINE b == <<at[1].args[k], below(at[1], at[2])>>
                 c == <<"written", b[1], b[2]>>
      <4>1. b \in W
        BY <1>2, <3>1
      <4>2. c \in S /\ c[2] = b[1] /\ c[3] = b[2]
        <5>. HIDE DEF b, S, W
        <5>. QED  BY <1>2, <4>1
      <4>3. b[1] = d[2].args[k] /\ b[2] = With(d) /\ <<b[1], b[2]>> = b
        BY <3>1, <3>3
      <4>4. f[c] = written[<<c[2], c[3]>>]
        <5>. HIDE DEF c, S
        <5>. QED  BY <4>2
      <4>5. f[c] = written[b]
        <5>. HIDE DEF c, S, b, f
        <5>. QED  BY <4>2, <4>3, <4>4
      <4>6. c = <<"written", d[2].args[k], With(d)>>
        <5>. HIDE DEF b
        <5>. QED  BY <4>3
      <4>. HIDE DEF c, f
      <4>. QED  BY <4>5, <4>6
    <3>. HIDE DEF f, S
    <3>5. MadeOf(f, d) = [k \in DOMAIN at[1].args |->
                             written[<<at[1].args[k], below(at[1], at[2])>>]]
      BY <3>1, <3>4 DEF MadeOf
    <3>6. written[at] =
              Producer!TransformExprOn(
                  at[1], [k \in DOMAIN at[1].args |->
                             written[<<at[1].args[k], below(at[1], at[2])>>]],
                  at[2])
      BY <1>6, <3>1
    <3>. QED  BY <3>1, <3>2, <3>5, <3>6 DEF StepOf, MadeBy
  <2>2. f = [d \in S |-> f[d]]
    OBVIOUS
  <2>. HIDE DEF f, S
  <2>. QED  BY <2>1, <2>2 DEF IsMade
<1>8. f[<<"written", e, offset>>] = written[<<e, offset>>]
  <2> DEFINE d == <<"written", e, offset>>
  <2>1. d \in S /\ <<d[2], d[3]>> = <<e, offset>>
    BY WithinItself DEF Places, Withs
  <2>. HIDE DEF S, d
  <2>2. f[d] = written[<<d[2], d[3]>>]
    BY <2>1
  <2>. QED  BY <2>1, <2>2 DEF d
<1>. HIDE DEF f
<1> DEFINE g == CHOOSE g : IsMade(g, S)
<1>9. IsMade(g, S)
  BY <1>7, Zenon
<1>10. Made("written", e, offset) = g[<<"written", e, offset>>]
  BY DEF Made
<1>. HIDE DEF g
<1>11. f = g
  BY <1>7, <1>9, MadeOnce
<1>. QED  BY <1>1, <1>8, <1>10, <1>11

-----------------------------------------------------------------------------
(* The recursive definitions, one step at a time.                          *)

LEMMA ValueStepwise ==
    ASSUME NEW e, Nested4(e), NEW cols
    PROVE  Value(e, cols) =
               ValueOf(e, [k \in DOMAIN e.args |-> Value(e.args[k], cols)], cols)
<1>1. With(<<"value", e, cols>>) = cols
  BY DEF With
<1>2. \A k \in DOMAIN e.args :
          Value(e.args[k], cols) = Made("value", e.args[k], cols)
  BY ArgumentsAreLower, ValueIsMade
<1>3. Made("value", e, cols) =
          MadeBy("value", e, [k \in DOMAIN e.args |->
                                 Made("value", e.args[k], cols)], cols)
  BY <1>1, MadeStepwise
<1>. QED  BY <1>2, <1>3, ValueIsMade DEF MadeBy

LEMMA ReadStepwise ==
    ASSUME NEW e, Nested4(e)
    PROVE  TransformExpr(e) =
               TransformExprOn(e, [k \in DOMAIN e.args |-> TransformExpr(e.args[k])])
<1>1. With(<<"read", e, 0>>) = 0
  BY DEF With
<1>2. \A k \in DOMAIN e.args : TransformExpr(e.args[k]) = Made("read", e.args[k], 0)
  BY ArgumentsAreLower, ReadIsMade
<1>3. Made("read", e, 0) =
          MadeBy("read", e, [k \in DOMAIN e.args |-> Made("read", e.args[k], 0)], 0)
  BY <1>1, MadeStepwise
<1>. QED  BY <1>2, <1>3, ReadIsMade DEF MadeBy

LEMMA WrittenStepwise ==
    ASSUME NEW e, Nested4(e), NEW offset
    PROVE  LET below == IF Producer!OffsetDropped(e) THEN 0 ELSE offset
           IN  Producer!TransformExpr(e, offset) =
                   Producer!TransformExprOn(
                       e, [k \in DOMAIN e.args |->
                              Producer!TransformExpr(e.args[k], below)],
                       offset)
<1> DEFINE below == IF Producer!OffsetDropped(e) THEN 0 ELSE offset
<1>1. With(<<"written", e, offset>>) = below
  BY DEF With
<1>. HIDE DEF below
<1>2. \A k \in DOMAIN e.args :
          Producer!TransformExpr(e.args[k], below)
              = Made("written", e.args[k], below)
  BY ArgumentsAreLower, WrittenIsMade
<1>3. Made("written", e, offset) =
          MadeBy("written", e, [k \in DOMAIN e.args |->
                                   Made("written", e.args[k], below)], offset)
  BY <1>1, MadeStepwise
<1>4. Producer!TransformExpr(e, offset) =
          Producer!TransformExprOn(
              e, [k \in DOMAIN e.args |->
                     Producer!TransformExpr(e.args[k], below)],
              offset)
  BY <1>2, <1>3, WrittenIsMade DEF MadeBy
<1>. QED  BY <1>4 DEF below

-----------------------------------------------------------------------------
(* The names of functions.                                                *)

\* Names that Substrait has and DuckDB does not.
SubstraitNames ==
    {"modulus", "std_dev", "is_nan", "is_finite", "is_infinite", "like",
     "bitwise_and", "bitwise_or", "bitwise_xor", "least_skip_null",
     "greatest_skip_null", "extract"}
\* Names that are not translated as those of functions.
SpecialNames ==
    Comparisons \cup Operators \cup Extracts
    \cup {"between", "date_part", "substr", "substring", "!~~"}
    \cup Producer!valid_extract_subfields \cup DOMAIN Producer!NestedKind
\* Names that come back as others (count(*) is told apart in aggregates).
OneWayNames == {"first", "octet_length", "count_star"}
IsPlainName(name) ==
    name \notin SubstraitNames \cup SpecialNames \cup OneWayNames
NameBack(name) == RemapFunctionName(Producer!RemapFunctionName(name))

\* No name is mapped twice.
LEMMA WrittenNames ==
    ASSUME NEW p \in Producer!function_names_remap
    PROVE  Producer!RemapFunctionName(p[1]) = p[2]
<1>1. \A q \in Producer!function_names_remap : q[1] = p[1] => q[2] = p[2]
  BY DEF Producer!function_names_remap
<1>. HIDE DEF Producer!function_names_remap
<1>. QED  BY <1>1 DEF Producer!RemapFunctionName

LEMMA ReadNames ==
    ASSUME NEW p \in function_names_remap
    PROVE  RemapFunctionName(p[1]) = p[2]
<1>1. \A q \in function_names_remap : q[1] = p[1] => q[2] = p[2]
  BY DEF function_names_remap
<1>. QED  BY <1>1 DEF RemapFunctionName

LEMMA DuckDBNames ==
    ASSUME NEW p \in Aliases
    PROVE  DuckDBName(p[1]) = p[2]
<1>1. \A q \in Aliases : q[1] = p[1] => q[2] = p[2]
  BY DEF Aliases
<1>. QED  BY <1>1 DEF DuckDBName

LEMMA OtherNames ==
    ASSUME NEW name
    PROVE  /\ (\A p \in Producer!function_names_remap : p[1] # name) =>
                  Producer!RemapFunctionName(name) = name
           /\ (\A p \in function_names_remap : p[1] # name) =>
                  RemapFunctionName(name) = name
           /\ (\A p \in Aliases : p[1] # name) => DuckDBName(name) = name
BY DEF Producer!RemapFunctionName, RemapFunctionName, DuckDBName

\* Both tables of names undo each other, up to aliases of DuckDB's.
LEMMA PlainNamesComeBack ==
    ASSUME NEW name, IsPlainName(name)
    PROVE  /\ Producer!RemapFunctionName(name)
                  \notin Comparisons \cup Operators \cup {"between"}
           /\ NameBack(name) \notin Extracts
                  \cup {"!~~", "substr", "substring", "date_part", "row"}
           /\ DuckDBName(NameBack(name)) = DuckDBName(name)
<1>1. CASE \A p \in Producer!function_names_remap : p[1] # name
  <2>1. Producer!RemapFunctionName(name) = name
    BY <1>1, OtherNames
  <2>2. CASE \A p \in function_names_remap : p[1] # name
    <3>1. NameBack(name) = name
      BY <2>1, <2>2, OtherNames DEF NameBack
    <3>. QED  BY <2>1, <3>1 DEF IsPlainName, SpecialNames, Producer!NestedKind
  <2>3. CASE \E p \in function_names_remap : p[1] = name
    <3>1. name \in {"starts_with", "ends_with", "char_length"}
      BY <2>3 DEF function_names_remap, IsPlainName, SubstraitNames, SpecialNames, OneWayNames
    <3>2. RemapFunctionName("starts_with") = "prefix"
      <4>1. <<"starts_with", "prefix">> \in function_names_remap
        BY DEF function_names_remap
      <4>. QED  BY <4>1, ReadNames
    <3>3. RemapFunctionName("ends_with") = "suffix"
      <4>1. <<"ends_with", "suffix">> \in function_names_remap
        BY DEF function_names_remap
      <4>. QED  BY <4>1, ReadNames
    <3>4. RemapFunctionName("char_length") = "length"
      <4>1. <<"char_length", "length">> \in function_names_remap
        BY DEF function_names_remap
      <4>. QED  BY <4>1, ReadNames
    <3>5. DuckDBName("starts_with") = "prefix" /\ DuckDBName("prefix") = "prefix"
      <4>1. <<"starts_with", "prefix">> \in Aliases
        BY DEF Aliases
      <4>2. \A p \in Aliases : p[1] # "prefix"
        BY DEF Aliases
      <4>. QED  BY <4>1, <4>2, DuckDBNames, OtherNames
    <3>6. DuckDBName("ends_with") = "suffix" /\ DuckDBName("suffix") = "suffix"
      <4>1. <<"ends_with", "suffix">> \in Aliases
        BY DEF Aliases
      <4>2. \A p \in Aliases : p[1] # "suffix"
        BY DEF Aliases
      <4>. QED  BY <4>1, <4>2, DuckDBNames, OtherNames
    <3>7. DuckDBName("char_length") = "length" /\ DuckDBName("length") = "length"
      <4>1. <<"char_length", "length">> \in Aliases
        BY DEF Aliases
      <4>2. \A p \in Aliases : p[1] # "length"
        BY DEF Aliases
      <4>. QED  BY <4>1, <4>2, DuckDBNames, OtherNames
    <3>. QED  BY <2>1, <3>1, <3>2, <3>3, <3>4, <3>5, <3>6, <3>7
              DEF NameBack, Comparisons, Operators, Extracts
  <2>. QED  BY <2>2, <2>3
<1>2. CASE \E p \in Producer!function_names_remap : p[1] = name
  <2>1. PICK p \in Producer!function_names_remap : p[1] = name
    BY <1>2
  <2>2. Producer!RemapFunctionName(name) = p[2]
    BY <2>1, WrittenNames
  <2>3. CASE \E q \in function_names_remap : p[2] = q[1]
    <3>1. PICK q \in function_names_remap : p[2] = q[1]
      BY <2>3
    <3>2. NameBack(name) = q[2]
      BY <2>2, <3>1, ReadNames DEF NameBack
    <3>3. q[2] = name
      BY <2>1, <3>1
         DEF Producer!function_names_remap, function_names_remap,
             IsPlainName, SubstraitNames, SpecialNames, OneWayNames
    <3>4. /\ p[2] \notin Comparisons \cup Operators \cup {"between"}
          /\ name # "row"
      BY <2>1, <3>1, <3>3
         DEF Producer!function_names_remap, function_names_remap,
             Comparisons, Operators
    <3>. QED  BY <2>2, <3>2, <3>3, <3>4 DEF IsPlainName, SpecialNames
  <2>4. CASE \A q \in function_names_remap : p[2] # q[1]
    <3>1. NameBack(name) = p[2]
      BY <2>2, <2>4, OtherNames DEF NameBack
    <3>2. p \in {<<"sum_no_overflow", "sum">>, <<"*", "multiply">>,
                 <<"-", "subtract">>, <<"+", "add">>, <<"/", "divide">>}
      BY <2>1, <2>4
         DEF Producer!function_names_remap, function_names_remap,
             IsPlainName, SubstraitNames, SpecialNames, OneWayNames
    <3>3. DuckDBName(p[2]) = DuckDBName(p[1])
      <4>1. CASE p = <<"sum_no_overflow", "sum">>
        <5>1. p \in Aliases /\ \A q \in Aliases : q[1] # p[2]
          BY <4>1 DEF Aliases
        <5>. QED  BY <5>1, DuckDBNames, OtherNames
      <4>2. CASE p # <<"sum_no_overflow", "sum">>
        <5>1. <<p[2], p[1]>> \in Aliases /\ \A q \in Aliases : q[1] # p[1]
          BY <3>2, <4>2 DEF Aliases
        <5>2. DuckDBName(p[2]) = p[1]
          BY <5>1, DuckDBNames
        <5>. QED  BY <5>1, <5>2, OtherNames
      <4>. QED  BY <4>1, <4>2
    <3>. QED  BY <2>1, <2>2, <3>1, <3>2, <3>3
              DEF Comparisons, Operators, Extracts
  <2>. QED  BY <2>3, <2>4
<1>. QED  BY <1>1, <1>2

-----------------------------------------------------------------------------
(* Expressions that come back.                                             *)

\* What the producer writes, with the columns offset, and what the consumer
\* makes of it.
Wrote(e, offset) == Producer!TransformExpr(e, offset)
Back(e, offset) == TransformExpr(Wrote(e, offset))
OffsetBelow(e, offset) == IF Producer!OffsetDropped(e) THEN 0 ELSE offset
ArgumentsWrote(e, offset) ==
    [k \in DOMAIN e.args |-> Wrote(e.args[k], OffsetBelow(e, offset))]
ArgumentsBack(e, offset) ==
    [k \in DOMAIN e.args |-> Back(e.args[k], OffsetBelow(e, offset))]

IsExactType(t) ==
    InSubstrait!SubstraitToDuckType[Producer!DuckToSubstraitType[t]] = t
IsExactConstant(c) ==
    InSubstrait!TransformLiteralToValue(Producer!TransformConstant(c)) = c
IsExtract(e) == e.op = "call" /\ e.name \in Extracts
IsNested(e) == e.op = "call" /\ e.name \in {"row", "list_value", "map"}

\* What is kept of an expression, given that its arguments are.
IsKept(e) ==
    /\ IsSeq(e.args)
    /\ \/ e.op = "ref" /\ e = Ref(e.index)
       \/ e.op = "literal" /\ e = Constant(e.literal) /\ IsExactConstant(e.literal)
       \/ e.op = "call" /\ IsPlainName(e.name)
       \/ IsNested(e)
       \/ IsExtract(e) /\ Len(e.args) = 1
       \/ /\ e.op = "compare" /\ Len(e.args) = 2 /\ e.fn \in Comparisons
          /\ e.fn = "not_equal" => \A k \in DOMAIN e.args : ~IsString(e.args[k])
       \/ e.op = "between" /\ e.inclusive = <<TRUE, TRUE>>
       \/ e.op = "cast" /\ Len(e.args) = 1 /\ IsExactType(e.type)
       \/ e.op \in Operators \cup {"in"}

LEMMA NothingBefore ==
    ASSUME NEW s, IsSeq(s)
    PROVE  <<>> \o s = s
<1>1. s \in Seq({s[i] : i \in 1..Len(s)})
  BY DEF IsSeq
<1>. QED  BY <1>1

LEMMA WroteOnce ==
    ASSUME NEW e, Nested4(e), NEW offset
    PROVE  Wrote(e, offset) =
               Producer!TransformExprOn(e, ArgumentsWrote(e, offset), offset)
BY WrittenStepwise DEF Wrote, ArgumentsWrote, OffsetBelow

\* The arguments stay.
LEMMA WroteArguments ==
    ASSUME NEW e, Nested4(e), IsKept(e), NEW offset
    PROVE  Wrote(e, offset).args = ArgumentsWrote(e, offset)
<1>0. Wrote(e, offset) = Producer!TransformExprOn(e, ArgumentsWrote(e, offset), offset)
  BY WroteOnce
<1>1. CASE e.op \in {"ref", "literal"}
  <2>1. e.args = <<>>
    <3>1. e = Ref(e.index) \/ e = Constant(e.literal)
      BY <1>1 DEF IsKept, IsNested, IsExtract, Operators
    <3>2. Ref(e.index).args = <<>> /\ Constant(e.literal).args = <<>>
      BY DEF Ref, Constant
    <3>. HIDE DEF Ref, Constant
    <3>. QED  BY <3>1, <3>2
  <2>2. ArgumentsWrote(e, offset) = <<>>
    BY <2>1 DEF ArgumentsWrote
  <2>3. CASE e.op = "ref"
    BY <1>0, <2>2, <2>3
       DEF Producer!TransformExprOn, Producer!TransformBoundRefExpression,
           Producer!FieldRef
  <2>4. CASE e.op = "literal"
    <3>1. e = [op |-> "literal", args |-> <<>>, literal |-> e.literal]
      BY <2>4 DEF IsKept, IsNested, IsExtract, Operators, Constant
    <3>2. Wrote(e, offset) = [e EXCEPT !.literal = Producer!TransformConstant(@)]
      BY <1>0, <2>4
         DEF Producer!TransformExprOn, Producer!TransformConstantExpression
    <3>. QED  BY <2>2, <3>1, <3>2
  <2>. QED  BY <1>1, <2>3, <2>4
<1>2. CASE e.op = "call"
  <2>1. Wrote(e, offset) = Producer!TransformFunctionExpression(e, ArgumentsWrote(e, offset))
    BY <1>0, <1>2 DEF Producer!TransformExprOn
  <2>2. e.name \notin {"substr", "substring"}
    BY <1>2 DEF IsKept, IsPlainName, SpecialNames, IsNested, IsExtract, Extracts,
               Operators
  <2>. QED  BY <2>1, <2>2
            DEF Producer!TransformFunctionExpression, Producer!ScalarFunction
<1>3. CASE e.op = "cast"
  <2>1. Wrote(e, offset) = Producer!Cast(e.type, ArgumentsWrote(e, offset)[1])
    BY <1>0, <1>3
       DEF Producer!TransformExprOn, Producer!TransformCastExpression
  <2>2. ArgumentsWrote(e, offset) = <<ArgumentsWrote(e, offset)[1]>>
    BY <1>3 DEF IsKept, IsNested, IsExtract, Operators, IsSeq, ArgumentsWrote
  <2>. QED  BY <2>1, <2>2 DEF Producer!Cast
<1>4. CASE e.op \in Operators \cup {"in", "compare", "between"}
  BY <1>0, <1>4
     DEF Producer!TransformExprOn, Producer!TransformOperatorExpression,
         Producer!TransformInExpression, Producer!TransformComparisonExpression,
         Producer!TransformBetweenExpression, Producer!ScalarFunction, Operators
<1>. QED  BY <1>1, <1>2, <1>3, <1>4 DEF IsKept, IsNested, IsExtract, Operators

LEMMA BackOnce ==
    ASSUME NEW e, Nested4(e), IsKept(e), NEW offset,
           Nested4(Wrote(e, offset))
    PROVE  Back(e, offset) =
               TransformExprOn(Wrote(e, offset), ArgumentsBack(e, offset))
<1> DEFINE w == Wrote(e, offset)
<1>1. w.args = ArgumentsWrote(e, offset)
  BY WroteArguments
<1>2. TransformExpr(w) =
          TransformExprOn(w, [k \in DOMAIN w.args |-> TransformExpr(w.args[k])])
  BY ReadStepwise
<1>. HIDE DEF w
<1>3. [k \in DOMAIN w.args |-> TransformExpr(w.args[k])]
          = ArgumentsBack(e, offset)
  BY <1>1 DEF ArgumentsWrote, ArgumentsBack, Back
<1>. QED  BY <1>2, <1>3 DEF Back, w

\* By its form.
LEMMA WhatIsKept ==
    ASSUME NEW e, IsKept(e)
    PROVE  /\ e.op = "ref" => e = Ref(e.index)
           /\ e.op = "literal" =>
                  e = Constant(e.literal) /\ IsExactConstant(e.literal)
           /\ e.op = "call" =>
                  IsPlainName(e.name) \/ IsNested(e)
                      \/ (IsExtract(e) /\ Len(e.args) = 1)
           /\ e.op = "compare" =>
                  /\ Len(e.args) = 2 /\ e.fn \in Comparisons
                  /\ e.fn = "not_equal" =>
                         \A k \in DOMAIN e.args : ~IsString(e.args[k])
           /\ e.op = "between" => e.inclusive = <<TRUE, TRUE>>
           /\ e.op = "cast" => Len(e.args) = 1 /\ IsExactType(e.type)
           /\ e.op \in Operators
                  \cup {"ref", "literal", "call", "compare", "between", "cast",
                        "in"}
BY DEF IsKept, IsNested, IsExtract, Operators

\* What the consumer makes of what was written.
LEMMA BackOfCall ==
    ASSUME NEW e, Nested4(e), IsKept(e), NEW offset, e.op = "call",
           Nested4(Wrote(e, offset))
    PROVE  LET args == ArgumentsBack(e, offset)
           IN  /\ IsPlainName(e.name) => Back(e, offset) = Call(NameBack(e.name), args)
               /\ IsNested(e) => Back(e, offset) = Call(e.name, args)
               /\ IsExtract(e) =>
                      Back(e, offset) =
                          Call("date_part", <<Subfield(e.name)>> \o args)
<1> DEFINE w == Wrote(e, offset)
           args == ArgumentsBack(e, offset)
           ws == ArgumentsWrote(e, offset)
<1>1. w = Producer!TransformFunctionExpression(e, ws)
  BY WroteOnce DEF Producer!TransformExprOn
<1>2. Back(e, offset) = TransformExprOn(w, args)
  BY BackOnce
<1>3. IsSeq(args)
  <2>1. DOMAIN args = DOMAIN e.args /\ args = [k \in DOMAIN args |-> args[k]]
    BY DEF ArgumentsBack
  <2>. QED  BY <2>1, OverDomain DEF IsKept
<1>. HIDE DEF w, args, ws
<1>4. CASE IsPlainName(e.name)
  <2> DEFINE name == Producer!RemapFunctionName(e.name)
  <2>1. w = Producer!ScalarFunction(name, <<>>, ws)
    <3>1. /\ e.name \notin DOMAIN Producer!NestedKind
          /\ e.name \notin Producer!valid_extract_subfields
          /\ e.name \notin {"substr", "substring"}
      BY <1>4 DEF IsPlainName, SpecialNames
    <3>. QED  BY <1>1, <3>1 DEF Producer!TransformFunctionExpression
  <2>2. name \notin Comparisons \cup Operators \cup {"between"}
    BY <1>4, PlainNamesComeBack
  <2>. HIDE DEF name
  <2>3. /\ w.op = "scalar_function" /\ w.name = name /\ w.enums = <<>>
    BY <2>1 DEF Producer!ScalarFunction
  <2>4. Back(e, offset) = TransformScalarFunctionExpr(w, args)
    BY <1>2, <2>3 DEF TransformExprOn
  <2>5. [k \in DOMAIN w.enums |-> Subfield(w.enums[k])] = <<>>
    BY <2>3
  <2>6. ~IsNotLike(w, args)
    BY <2>2, <2>3 DEF IsNotLike, Comparisons
  <2>7. Back(e, offset) = Call(RemapFunctionName(name), <<>> \o args)
    BY <2>2, <2>3, <2>4, <2>5, <2>6 DEF TransformScalarFunctionExpr
  <2>8. Back(e, offset) = Call(NameBack(e.name), args)
    BY <1>3, <2>7, NothingBefore DEF name, NameBack
  <2>9. ~IsNested(e) /\ ~IsExtract(e)
    <3>1. {"row", "list_value", "map"} \subseteq DOMAIN Producer!NestedKind
      BY DEF Producer!NestedKind
    <3>. QED  BY <1>4, <3>1 DEF IsNested, IsExtract, IsPlainName, SpecialNames
  <2>. QED  BY <2>8, <2>9 DEF args
<1>5. CASE IsNested(e)
  <2>1. /\ w.op = "nested" /\ w.of = Producer!NestedKind[e.name]
    <3>1. e.name \in DOMAIN Producer!NestedKind
      BY <1>5 DEF IsNested, Producer!NestedKind
    <3>2. /\ e.name \notin Producer!valid_extract_subfields
          /\ e.name \notin {"substr", "substring"}
      BY <1>5 DEF IsNested, Producer!valid_extract_subfields
    <3>. QED  BY <1>1, <3>1, <3>2 DEF Producer!TransformFunctionExpression
  <2>2. Back(e, offset) = TransformNested(w.of, args)
    BY <1>2, <2>1 DEF TransformExprOn
  <2>3. Back(e, offset) = Call(e.name, args)
    BY <1>5, <2>1, <2>2 DEF TransformNested, Producer!NestedKind, IsNested
  <2>4. ~IsPlainName(e.name) /\ ~IsExtract(e)
    BY <1>5 DEF IsNested, IsExtract, IsPlainName, SpecialNames,
                Producer!NestedKind, Extracts
  <2>. QED  BY <2>3, <2>4 DEF args
<1>6. CASE IsExtract(e)
  <2>1. w = Producer!ScalarFunction("extract", <<e.name>>, ws)
    BY <1>1, <1>6
       DEF IsExtract, Extracts, Producer!TransformFunctionExpression,
           Producer!NestedKind, Producer!valid_extract_subfields
  <2>2. /\ w.op = "scalar_function" /\ w.name = "extract"
        /\ w.enums = <<e.name>>
    BY <2>1 DEF Producer!ScalarFunction
  <2>3. Back(e, offset) = TransformScalarFunctionExpr(w, args)
    BY <1>2, <2>2 DEF TransformExprOn
  <2>4. [k \in DOMAIN w.enums |-> Subfield(w.enums[k])] = <<Subfield(e.name)>>
    BY <2>2
  <2>5. RemapFunctionName("extract") = "date_part"
    <3>1. <<"extract", "date_part">> \in function_names_remap
      BY DEF function_names_remap
    <3>. QED  BY <3>1, ReadNames
  <2>6. Back(e, offset) = Call("date_part", <<Subfield(e.name)>> \o args)
    BY <2>2, <2>3, <2>4, <2>5
       DEF TransformScalarFunctionExpr, IsNotLike, Comparisons, Operators
  <2>7. ~IsPlainName(e.name) /\ ~IsNested(e)
    BY <1>6 DEF IsNested, IsExtract, IsPlainName, SpecialNames, Extracts
  <2>. QED  BY <2>6, <2>7 DEF args
<1>. QED  BY <1>4, <1>5, <1>6, WhatIsKept

LEMMA BackOfOthers ==
    ASSUME NEW e, Nested4(e), IsKept(e), NEW offset,
           Nested4(Wrote(e, offset))
    PROVE  LET args == ArgumentsBack(e, offset)
           IN  /\ e.op = "ref" => Back(e, offset) = Ref(e.index + offset)
               /\ e.op = "literal" => Back(e, offset) = e
               /\ e.op = "cast" => Back(e, offset) = CastTo(e.type, args[1])
               /\ e.op = "between" => Back(e, offset) = Between(<<TRUE, TRUE>>, args)
               /\ e.op \in Operators \cup {"in"} => Back(e, offset) = Expr(e.op, args)
               /\ e.op = "compare" =>
                      Back(e, offset) = IF /\ e.fn = "not_equal"
                                           /\ \E k \in DOMAIN args : IsString(args[k])
                                        THEN Call("!~~", args)
                                        ELSE Comparison(e.fn, args[1], args[2])
<1> DEFINE w == Wrote(e, offset)
           args == ArgumentsBack(e, offset)
           ws == ArgumentsWrote(e, offset)
<1>1. w = Producer!TransformExprOn(e, ws, offset)
  BY WroteOnce
<1>2. Back(e, offset) = TransformExprOn(w, args)
  BY BackOnce
<1>3. e.op \in {"ref", "literal"} => args = <<>>
  <2>1. Ref(e.index).args = <<>> /\ Constant(e.literal).args = <<>>
    BY DEF Ref, Constant
  <2>. HIDE DEF Ref, Constant
  <2>2. e.op \in {"ref", "literal"} => e.args = <<>>
    BY <2>1, WhatIsKept
  <2>. QED  BY <2>2 DEF ArgumentsBack
<1>. HIDE DEF w, args, ws
<1>4. CASE e.op = "ref"
  <2>1. w = Producer!FieldRef(e.index + offset)
    BY <1>1, <1>4
       DEF Producer!TransformExprOn, Producer!TransformBoundRefExpression
  <2>2. Back(e, offset) = TransformSelectionExpr(w, <<>>)
    BY <1>2, <1>3, <1>4, <2>1 DEF TransformExprOn, Producer!FieldRef
  <2>3. Back(e, offset) = Ref(e.index + offset)
    BY <2>1, <2>2 DEF TransformSelectionExpr, Producer!FieldRef, Ref
  <2>. QED  BY <1>4, <2>3 DEF Operators
<1>5. CASE e.op = "literal"
  <2>1. e = [op |-> "literal", args |-> <<>>, literal |-> e.literal]
    BY <1>5, WhatIsKept DEF Constant
  <2> DEFINE written == Producer!TransformConstant(e.literal)
  <2>2. w = [e EXCEPT !.literal = written]
    BY <1>1, <1>5
       DEF Producer!TransformExprOn, Producer!TransformConstantExpression
  <2>3. InSubstrait!TransformLiteralToValue(written) = e.literal
    BY <1>5, WhatIsKept DEF IsExactConstant
  <2>. HIDE DEF written
  <2>4. w = [op |-> "literal", args |-> <<>>, literal |-> written]
    BY <2>1, <2>2
  <2>5. Back(e, offset) = TransformLiteralExpr(w)
    BY <1>2, <1>5, <2>4 DEF TransformExprOn
  <2>6. Back(e, offset)
            = [op |-> "literal", args |-> <<>>, literal |-> e.literal]
    BY <2>3, <2>4, <2>5 DEF TransformLiteralExpr
  <2>7. Back(e, offset) = e
    BY <2>1, <2>6
  <2>. QED  BY <1>5, <2>7 DEF Operators
<1>6. CASE e.op = "cast"
  <2>1. w.op = "cast" /\ w.type = Producer!DuckToSubstraitType[e.type]
    BY <1>1, <1>6
       DEF Producer!TransformExprOn, Producer!TransformCastExpression,
           Producer!Cast
  <2>2. Back(e, offset) = TransformCastExpr(w.type, args)
    BY <1>2, <1>6, <2>1 DEF TransformExprOn
  <2>3. InSubstrait!SubstraitToDuckType[w.type] = e.type
    BY <1>6, <2>1, WhatIsKept DEF IsExactType
  <2>4. Back(e, offset) = CastTo(e.type, args[1])
    BY <2>2, <2>3 DEF TransformCastExpr
  <2>. QED  BY <1>6, <2>4 DEF args, Operators
<1>7. CASE e.op = "in"
  <2>1. w.op = "singular_or_list"
    BY <1>1, <1>7 DEF Producer!TransformExprOn, Producer!TransformInExpression
  <2>2. Back(e, offset) = Expr("in", args)
    BY <1>2, <1>7, <2>1 DEF TransformExprOn, TransformInExpr
  <2>. QED  BY <1>7, <2>2 DEF args, Operators
<1>8. ASSUME NEW name, w = Producer!ScalarFunction(name, <<>>, ws)
      PROVE  Back(e, offset) = TransformScalarFunctionExpr(w, args)
             /\ w.name = name /\ w.enums = <<>>
  <2>1. w.op = "scalar_function" /\ w.name = name /\ w.enums = <<>>
    BY <1>8 DEF Producer!ScalarFunction
  <2>. QED  BY <1>2, <1>8, <2>1 DEF TransformExprOn
<1>9. CASE e.op = "between"
  <2>1. w = Producer!ScalarFunction("between", <<>>, ws)
    BY <1>1, <1>9
       DEF Producer!TransformExprOn, Producer!TransformBetweenExpression
  <2>2. Back(e, offset) = TransformScalarFunctionExpr(w, args) /\ w.name = "between"
    BY <1>8, <1>9, <2>1
  <2>3. Back(e, offset) = Between(<<TRUE, TRUE>>, args)
    BY <2>2 DEF TransformScalarFunctionExpr, IsNotLike, Comparisons, Operators
  <2>. QED  BY <1>9, <2>3 DEF args, Operators
<1>10. CASE e.op \in Operators
  <2>1. w = Producer!ScalarFunction(e.op, <<>>, ws)
    BY <1>1, <1>10
       DEF Producer!TransformExprOn, Producer!TransformOperatorExpression,
           Operators
  <2>2. Back(e, offset) = TransformScalarFunctionExpr(w, args) /\ w.name = e.op
    BY <1>8, <1>10, <2>1 DEF Operators
  <2>3. Back(e, offset) = Expr(e.op, args)
    BY <1>10, <2>2 DEF TransformScalarFunctionExpr, IsNotLike, Comparisons, Operators
  <2>. QED  BY <1>10, <2>3 DEF args, Operators
<1>11. CASE e.op = "compare"
  <2>1. w = Producer!ScalarFunction(e.fn, <<>>, ws)
    BY <1>1, <1>11
       DEF Producer!TransformExprOn, Producer!TransformComparisonExpression
  <2>2. Back(e, offset) = TransformScalarFunctionExpr(w, args) /\ w.name = e.fn
    BY <1>8, <1>11, <2>1
  <2>3. e.fn \in Comparisons
    BY <1>11, WhatIsKept
  <2>4. IsNotLike(w, args) <=> /\ e.fn = "not_equal"
                               /\ \E k \in DOMAIN args : IsString(args[k])
    BY <2>2 DEF IsNotLike, IsString
  <2>5. Back(e, offset) = IF IsNotLike(w, args) THEN Call("!~~", args)
                          ELSE Comparison(e.fn, args[1], args[2])
    <3>1. e.fn \notin Operators \cup {"between"}
      BY <2>3 DEF Operators, Comparisons
    <3>2. e.fn \in Comparisons /\ w.name = e.fn
      BY <2>2, <2>3
    <3>3. CASE IsNotLike(w, args)
      BY <2>2, <3>1, <3>2, <3>3 DEF TransformScalarFunctionExpr
    <3>4. CASE ~IsNotLike(w, args)
      BY <2>2, <3>1, <3>2, <3>4 DEF TransformScalarFunctionExpr
    <3>. QED  BY <3>3, <3>4
  <2>. QED  BY <1>11, <2>4, <2>5 DEF args, Operators
<1>12. CASE e.op = "call"
  BY <1>12 DEF Operators
<1>13. \/ e.op \in {"ref", "literal", "cast", "in", "between", "compare", "call"}
       \/ e.op \in Operators
  BY WhatIsKept
<1>. QED  BY <1>4, <1>5, <1>6, <1>7, <1>9, <1>10, <1>11, <1>12, <1>13

\* A string comes back of a string alone.
LEMMA StringsBack ==
    ASSUME NEW e, Nested4(e), IsKept(e), NEW offset, Nested4(Wrote(e, offset)),
           IsString(Back(e, offset))
    PROVE  IsString(e)
<1> DEFINE args == ArgumentsBack(e, offset)
<1>. HIDE DEF args
<1>1. Back(e, offset).op = "literal"
  BY DEF IsString
<1>2. e.op # "call"
  <2>. SUFFICES ASSUME e.op = "call" PROVE FALSE
    OBVIOUS
  <2>1. Back(e, offset) \in {Call(NameBack(e.name), args), Call(e.name, args),
                            Call("date_part", <<Subfield(e.name)>> \o args)}
    <3>1. /\ IsPlainName(e.name) => Back(e, offset) = Call(NameBack(e.name), args)
          /\ IsNested(e) => Back(e, offset) = Call(e.name, args)
          /\ IsExtract(e) =>
                 Back(e, offset) = Call("date_part", <<Subfield(e.name)>> \o args)
      BY BackOfCall DEF args
    <3>2. IsPlainName(e.name) \/ IsNested(e) \/ IsExtract(e)
      BY WhatIsKept
    <3>. QED  BY <3>1, <3>2
  <2>. QED  BY <1>1, <2>1 DEF Call
<1>3. e.op \notin {"ref", "cast", "between", "in"} \cup Operators
  <2>1. /\ e.op = "ref" => Back(e, offset) = Ref(e.index + offset)
        /\ e.op = "cast" => Back(e, offset) = CastTo(e.type, args[1])
        /\ e.op = "between" => Back(e, offset) = Between(<<TRUE, TRUE>>, args)
        /\ e.op \in Operators \cup {"in"} => Back(e, offset) = Expr(e.op, args)
    BY BackOfOthers DEF args
  <2>2. "literal" \notin Operators \cup {"in"}
    BY DEF Operators
  <2>3. /\ Ref(e.index + offset).op = "ref"
        /\ CastTo(e.type, args[1]).op = "cast"
        /\ Between(<<TRUE, TRUE>>, args).op = "between"
        /\ Expr(e.op, args).op = e.op
    BY DEF Ref, CastTo, Between, Expr
  <2>. HIDE DEF Ref, CastTo, Between, Expr
  <2>. QED  BY <1>1, <2>1, <2>2, <2>3
<1>4. e.op # "compare"
  <2>1. e.op = "compare" =>
            Back(e, offset) \in {Call("!~~", args), Comparison(e.fn, args[1], args[2])}
    BY BackOfOthers DEF args
  <2>. QED  BY <1>1, <2>1 DEF Call, Comparison
<1>5. e.op = "literal"
  BY <1>2, <1>3, <1>4, WhatIsKept
<1>6. Back(e, offset) = e
  BY <1>5, BackOfOthers
<1>. QED  BY <1>6

ArgumentsReturn(e, offset, there, here) ==
    \A k \in DOMAIN e.args :
        Value(Back(e.args[k], OffsetBelow(e, offset)), there) = Value(e.args[k], here)
Found(e, offset, there, here) ==
    e.op = "ref" => Field(there, e.index + offset) = Field(here, e.index)

LEMMA TwoTogether ==
    ASSUME NEW x, NEW y
    PROVE  <<x>> \o <<y>> = <<x, y>>
<1> DEFINE both == <<x>> \o <<y>>
<1>1. <<x>> \in Seq({x, y}) /\ <<y>> \in Seq({x, y})
      /\ Len(<<x>>) = 1 /\ Len(<<y>>) = 1
  OBVIOUS
<1>2. both \in Seq({x, y}) /\ Len(both) = 2 /\ both[1] = x /\ both[2] = y
  BY <1>1
<1>. HIDE DEF both
<1>3. both = <<x, y>>
  BY <1>2
<1>. QED  BY <1>3 DEF both

LEMMA CallsReturn ==
    ASSUME NEW e, Nested4(e), IsKept(e), NEW offset, Nested4(Wrote(e, offset)),
           Nested4(Back(e, offset)), e.op = "call",
           NEW there, NEW here, ArgumentsReturn(e, offset, there, here)
    PROVE  Value(Back(e, offset), there) = Value(e, here)
<1> DEFINE b == Back(e, offset)
           args == ArgumentsBack(e, offset)
           values == [k \in DOMAIN e.args |-> Value(e.args[k], here)]
           returned == [k \in DOMAIN args |-> Value(args[k], there)]
           above == [k \in DOMAIN b.args |-> Value(b.args[k], there)]
<1>1. Value(e, here) = Called(e.name, values)
  <2>1. Value(e, here) = ValueOf(e, values, here)
    BY ValueStepwise
  <2>. HIDE DEF values
  <2>. QED  BY <2>1 DEF ValueOf
<1>2. returned = values
  BY DEF ArgumentsReturn, ArgumentsBack
<1>3. Value(b, there) = ValueOf(b, above, there)
  BY ValueStepwise
<1>. HIDE DEF values, args
<1>4. ASSUME NEW name, b = Call(name, args)
      PROVE  Value(b, there) = Called(name, values)
  <2>1. b.op = "call" /\ b.name = name /\ b.args = args
    BY <1>4 DEF Call
  <2>2. above = returned
    <3>. HIDE DEF b
    <3>. QED  BY <2>1
  <2>. HIDE DEF above, returned, b
  <2>3. ValueOf(b, values, there) = Called(name, values)
    BY <2>1 DEF ValueOf
  <2>. QED  BY <1>2, <1>3, <2>2, <2>3
<1>5. CASE IsPlainName(e.name)
  <2>1. Value(b, there) = Called(NameBack(e.name), values)
    BY <1>4, <1>5, BackOfCall DEF args
  <2> DEFINE name == NameBack(e.name)
  <2>2. /\ name \notin Extracts \cup {"!~~", "substr", "substring", "date_part", "row"}
        /\ DuckDBName(name) = DuckDBName(e.name)
    BY <1>5, PlainNamesComeBack
  <2>3. e.name \notin Extracts \cup {"!~~", "substr", "substring", "date_part", "row"}
    <3>1. "row" \in DOMAIN Producer!NestedKind
      BY DEF Producer!NestedKind
    <3>. QED  BY <1>5, <3>1 DEF IsPlainName, SpecialNames
  <2>. HIDE DEF name
  <2>4. \A n : n \notin Extracts \cup {"!~~", "substr", "substring", "date_part", "row"} =>
            Called(n, values) = <<"call", DuckDBName(n)>> \o values
    BY DEF Called
  <2>5. Called(name, values) = Called(e.name, values)
    BY <2>2, <2>3, <2>4
  <2>. QED  BY <1>1, <2>1, <2>5 DEF name
<1>6. CASE IsNested(e)
  BY <1>1, <1>4, <1>6, BackOfCall DEF args
<1>7. CASE IsExtract(e) /\ Len(e.args) = 1
  <2>1. b = Call("date_part", <<Subfield(e.name)>> \o args)
    BY <1>7, BackOfCall DEF args
  <2>2. args = <<args[1]>> /\ DOMAIN args = {1}
    <3>1. DOMAIN e.args = {1}
      BY <1>7 DEF IsKept, IsSeq
    <3>2. DOMAIN args = {1} /\ args = [k \in {1} |-> args[k]]
      BY <3>1 DEF args, ArgumentsBack
    <3>. QED  BY <3>2
  <2>3. <<Subfield(e.name)>> \o args = <<Subfield(e.name), args[1]>>
    <3>2. <<Subfield(e.name)>> \o <<args[1]>> = <<Subfield(e.name), args[1]>>
      BY TwoTogether
    <3>. QED  BY <2>2, <3>2
  <2>4. b.op = "call" /\ b.name = "date_part"
        /\ b.args = <<Subfield(e.name), args[1]>>
    BY <2>1, <2>3 DEF Call
  <2>. HIDE DEF b
  <2>5. above = <<Value(Subfield(e.name), there), Value(args[1], there)>>
    BY <2>4
  <2>6. Value(Subfield(e.name), there) = <<"literal", InSubstrait!Text(<<0>>, e.name)>>
    <3> DEFINE s == Subfield(e.name)
    <3>1. s.op = "literal" /\ s.args = <<>> /\ s.literal = InSubstrait!Text(<<0>>, e.name)
      BY DEF Subfield, Constant
    <3>. HIDE DEF s
    <3>2. Nested4(s)
      BY <3>1 DEF Nested4
    <3>3. Value(s, there) = ValueOf(s, [k \in DOMAIN s.args |-> Value(s.args[k], there)], there)
      BY <3>2, ValueStepwise
    <3>4. Value(s, there) = <<"literal", s.literal>>
      BY <3>1, <3>3 DEF ValueOf
    <3>. QED  BY <3>1, <3>4 DEF s
  <2>7. Value(args[1], there) = values[1] /\ values = <<values[1]>>
    <3>1. returned[1] = Value(args[1], there) /\ DOMAIN returned = {1}
      BY <2>2
    <3>2. returned = [k \in {1} |-> returned[k]]
      BY <2>2
    <3>. HIDE DEF returned
    <3>. QED  BY <1>2, <3>1, <3>2
  <2> DEFINE first == Value(Subfield(e.name), there)
             second == Value(args[1], there)
  <2>. HIDE DEF above
  <2>8. Value(b, there) = Called("date_part", <<first, second>>)
    BY <1>3, <2>4, <2>5 DEF ValueOf
  <2>9. IsText(first) /\ first[2].text = e.name
    <3>1. first[1] = "literal" /\ first[2] = InSubstrait!Text(<<0>>, e.name)
      BY <2>6
    <3>. HIDE DEF first
    <3>. QED  BY <3>1 DEF IsText, IsLiteral, InSubstrait!Text
  <2>. HIDE DEF first, second
  <2>10. Called("date_part", <<first, second>>) = <<"extract", e.name, second>>
    BY <2>9 DEF Called, Extracts
  <2>11. second = values[1]
    BY <2>7 DEF second
  <2>12. Called(e.name, values) = <<"extract", e.name, values[1]>>
    BY <1>7 DEF Called, IsExtract, Extracts
  <2>13. Value(b, there) = Called(e.name, values)
    BY <2>8, <2>10, <2>11, <2>12
  <2>. QED  BY <1>1, <2>13 DEF b
<1>. QED  BY <1>5, <1>6, <1>7, WhatIsKept

LEMMA OthersReturn ==
    ASSUME NEW e, Nested4(e), IsKept(e), NEW offset, Nested4(Wrote(e, offset)),
           Nested4(Back(e, offset)), e.op # "call",
           NEW there, NEW here, ArgumentsReturn(e, offset, there, here),
           Found(e, offset, there, here),
           \A k \in DOMAIN e.args :
               IsString(Back(e.args[k], OffsetBelow(e, offset))) =>
                   IsString(e.args[k])
    PROVE  Value(Back(e, offset), there) = Value(e, here)
<1> DEFINE b == Back(e, offset)
           args == ArgumentsBack(e, offset)
           values == [k \in DOMAIN e.args |-> Value(e.args[k], here)]
           returned == [k \in DOMAIN args |-> Value(args[k], there)]
           above == [k \in DOMAIN b.args |-> Value(b.args[k], there)]
<1>1. Value(e, here) = ValueOf(e, values, here)
  BY ValueStepwise
<1>2. returned = values
  BY DEF ArgumentsReturn, ArgumentsBack
<1>3. Value(b, there) = ValueOf(b, above, there)
  BY ValueStepwise
<1>4. ASSUME b.args = args
      PROVE  above = values
  <2>1. above = returned
    <3>. HIDE DEF b, args
    <3>. QED  BY <1>4
  <2>. QED  BY <1>2, <2>1
<1>5. /\ e.op = "ref" => b = Ref(e.index + offset)
      /\ e.op = "literal" => b = e
      /\ e.op = "cast" => b = CastTo(e.type, args[1])
      /\ e.op = "between" => b = Between(<<TRUE, TRUE>>, args)
      /\ e.op \in Operators \cup {"in"} => b = Expr(e.op, args)
      /\ e.op = "compare" =>
             b = IF /\ e.fn = "not_equal"
                    /\ \E k \in DOMAIN args : IsString(args[k])
                 THEN Call("!~~", args)
                 ELSE Comparison(e.fn, args[1], args[2])
  BY BackOfOthers
<1>6. \A k \in DOMAIN args : IsString(args[k]) => k \in DOMAIN e.args /\ IsString(e.args[k])
  BY DEF ArgumentsBack
<1>7. ASSUME NEW n \in Nat, Len(e.args) = n
      PROVE  DOMAIN args = 1..n /\ args = [k \in 1..n |-> args[k]]
  <2>1. DOMAIN e.args = 1..n
    BY <1>7 DEF IsKept, IsSeq
  <2>. QED  BY <2>1 DEF ArgumentsBack
<1>. HIDE DEF b, args, values, returned, above
<1>8. CASE e.op = "ref"
  <2>1. b.op = "ref" /\ b.index = e.index + offset
    BY <1>5, <1>8 DEF Ref
  <2>2. Value(b, there) = Field(there, e.index + offset)
    BY <1>3, <2>1 DEF ValueOf
  <2>3. Value(e, here) = Field(here, e.index)
    BY <1>1, <1>8 DEF ValueOf
  <2>. QED  BY <1>8, <2>2, <2>3 DEF Found, b
<1>9. CASE e.op = "literal"
  <2>1. b = e
    BY <1>5, <1>9
  <2>2. Value(b, there) = <<"literal", e.literal>>
    BY <1>3, <1>9, <2>1 DEF ValueOf
  <2>3. Value(e, here) = <<"literal", e.literal>>
    BY <1>1, <1>9 DEF ValueOf
  <2>. QED  BY <2>2, <2>3 DEF b
<1>10. CASE e.op = "cast"
  <2>1. b.op = "cast" /\ b.type = e.type /\ b.args = <<args[1]>>
    BY <1>5, <1>10 DEF CastTo
  <2>2. args = <<args[1]>>
    <3>1. Len(e.args) = 1
      BY <1>10, WhatIsKept
    <3>2. 1 \in Nat
      OBVIOUS
    <3>3. args = [k \in 1..1 |-> args[k]]
      BY <1>7, <3>1, <3>2
    <3>4. 1..1 = {1}
      OBVIOUS
    <3>. QED  BY <3>3, <3>4
  <2>3. above = values
    BY <1>4, <2>1, <2>2
  <2>4. ValueOf(b, values, there) = ValueOf(e, values, here)
    BY <1>10, <2>1 DEF ValueOf
  <2>. QED  BY <1>1, <1>3, <2>3, <2>4 DEF b
<1>11. CASE e.op = "between"
  <2>1. b.op = "between" /\ b.inclusive = e.inclusive /\ b.args = args
    <3> DEFINE all == <<TRUE, TRUE>>
    <3>1. b = Between(all, args)
      BY <1>5, <1>11
    <3>2. e.inclusive = all
      BY <1>11, WhatIsKept
    <3>. HIDE DEF all
    <3>. QED  BY <3>1, <3>2 DEF Between
  <2>2. above = values
    BY <1>4, <2>1
  <2>3. ValueOf(b, values, there) = ValueOf(e, values, here)
    BY <1>11, <2>1 DEF ValueOf
  <2>. QED  BY <1>1, <1>3, <2>2, <2>3 DEF b
<1>12. CASE e.op \in Operators \cup {"in"}
  <2>1. b.op = e.op /\ b.args = args
    BY <1>5, <1>12 DEF Expr
  <2>2. above = values
    BY <1>4, <2>1
  <2>3. ValueOf(b, values, there) = ValueOf(e, values, here)
    BY <1>12, <2>1 DEF ValueOf, Operators
  <2>. QED  BY <1>1, <1>3, <2>2, <2>3 DEF b
<1>13. CASE e.op = "compare"
  <2>1. b = Comparison(e.fn, args[1], args[2])
    <3>1. e.fn = "not_equal" => \A k \in DOMAIN e.args : ~IsString(e.args[k])
      BY <1>13, WhatIsKept
    <3>2. ~(e.fn = "not_equal" /\ \E k \in DOMAIN args : IsString(args[k]))
      BY <1>6, <3>1
    <3>. QED  BY <1>5, <1>13, <3>2
  <2>2. b.op = "compare" /\ b.fn = e.fn /\ b.args = <<args[1], args[2]>>
    BY <2>1 DEF Comparison
  <2>3. args = <<args[1], args[2]>>
    <3>1. Len(e.args) = 2
      BY <1>13, WhatIsKept
    <3>2. 2 \in Nat
      OBVIOUS
    <3>3. args = [k \in 1..2 |-> args[k]]
      BY <1>7, <3>1, <3>2
    <3>4. 1..2 = {1, 2}
      OBVIOUS
    <3>. QED  BY <3>3, <3>4
  <2>4. above = values
    BY <1>4, <2>2, <2>3
  <2>5. ValueOf(b, values, there) = ValueOf(e, values, here)
    BY <1>13, <2>2 DEF ValueOf
  <2>. QED  BY <1>1, <1>3, <2>4, <2>5 DEF b
<1>. QED  BY <1>8, <1>9, <1>10, <1>11, <1>12, <1>13, WhatIsKept

AllKept(e) == \A x \in Within(e) : IsKept(x)

LEMMA ArgumentsKept ==
    ASSUME NEW e, Nested4(e), AllKept(e)
    PROVE  /\ IsKept(e)
           /\ \A k \in DOMAIN e.args : AllKept(e.args[k]) /\ Nested4(e.args[k])
<1>1. IsKept(e)
  BY WithinItself DEF AllKept
<1>2. ASSUME NEW k \in DOMAIN e.args
      PROVE  AllKept(e.args[k]) /\ Nested4(e.args[k])
  <2>1. Within(e.args[k]) \subseteq Within(e)
    BY WithinArgument
  <2>2. Nested4(e.args[k])
    BY ArgumentsAreLower
  <2>. QED  BY <2>1, <2>2 DEF AllKept
<1>. QED  BY <1>1, <1>2

\* Both translations go as deep as they are given.
LEMMA WroteDepth ==
    ASSUME NEW e, Nested4(e), AllKept(e), NEW offset
    PROVE  /\ Nested4(Wrote(e, offset))
           /\ Nested3(e) => Nested3(Wrote(e, offset))
           /\ Nested2(e) => Nested2(Wrote(e, offset))
           /\ Nested1(e) => Nested1(Wrote(e, offset))
           /\ Nested0(e) => Nested0(Wrote(e, offset))
<1>1. ASSUME NEW x, Nested4(x), AllKept(x), NEW o
      PROVE  /\ x.args = <<>> => Wrote(x, o).args = <<>>
             /\ \A k \in DOMAIN Wrote(x, o).args :
                    /\ k \in DOMAIN x.args
                    /\ Wrote(x, o).args[k] = Wrote(x.args[k], OffsetBelow(x, o))
                    /\ AllKept(x.args[k]) /\ Nested4(x.args[k])
  <2>1. Wrote(x, o).args = ArgumentsWrote(x, o)
    BY <1>1, ArgumentsKept, WroteArguments
  <2>2. \A k \in DOMAIN x.args : AllKept(x.args[k]) /\ Nested4(x.args[k])
    BY <1>1, ArgumentsKept
  <2>. QED  BY <2>1, <2>2 DEF ArgumentsWrote
<1>2. \A x, o : Nested0(x) /\ Nested4(x) /\ AllKept(x) => Nested0(Wrote(x, o))
  BY <1>1 DEF Nested0
<1>3. \A x, o : Nested1(x) /\ Nested4(x) /\ AllKept(x) => Nested1(Wrote(x, o))
  BY <1>1, <1>2 DEF Nested1
<1>4. \A x, o : Nested2(x) /\ Nested4(x) /\ AllKept(x) => Nested2(Wrote(x, o))
  BY <1>1, <1>3 DEF Nested2
<1>5. \A x, o : Nested3(x) /\ Nested4(x) /\ AllKept(x) => Nested3(Wrote(x, o))
  BY <1>1, <1>4 DEF Nested3
<1>6. Nested4(Wrote(e, offset))
  <2>. SUFFICES ASSUME NEW k \in DOMAIN Wrote(e, offset).args
                PROVE  Nested3(Wrote(e, offset).args[k])
    BY DEF Nested4
  <2>1. /\ k \in DOMAIN e.args
        /\ Wrote(e, offset).args[k] = Wrote(e.args[k], OffsetBelow(e, offset))
        /\ AllKept(e.args[k]) /\ Nested4(e.args[k])
    BY <1>1
  <2>2. Nested3(e.args[k])
    BY <2>1 DEF Nested4
  <2>. QED  BY <1>5, <2>1, <2>2
<1>. QED  BY <1>2, <1>3, <1>4, <1>5, <1>6

\* But for the name of a subfield, the arguments come from arguments.
LEMMA BackArguments ==
    ASSUME NEW e, Nested4(e), AllKept(e), NEW offset
    PROVE  /\ e.args = <<>> => Back(e, offset).args = <<>>
           /\ \A j \in DOMAIN Back(e, offset).args :
                  \/ Nested0(Back(e, offset).args[j])
                  \/ \E k \in DOMAIN e.args :
                         Back(e, offset).args[j]
                             = Back(e.args[k], OffsetBelow(e, offset))
<1> DEFINE args == ArgumentsBack(e, offset)
           b == Back(e, offset)
<1>1. Nested4(Wrote(e, offset)) /\ IsKept(e)
  BY WroteDepth, ArgumentsKept
<1>2. /\ DOMAIN args = DOMAIN e.args
      /\ \A k \in DOMAIN args : args[k] = Back(e.args[k], OffsetBelow(e, offset))
      /\ e.args = <<>> => args = <<>>
  BY DEF ArgumentsBack
<1>3. IsSeq(args) /\ Len(args) = Len(e.args)
  <2>1. DOMAIN args = DOMAIN e.args /\ args = [k \in DOMAIN args |-> args[k]]
    BY DEF ArgumentsBack
  <2>. HIDE DEF args
  <2>. QED  BY <1>1, <2>1, OverDomain DEF IsKept
<1>4. CASE e.op = "call"
  <2>1. /\ IsPlainName(e.name) => b = Call(NameBack(e.name), args)
        /\ IsNested(e) => b = Call(e.name, args)
        /\ IsExtract(e) => b = Call("date_part", <<Subfield(e.name)>> \o args)
    BY <1>1, <1>4, BackOfCall
  <2>2. IsPlainName(e.name) \/ IsNested(e) \/ (IsExtract(e) /\ Len(e.args) = 1)
    BY <1>1, <1>4, WhatIsKept
  <2>. HIDE DEF b, args
  <2>3. CASE IsExtract(e) /\ Len(e.args) = 1
    <3>1. args = <<args[1]>> /\ 1 \in DOMAIN args
      <4>1. args = [i \in 1..1 |-> args[i]] /\ 1..1 = {1}
        BY <1>3, <2>3 DEF IsSeq
      <4>. QED  BY <4>1
    <3>2. b.args = <<Subfield(e.name), args[1]>>
      <4>1. <<Subfield(e.name)>> \o args = <<Subfield(e.name), args[1]>>
        BY <3>1, TwoTogether
      <4>. QED  BY <2>1, <2>3, <4>1 DEF Call
    <3>3. Nested0(Subfield(e.name))
      BY DEF Nested0, Subfield, Constant
    <3>4. e.args # <<>>
      BY <2>3
    <3>5. /\ DOMAIN b.args = {1, 2} /\ b.args[1] = Subfield(e.name)
          /\ b.args[2] = args[1]
      BY <3>2
    <3>. HIDE DEF Nested0, Subfield
    <3>. QED  BY <1>2, <3>1, <3>3, <3>4, <3>5 DEF b
  <2>4. CASE IsPlainName(e.name) \/ IsNested(e)
    <3>1. b.args = args
      BY <2>1, <2>4 DEF Call
    <3>. QED  BY <1>2, <3>1 DEF b
  <2>. QED  BY <2>2, <2>3, <2>4
<1>5. CASE e.op # "call"
  <2>1. /\ e.op = "ref" => b = Ref(e.index + offset)
        /\ e.op = "literal" => b = e
        /\ e.op = "cast" => b = CastTo(e.type, args[1])
        /\ e.op = "between" => b = Between(<<TRUE, TRUE>>, args)
        /\ e.op \in Operators \cup {"in"} => b = Expr(e.op, args)
        /\ e.op = "compare" =>
               b = Call("!~~", args) \/ b = Comparison(e.fn, args[1], args[2])
    BY <1>1, BackOfOthers
  <2>. HIDE DEF b, args
  <2>2. \/ b = Ref(e.index + offset) \/ b = Constant(e.literal)
        \/ b = Between(<<TRUE, TRUE>>, args) \/ b = Expr(e.op, args)
        \/ b = Call("!~~", args)
        \/ b = CastTo(e.type, args[1]) /\ Len(e.args) = 1
        \/ b = Comparison(e.fn, args[1], args[2]) /\ Len(e.args) = 2
    BY <1>1, <1>5, <2>1, WhatIsKept
  <2>3. CASE b.args = <<>>
    BY <2>3 DEF b
  <2>4. CASE b.args = args
    BY <1>2, <2>4 DEF b
  <2>5. CASE b = CastTo(e.type, args[1]) /\ Len(e.args) = 1
    <3>1. b.args = <<args[1]>>
      BY <2>5 DEF CastTo
    <3>2. args = <<args[1]>>
      <4>1. args = [i \in 1..1 |-> args[i]] /\ 1..1 = {1}
        BY <1>3, <2>5 DEF IsSeq
      <4>. QED  BY <4>1
    <3>. QED  BY <2>4, <3>1, <3>2
  <2>6. CASE b = Comparison(e.fn, args[1], args[2]) /\ Len(e.args) = 2
    <3>1. b.args = <<args[1], args[2]>>
      BY <2>6 DEF Comparison
    <3>2. args = <<args[1], args[2]>>
      <4>1. args = [i \in 1..2 |-> args[i]] /\ 1..2 = {1, 2}
        BY <1>3, <2>6 DEF IsSeq
      <4>. QED  BY <4>1
    <3>. QED  BY <2>4, <3>1, <3>2
  <2>7. \/ b.args = <<>> \/ b.args = args
        \/ b = CastTo(e.type, args[1]) /\ Len(e.args) = 1
        \/ b = Comparison(e.fn, args[1], args[2]) /\ Len(e.args) = 2
    <3>1. /\ Ref(e.index + offset).args = <<>> /\ Constant(e.literal).args = <<>>
          /\ Between(<<TRUE, TRUE>>, args).args = args
          /\ Expr(e.op, args).args = args /\ Call("!~~", args).args = args
      BY DEF Ref, Constant, Between, Expr, Call
    <3>. QED  BY <2>2, <3>1
  <2>. QED  BY <2>3, <2>4, <2>5, <2>6, <2>7
<1>. QED  BY <1>4, <1>5

LEMMA BackDepth ==
    ASSUME NEW e, Nested4(e), AllKept(e), NEW offset
    PROVE  /\ Nested4(Back(e, offset))
           /\ Nested3(e) => Nested3(Back(e, offset))
<1>1. ASSUME NEW x, Nested4(x), AllKept(x), NEW o
      PROVE  /\ x.args = <<>> => Back(x, o).args = <<>>
             /\ \A j \in DOMAIN Back(x, o).args :
                    \/ Nested0(Back(x, o).args[j])
                    \/ \E k \in DOMAIN x.args :
                           /\ Back(x, o).args[j] = Back(x.args[k], OffsetBelow(x, o))
                           /\ AllKept(x.args[k]) /\ Nested4(x.args[k])
  <2>1. \A k \in DOMAIN x.args : AllKept(x.args[k]) /\ Nested4(x.args[k])
    BY <1>1, ArgumentsKept
  <2>. QED  BY <1>1, <2>1, BackArguments
<1>2. \A x, o : Nested0(x) /\ Nested4(x) /\ AllKept(x) => Nested0(Back(x, o))
  BY <1>1 DEF Nested0
<1>3. \A x, o : Nested1(x) /\ Nested4(x) /\ AllKept(x) => Nested1(Back(x, o))
  BY <1>1, <1>2 DEF Nested1
<1>4. \A x, o : Nested2(x) /\ Nested4(x) /\ AllKept(x) => Nested2(Back(x, o))
  BY <1>1, <1>3, NestedGrows DEF Nested2
<1>5. \A x, o : Nested3(x) /\ Nested4(x) /\ AllKept(x) => Nested3(Back(x, o))
  BY <1>1, <1>4, NestedGrows DEF Nested3
<1>. SUFFICES ASSUME NEW j \in DOMAIN Back(e, offset).args
              PROVE  Nested3(Back(e, offset).args[j])
  BY <1>5 DEF Nested4
<1>6. CASE Nested0(Back(e, offset).args[j])
  BY <1>6, NestedGrows
<1>7. CASE \E k \in DOMAIN e.args :
               /\ Back(e, offset).args[j] = Back(e.args[k], OffsetBelow(e, offset))
               /\ AllKept(e.args[k]) /\ Nested4(e.args[k])
  <2>1. PICK k \in DOMAIN e.args :
               /\ Back(e, offset).args[j] = Back(e.args[k], OffsetBelow(e, offset))
               /\ AllKept(e.args[k]) /\ Nested4(e.args[k])
    BY <1>7
  <2>2. Nested3(e.args[k])
    BY DEF Nested4
  <2>. QED  BY <1>5, <2>1, <2>2
<1>. QED  BY <1>1, <1>6, <1>7

-----------------------------------------------------------------------------
(* Values that come back.                                                  *)

Returns(e) ==
    \A offset, there, here :
        /\ \A x \in Within(e) : Found(x, offset, there, here)
        /\ offset = 0 \/ ~OffsetLost(e)
        => Value(Back(e, offset), there) = Value(e, here)

LEMMA NodeReturns ==
    ASSUME NEW e, Nested4(e), AllKept(e),
           \A k \in DOMAIN e.args : Returns(e.args[k])
    PROVE  Returns(e)
<1>. SUFFICES ASSUME NEW offset, NEW there, NEW here,
                     \A x \in Within(e) : Found(x, offset, there, here),
                     offset = 0 \/ ~OffsetLost(e)
              PROVE  Value(Back(e, offset), there) = Value(e, here)
  BY DEF Returns
<1> DEFINE below == OffsetBelow(e, offset)
<1>1. /\ Nested4(Wrote(e, offset)) /\ IsKept(e) /\ Nested4(Back(e, offset))
  BY WroteDepth, BackDepth, ArgumentsKept
<1>2. Producer!OffsetDropped(e) <=> Writing!OffsetDropped(e)
  BY DEF Producer!OffsetDropped, Writing!OffsetDropped, Producer!NestedKind,
         Writing!NestedKind
<1>3. ASSUME NEW k \in DOMAIN e.args
      PROVE  /\ Value(Back(e.args[k], below), there) = Value(e.args[k], here)
             /\ IsString(Back(e.args[k], below)) => IsString(e.args[k])
  <2> DEFINE a == e.args[k]
  <2>1. AllKept(a) /\ Nested4(a) /\ Returns(a)
    BY ArgumentsKept
  <2>2. Within(a) \subseteq Within(e)
    BY WithinArgument
  <2>. HIDE DEF a
  <2>3. IsString(Back(a, below)) => IsString(a)
    BY <2>1, WroteDepth, ArgumentsKept, StringsBack
  <2>4. ~OffsetLost(e) => ~OffsetLost(a)
    BY <2>2 DEF OffsetLost
  <2>5. CASE below = offset
    <3>1. \A x \in Within(a) : Found(x, offset, there, here)
      BY <2>2
    <3>2. Value(Back(a, offset), there) = Value(a, here)
      BY <2>1, <2>4, <3>1 DEF Returns
    <3>. QED  BY <2>3, <2>5, <3>2 DEF a
  <2>6. CASE below # offset
    <3>1. Producer!OffsetDropped(e) /\ below = 0 /\ offset # 0
      BY <2>6 DEF OffsetBelow
    <3>2. \A x \in Within(e) : x.op # "ref"
      BY <1>2, <3>1, WithinItself DEF OffsetLost, Refers
    <3>3. \A x \in Within(a) : Found(x, 0, there, here)
      BY <2>2, <3>2 DEF Found
    <3>. QED  BY <2>1, <3>1, <3>3, <2>3 DEF Returns, a
  <2>. QED  BY <2>3, <2>5, <2>6 DEF a
<1>4. ArgumentsReturn(e, offset, there, here)
  BY <1>3 DEF ArgumentsReturn
<1>5. Found(e, offset, there, here)
  BY WithinItself
<1>6. CASE e.op = "call"
  BY <1>1, <1>4, <1>6, CallsReturn
<1>7. CASE e.op # "call"
  BY <1>1, <1>3, <1>4, <1>5, <1>7, OthersReturn
<1>. QED  BY <1>6, <1>7

\* The expressions that the consumer makes of what the producer writes have
\* the values of those that the producer was given, whatever the columns: with
\* the columns of a join's right side offset by the width of its left one,
\* where no operand's offset is dropped.
THEOREM ExpressionsComeBack ==
    ASSUME NEW e, Nested4(e), AllKept(e), NEW offset, NEW there, NEW here,
           offset = 0 \/ ~OffsetLost(e),
           \A x \in Within(e) : x.op = "ref" =>
               Field(there, x.index + offset) = Field(here, x.index)
    PROVE  Value(TransformExpr(Producer!TransformExpr(e, offset)), there)
               = Value(e, here)
<1>1. ASSUME NEW x, AllKept(x), Nested4(x), NEW k \in DOMAIN x.args
      PROVE  /\ AllKept(x.args[k])
             /\ Nested1(x) => Nested0(x.args[k])
             /\ Nested2(x) => Nested1(x.args[k])
             /\ Nested3(x) => Nested2(x.args[k])
             /\ Nested3(x.args[k])
  BY <1>1, ArgumentsKept DEF Nested1, Nested2, Nested3, Nested4
<1>2. ASSUME NEW x, Nested0(x), AllKept(x)
      PROVE  Returns(x)
  <2>1. \A k \in DOMAIN x.args : Returns(x.args[k])
    BY <1>2 DEF Nested0
  <2>. QED  BY <1>2, <2>1, NodeReturns, NestedGrows
<1>3. ASSUME NEW x, Nested1(x), AllKept(x)
      PROVE  Returns(x)
  <2>1. Nested4(x)
    BY <1>3, NestedGrows
  <2>2. \A k \in DOMAIN x.args : Returns(x.args[k])
    BY <1>1, <1>2, <1>3, <2>1
  <2>. QED  BY <1>3, <2>1, <2>2, NodeReturns
<1>4. ASSUME NEW x, Nested2(x), AllKept(x)
      PROVE  Returns(x)
  <2>1. Nested4(x)
    BY <1>4, NestedGrows
  <2>2. \A k \in DOMAIN x.args : Returns(x.args[k])
    BY <1>1, <1>3, <1>4, <2>1
  <2>. QED  BY <1>4, <2>1, <2>2, NodeReturns
<1>5. ASSUME NEW x, Nested3(x), AllKept(x)
      PROVE  Returns(x)
  <2>1. Nested4(x)
    BY <1>5, NestedGrows
  <2>2. \A k \in DOMAIN x.args : Returns(x.args[k])
    BY <1>1, <1>4, <1>5, <2>1
  <2>. QED  BY <1>5, <2>1, <2>2, NodeReturns
<1>6. \A k \in DOMAIN e.args : Returns(e.args[k])
  BY <1>1, <1>5
<1>7. Returns(e)
  BY <1>6, NodeReturns
<1>. QED  BY <1>7 DEF Returns, Found, Back, Wrote

\* A relation has a column.
IsList(s) == IsSeq(s) /\ Len(s) # 0
HasColumns(r) == "cols" \in DOMAIN r /\ IsList(r.cols)

\* What a parent join looks up in a join below is as wide as its relation.
JoinIsExact(p) ==
    p.join.type # "none" =>
        Producer!LeftColumnCount(Child(p)) = Len(p.consumed.cols)

-----------------------------------------------------------------------------
(* The relations that logical operators compute.                           *)

\* What is made for each member of a list is a list.
LEMMA EachIsList ==
    ASSUME NEW s, IsList(s), NEW t, DOMAIN t = DOMAIN s,
           t = [k \in DOMAIN t |-> t[k]]
    PROVE  IsList(t) /\ Len(t) = Len(s)
BY OverDomain DEF IsList

LEMMA ConcatIsList ==
    ASSUME NEW s, IsSeq(s), NEW t, IsSeq(t), IsList(s) \/ IsList(t)
    PROVE  IsList(s \o t)
<1>1. /\ IsSeq(s \o t) /\ Len(s \o t) = Len(s) + Len(t)
      /\ Len(s) \in Nat /\ Len(t) \in Nat
  BY ConcatIsSeq DEF IsSeq
<1>2. Len(s) # 0 \/ Len(t) # 0
  BY DEF IsList
<1>. QED  BY <1>1, <1>2 DEF IsList

LEMMA MadeHasColumns ==
    ASSUME NEW rows, NEW cols, IsList(cols)
    PROVE  HasColumns([rows |-> rows, cols |-> cols])
BY DEF HasColumns

LEMMA FieldsIsList ==
    ASSUME NEW cols, NEW list, IsList(list)
    PROVE  IsList(Fields(cols, list))
BY EachIsList DEF Fields

LEMMA NewColumns ==
    ASSUME NEW r, HasColumns(r), NEW cols, IsList(cols)
    PROVE  HasColumns([r EXCEPT !.cols = cols])
BY DEF HasColumns

LEMMA NewRows ==
    ASSUME NEW r, HasColumns(r), NEW rows
    PROVE  /\ HasColumns([r EXCEPT !.rows = rows])
           /\ [r EXCEPT !.rows = rows].cols = r.cols
BY DEF HasColumns

LEMMA PickHasColumns ==
    ASSUME NEW r, HasColumns(r), NEW list, IsList(list)
    PROVE  HasColumns(Pick(r, list))
BY FieldsIsList, NewColumns DEF Pick

LEMMA FilterHasColumns ==
    ASSUME NEW r, HasColumns(r), NEW conditions
    PROVE  HasColumns(Filter(r, conditions))
BY NewRows DEF Filter

LEMMA ProjectHasColumns ==
    ASSUME NEW r, HasColumns(r), NEW list, IsList(list)
    PROVE  HasColumns(Project(r, list))
<1>1. IsList(Values(list, r.cols))
  BY EachIsList DEF Values
<1>. QED  BY <1>1, NewColumns DEF Project

LEMMA OrderHasColumns ==
    ASSUME NEW r, HasColumns(r), NEW keys
    PROVE  HasColumns(Order(r, keys))
BY NewRows DEF Order

LEMMA LimitHasColumns ==
    ASSUME NEW r, HasColumns(r), NEW limit, NEW offset
    PROVE  HasColumns(Limit(r, limit, offset))
BY NewRows DEF Limit

LEMMA AggregateHasColumns ==
    ASSUME NEW r, NEW groups, IsSeq(groups), NEW sets, NEW measures,
           IsSeq(measures), IsList(groups) \/ IsList(measures)
    PROVE  HasColumns(Aggregate(r, groups, sets, measures))
<1> DEFINE keys == Values(groups, r.cols)
           rows == <<"aggregate", r.rows, keys, sets>>
           made == [k \in DOMAIN measures |->
               <<"measure", rows, FunctionName(measures[k].fn, measures[k].args),
                 Values(measures[k].args, r.cols), measures[k].distinct,
                 ValueSet(measures[k].filter, r.cols)>>]
<1>1. IsSeq(keys) /\ (IsList(groups) => IsList(keys))
  BY OverDomain, EachIsList DEF Values
<1>2. IsSeq(made) /\ (IsList(measures) => IsList(made))
  <2>1. DOMAIN made = DOMAIN measures /\ made = [k \in DOMAIN made |-> made[k]]
    OBVIOUS
  <2>. HIDE DEF made
  <2>. QED  BY <2>1, OverDomain, EachIsList
<1>3. Aggregate(r, groups, sets, measures) = [rows |-> rows, cols |-> keys \o made]
  BY DEF Aggregate
<1>. HIDE DEF keys, made, rows
<1>4. IsList(keys \o made)
  BY <1>1, <1>2, ConcatIsList
<1>. QED  BY <1>3, <1>4, MadeHasColumns

LEMMA DistinctHasColumns ==
    ASSUME NEW r, HasColumns(r)
    PROVE  HasColumns(Distinct(r))
<1> DEFINE all == Refs(All(r))
<1>1. IsList(All(r))
  BY EachIsList DEF All, HasColumns
<1>2. IsList(all)
  BY <1>1, EachIsList DEF Refs
<1>3. IsSeq(<<>>)
  BY DEF IsSeq
<1>. HIDE DEF all
<1>4. HasColumns(Aggregate(r, all, AllGroups(all), <<>>))
  BY <1>2, <1>3, AggregateHasColumns DEF IsList
<1>. QED  BY <1>4 DEF Distinct, all

LEMMA WindowHasColumns ==
    ASSUME NEW r, HasColumns(r), NEW list, IsSeq(list)
    PROVE  HasColumns(Window(r, list))
<1> DEFINE made == [k \in DOMAIN list |-> WindowTerm(list[k], r)]
<1>1. IsSeq(made)
  BY OverDomain
<1>. HIDE DEF made
<1>2. IsList(r.cols \o made)
  BY <1>1, ConcatIsList DEF HasColumns, IsList
<1>3. HasColumns([r EXCEPT !.cols = r.cols \o made])
  BY <1>2, NewColumns
<1>. QED  BY <1>3 DEF Window, made

LEMMA CrossHasColumns ==
    ASSUME NEW l, HasColumns(l), NEW r, HasColumns(r)
    PROVE  HasColumns(Cross(l, r))
<1>1. IsList(l.cols \o r.cols)
  BY ConcatIsList DEF HasColumns, IsList
<1>. QED  BY <1>1, MadeHasColumns DEF Cross

\* The sides of a join, and the mark.
LEMMA JoinHasColumns ==
    ASSUME NEW type, NEW l, HasColumns(l), NEW r, HasColumns(r), NEW terms
    PROVE  HasColumns(Join(type, l, r, terms))
<1>1. IsList(l.cols) /\ IsList(r.cols) /\ IsList(l.cols \o r.cols)
  BY ConcatIsList DEF HasColumns, IsList
<1>2. \A mark : IsList(Append(l.cols, mark))
  <2>1. ASSUME NEW mark
        PROVE  IsList(Append(l.cols, mark))
    <3>1. /\ IsSeq(Append(l.cols, mark)) /\ Len(l.cols) \in Nat
          /\ Len(Append(l.cols, mark)) = Len(l.cols) + 1
      BY <1>1, AppendIsSeq DEF IsList, IsSeq
    <3>. QED  BY <3>1 DEF IsList
  <2>. QED  BY <2>1
<1>. QED  BY <1>1, <1>2, MadeHasColumns DEF Join

-----------------------------------------------------------------------------
(* Set operations.  What their fold does to an input is told with it.      *)

CombineWith(l, told) == Combine(told.type, told.all, l, told.input)
Inputs(r) == {}
Rank(r) == 0
SetsOf == INSTANCE Recursion
          WITH Height <- Rank, Parts <- Inputs, Step <- CombineWith,
               Claim <- HasColumns

LEMMA CombineHasColumns ==
    ASSUME NEW type, NEW all, NEW l, HasColumns(l), NEW r
    PROVE  HasColumns(Combine(type, all, l, r))
<1> DEFINE rows == <<"set", type, all, l.rows, l.cols, r.rows, r.cols>>
           cols == [k \in DOMAIN l.cols |-> <<"setcol", rows, k>>]
<1>1. IsList(cols)
  <2>1. DOMAIN cols = DOMAIN l.cols /\ cols = [k \in DOMAIN cols |-> cols[k]]
    OBVIOUS
  <2>. HIDE DEF cols
  <2>. QED  BY <2>1, EachIsList DEF HasColumns
<1>2. Combine(type, all, l, r) = [rows |-> rows, cols |-> cols]
  BY DEF Combine
<1>. HIDE DEF rows, cols
<1>. QED  BY <1>1, <1>2, MadeHasColumns

LEMMA SetOperationHasColumns ==
    ASSUME NEW type, NEW all, NEW inputs, IsSeq(inputs), Len(inputs) # 0,
           HasColumns(inputs[1])
    PROVE  HasColumns(SetOperation(type, all, inputs))
<1> DEFINE base == Head(inputs)
           rest == Tail(inputs)
           n == Len(inputs) - 1
           told == [k \in 1..n |->
                       [type |-> type, all |-> all, input |-> rest[k]]]
<1>1. /\ n \in Nat /\ DOMAIN rest = 1..n /\ base = inputs[1]
  <2>1. Len(inputs) \in Nat /\ inputs \in Seq({inputs[i] : i \in 1..Len(inputs)})
    BY DEF IsSeq
  <2>. QED  BY <2>1
<1>2. DOMAIN told = 1..n
  OBVIOUS
<1>3. ASSUME NEW i \in 1..n, NEW l
      PROVE  CombineWith(l, told[i]) = Combine(type, all, l, rest[i])
  BY DEF CombineWith
<1>4. ASSUME NEW l, NEW i \in 1..n, HasColumns(l)
      PROVE  HasColumns(CombineWith(l, told[i]))
  BY <1>3, <1>4, CombineHasColumns
<1>. HIDE DEF told, rest, base, n
<1>5. PICK g : SetsOf!IsFold(g, base, told, n)
  BY <1>1, SetsOf!SomeFold
<1> DEFINE IsIter(f) == f = [s \in SUBSET (1..n) |->
                               IF s = {} THEN base
                               ELSE Combine(type, all, f[s \ {Max(s)}],
                                            rest[Max(s)])]
<1>6. ASSUME NEW f
      PROVE  IsIter(f) <=> SetsOf!IsFold(f, base, told, n)
  <2>1. ASSUME NEW s \in SUBSET (1..n), s # {}
        PROVE  /\ Max(s) = SetsOf!Max(s)
               /\ CombineWith(f[s \ {Max(s)}], told[Max(s)])
                      = Combine(type, all, f[s \ {Max(s)}], rest[Max(s)])
    <3>1. Max(s) = SetsOf!Max(s)
      BY DEF Max, SetsOf!Max
    <3>2. Max(s) \in 1..n
      BY <1>1, <2>1, <3>1, SetsOf!MaxIsMember
    <3>. QED  BY <3>1, <3>2, <1>3
  <2>. QED  BY <2>1 DEF SetsOf!IsFold
<1>7. SetOperation(type, all, inputs) = (CHOOSE f : IsIter(f))[1..n]
  BY <1>1 DEF SetOperation, FoldLeft, MapThenFoldSet, base, rest
<1>. HIDE DEF IsIter
<1> DEFINE iter == CHOOSE f : IsIter(f)
<1>8. IsIter(iter)
  BY <1>5, <1>6, Zenon
<1>. HIDE DEF iter
<1>9. HasColumns(base)
  BY <1>1
<1>10. HasColumns(iter[1..n])
  BY <1>1, <1>4, <1>6, <1>8, <1>9, SetsOf!FoldInduction
<1>. QED  BY <1>7, <1>10 DEF iter

-----------------------------------------------------------------------------
(* Lists that operators carry.                                             *)

LEMMA ListsAreLists ==
    ASSUME menu \in DOMAIN Menus, NEW S, NEW list \in Lists(S)
    PROVE  IsList(list)
<1>1. PICK n \in 1..Menu.list : list \in [1..n -> S]
  BY DEF Lists
<1>2. n \in Nat /\ n # 0
  BY BoundsAssumption, <1>1 DEF Menu
<1>3. list = [k \in 1..n |-> list[k]]
  BY <1>1
<1>. QED  BY <1>2, <1>3, MadeIsSeq DEF IsList

\* A projection map is empty or a list.
LEMMA MapsAreLists ==
    ASSUME menu \in DOMAIN Menus, NEW S, NEW map \in Maps(S)
    PROVE  map = <<>> \/ IsList(map)
BY ListsAreLists DEF Maps

LEMMA TypesAreLists ==
    ASSUME menu \in DOMAIN Menus, NEW types \in Menu.tables \cup Menu.empties
    PROVE  IsList(types)
<1>1. types \in Seq(Producer!Types) /\ types # <<>>
  BY TablesAssumption DEF Menu
<1>. HIDE DEF Producer!Types
<1>. QED  BY <1>1, SeqIsSeq DEF IsList

LEMMA SingletonIsList ==
    ASSUME NEW x
    PROVE  IsList(<<x>>)
BY DEF IsList, IsSeq

LEMMA OutputIsList ==
    ASSUME menu \in DOMAIN Menus, NEW types \in Menu.tables,
           NEW get \in Gets(types)
    PROVE  IsList(Output(get))
<1>1. CASE Menu.reads
  <2>1. PICK ids : /\ ids \in Lists(Items(types))
                   /\ get.column_ids = ids
                   /\ get.projection_ids \in Maps(0..Len(ids) - 1)
    BY <1>1 DEF Gets
  <2>2. IsList(ids)
    BY <2>1, ListsAreLists
  <2>3. get.projection_ids = <<>> \/ IsList(get.projection_ids)
    BY <2>1, MapsAreLists
  <2>4. CASE get.projection_ids = <<>>
    BY <2>1, <2>2, <2>4 DEF Output
  <2>5. CASE get.projection_ids # <<>>
    <3>1. Output(get) = [k \in DOMAIN get.projection_ids |->
                            get.column_ids[get.projection_ids[k] + 1]]
      BY <2>5 DEF Output
    <3>. QED  BY <2>3, <2>5, <3>1, EachIsList
  <2>. QED  BY <2>4, <2>5
<1>2. CASE ~Menu.reads
  <2>1. get.column_ids = WholeColumns(types) /\ get.projection_ids = <<>>
    BY <1>2 DEF Gets
  <2>2. IsList(types)
    BY TypesAreLists
  <2>3. IsList(WholeColumns(types))
    BY <2>2, EachIsList DEF WholeColumns
  <2>. QED  BY <2>1, <2>3 DEF Output
<1>. QED  BY <1>1, <1>2

-----------------------------------------------------------------------------
(* Statements.                                                             *)

LEMMA NamedHasColumns ==
    ASSUME NEW r, HasColumns(r)
    PROVE  HasColumns(Named(r, ColumnNames(r)))
<1> DEFINE names == ColumnNames(r)
           cols == [k \in DOMAIN names |->
                       <<"named", names[k], Field(r.cols, k - 1)>>]
<1>1. IsList(names)
  BY EachIsList DEF ColumnNames, HasColumns
<1>. HIDE DEF names
<1>2. IsList(cols)
  BY <1>1, EachIsList
<1>3. Named(r, names) = [rows |-> r.rows, cols |-> cols]
  BY DEF Named
<1>. HIDE DEF cols
<1>4. HasColumns(Named(r, names))
  BY <1>2, <1>3, MadeHasColumns
<1>. QED  BY <1>4 DEF names

\* A statement has one column, the count.
LEMMA ChangedHasColumns ==
    ASSUME NEW rows
    PROVE  HasColumns(Changed(rows))
<1>1. IsList(<<<<"count">>>>)
  BY SingletonIsList
<1>. QED  BY <1>1, MadeHasColumns DEF Changed

-----------------------------------------------------------------------------
(* Joins.  The last relation of a join keeps the columns of the projection *)
(* maps, and their sizes are what a parent join looks up.                  *)

ChainOf == INSTANCE Recursion
           WITH Height <- Rank, Parts <- Inputs, Step <- TransformUnary,
                Claim <- HasColumns

LEMMA ChainOfOne ==
    ASSUME NEW in, NEW node
    PROVE  TransformChain(in, <<node>>) = TransformUnary(in, node)
<1> DEFINE one == <<node>>
<1>1. DOMAIN one = 1..1 /\ one[1] = node
  OBVIOUS
<1>. HIDE DEF one
<1>2. PICK g : ChainOf!IsFold(g, in, one, 1)
  BY ChainOf!SomeFold
<1> DEFINE IsIter(f) == f = [s \in SUBSET (1..1) |->
                               IF s = {} THEN in
                               ELSE TransformUnary(f[s \ {Max(s)}],
                                                   one[Max(s)])]
<1>3. \A f : IsIter(f) <=> ChainOf!IsFold(f, in, one, 1)
  BY DEF ChainOf!IsFold, Max, ChainOf!Max
<1>4. TransformChain(in, one) = (CHOOSE f : IsIter(f))[1..1]
  BY <1>1 DEF TransformChain, FoldLeft, MapThenFoldSet
<1> DEFINE iter == CHOOSE f : IsIter(f)
<1>5. IsIter(iter)
  BY <1>2, <1>3, Zenon
<1>. HIDE DEF iter
<1>6. Max(1..1) = 1 /\ (1..1) \ {1} = {} /\ 1..1 # {}
  BY ChainOf!LastOfSegment DEF Max, ChainOf!Max
<1>7. iter[{}] = in
  BY <1>5
<1>8. iter[1..1] = TransformUnary(iter[{}], one[1])
  BY <1>5, <1>6
<1>. QED  BY <1>1, <1>4, <1>7, <1>8 DEF iter, one

\* A relation with a mapping has the columns of the mapping.
LEMMA ProjectionWidth ==
    ASSUME NEW r, NEW s, NEW expressions, NEW emit, IsList(emit)
    PROVE  Len(TransformChain(Relation(r, s),
                   Producer!ProjectRel(expressions, emit)).cols) = Len(emit)
<1> DEFINE in == Relation(r, s)
           node == [rel |-> "project", expressions |-> expressions,
                    emit |-> emit]
           input == ProjectInput(in)
           projected == TransformProjectOp(in, node)
           spine == ProjectionSpine(Computed(in, node)) \o <<Head(in.spine)>>
<1>1. TransformChain(in, <<node>>) = Relation(projected, spine)
  <2>1. node.rel = "project"
    OBVIOUS
  <2>2. TransformUnary(in, node) = Relation(projected, spine)
    <3>. HIDE DEF node, in, projected, spine
    <3>1. TransformProjectOp(in, node) = projected
      BY DEF projected
    <3>2. ProjectionSpine(Computed(in, node)) \o <<Head(in.spine)>> = spine
      BY DEF spine
    <3>. QED  BY <2>1, <3>1, <3>2 DEF TransformUnary
  <2>. HIDE DEF node, in, projected, spine
  <2>. QED  BY <2>2, ChainOfOne
<1>. HIDE DEF spine
<1>2. Relation(projected, spine).cols = projected.cols
  BY DEF Relation
<1>3. "cols" \in DOMAIN input
  <2>1. "cols" \in DOMAIN in
    BY DEF Relation
  <2>. HIDE DEF in
  <2>. QED  BY <2>1 DEF ProjectInput, GetValueRelationWithSingleBoolColumn
<1>4. node.emit = emit /\ emit # <<>>
  BY DEF IsList, IsSeq
<1>5. PICK cols : /\ DOMAIN cols = DOMAIN emit
                  /\ cols = [k \in DOMAIN cols |-> cols[k]]
                  /\ projected = [input EXCEPT !.cols = cols]
  <2> DEFINE columns == Len(input.cols)
             computed == Values(TransformExprs(node.expressions), input.cols)
             entry(i) == IF i < columns THEN Field(input.cols, i)
                         ELSE Field(computed, i - columns)
             cols == [k \in DOMAIN node.emit |-> entry(node.emit[k])]
  <2>1. projected = [input EXCEPT !.cols = cols]
    <3>. HIDE DEF node, in, input
    <3>. QED  BY <1>4 DEF TransformProjectOp, input
  <2>2. DOMAIN cols = DOMAIN emit /\ cols = [k \in DOMAIN cols |-> cols[k]]
    <3>. HIDE DEF computed, columns, input, node
    <3>. QED  BY <1>4
  <2>. HIDE DEF cols, projected, input
  <2>. QED  BY <2>1, <2>2
<1>. HIDE DEF projected, input, node, in
<1>6. projected.cols = cols
  BY <1>3, <1>5
<1>7. Len(cols) = Len(emit)
  BY <1>5, EachIsList
<1>. QED  BY <1>1, <1>2, <1>6, <1>7 DEF Producer!ProjectRel, node, in

\* A projection map, or every column.
LEMMA FillMapIsList ==
    ASSUME menu \in DOMAIN Menus, NEW S, NEW map \in Maps(S),
           NEW p, HasColumns(p.logical)
    PROVE  IsList(Producer!FillMap(map, Child(p)))
<1>1. CASE map # <<>>
  BY <1>1, MapsAreLists DEF Producer!FillMap
<1>2. CASE map = <<>>
  <2> DEFINE n == Len(p.logical.cols)
             whole == [k \in 1..n |-> k - 1]
  <2>1. n \in Nat /\ n # 0
    BY DEF HasColumns, IsList, IsSeq
  <2>. HIDE DEF n
  <2>2. whole = [k \in 1..n |-> whole[k]]
    OBVIOUS
  <2>. HIDE DEF whole
  <2>3. IsList(whole)
    BY <2>1, <2>2, MadeIsSeq DEF IsList
  <2>. QED  BY <1>2, <2>3 DEF Producer!FillMap, Child, whole, n
<1>. QED  BY <1>1, <1>2

\* The fields that both sides of a join keep, the right ones shifted.
LEMMA BothSidesAreList ==
    ASSUME NEW l, IsList(l), NEW r, IsList(r), NEW n
    PROVE  LET both == l \o [k \in DOMAIN r |-> r[k] + n]
           IN  IsList(both) /\ Len(both) = Len(l) + Len(r)
<1> DEFINE shifted == [k \in DOMAIN r |-> r[k] + n]
<1>1. IsList(shifted) /\ Len(shifted) = Len(r)
  <2>1. DOMAIN shifted = DOMAIN r /\ shifted = [k \in DOMAIN shifted |-> shifted[k]]
    OBVIOUS
  <2>. HIDE DEF shifted
  <2>. QED  BY <2>1, EachIsList
<1>. HIDE DEF shifted
<1>2. IsList(l \o shifted) /\ Len(l \o shifted) = Len(l) + Len(r)
  BY <1>1, ConcatIsSeq, ConcatIsList DEF IsList
<1>. QED  BY <1>2 DEF shifted

LEMMA LogicalJoinHasColumns ==
    ASSUME menu \in DOMAIN Menus, NEW type, NEW l, HasColumns(l),
           NEW r, HasColumns(r), NEW conditions,
           NEW S, NEW lmap \in Maps(S), NEW T, NEW rmap \in Maps(T)
    PROVE  HasColumns(LogicalJoin(type, l, r, conditions, lmap, rmap))
<1> DEFINE terms == {Compare(c.fn, Value(c.left, l.cols),
                             Value(c.right, r.cols)) : c \in conditions}
           left == IF lmap # <<>> THEN lmap ELSE All(l)
           right == IF rmap # <<>> THEN rmap ELSE All(r)
           both == left \o [k \in DOMAIN right |-> right[k] + Len(l.cols)]
           marked == Append(left, Len(l.cols))
           list == CASE type \in LeftOnly -> left
                     [] type = "MARK" -> marked
                     [] Producer!Swapped(type) -> right
                     [] OTHER -> both
<1>1. IsList(All(l)) /\ IsList(All(r))
  BY EachIsList DEF All, HasColumns
<1>2. IsList(left) /\ IsList(right)
  BY <1>1, MapsAreLists
<1>3. LogicalJoin(type, l, r, conditions, lmap, rmap)
          = Pick(Join(type, l, r, terms), list)
  BY DEF LogicalJoin
<1>. HIDE DEF left, right, terms
<1>4. IsList(both)
  BY <1>2, BothSidesAreList
<1>5. IsList(marked)
  <2>1. IsSeq(left) /\ Len(left) \in Nat
    BY <1>2 DEF IsList, IsSeq
  <2>2. IsSeq(marked) /\ Len(marked) = Len(left) + 1
    BY <2>1, AppendIsSeq
  <2>. QED  BY <2>1, <2>2 DEF IsList
<1>. HIDE DEF both, marked
<1>6. IsList(list)
  BY <1>2, <1>4, <1>5
<1>. HIDE DEF list
<1>7. HasColumns(Join(type, l, r, terms))
  BY JoinHasColumns
<1>. QED  BY <1>3, <1>6, <1>7, PickHasColumns

LEMMA JoinMapsAreMaps ==
    ASSUME NEW type, NEW side, NEW S
    PROVE  JoinMaps(type, side, S) \subseteq Maps(S)
BY DEF JoinMaps, Maps

LEMMA TailOfTwo ==
    ASSUME NEW x, NEW y
    PROVE  Tail(<<x>> \o <<y>>) = <<y>>
<1> DEFINE both == <<x>> \o <<y>>
           S == {x, y}
<1>1. <<x>> \in Seq(S) /\ <<y>> \in Seq(S) /\ Len(<<x>>) = 1 /\ Len(<<y>>) = 1
  OBVIOUS
<1>2. both \in Seq(S) /\ Len(both) = 2
  BY <1>1
<1>3. both[2] = y
  BY <1>1
<1>. HIDE DEF both, S
<1>4. both # <<>>
  BY <1>2
<1>5. /\ Tail(both) \in Seq(S) /\ Len(Tail(both)) = 1
      /\ \A i \in 1..1 : Tail(both)[i] = both[i + 1]
  BY <1>2, <1>4, HeadTailProperties
<1> DEFINE rest == Tail(both)
<1>6. rest \in Seq(S) /\ Len(rest) = 1 /\ rest[1] = y
  <2>1. 1 \in 1..1 /\ 1 + 1 = 2
    OBVIOUS
  <2>. QED  BY <1>3, <1>5, <2>1
<1>. HIDE DEF rest
<1>7. rest = <<y>>
  <2>1. rest = [i \in 1..1 |-> rest[i]]
    BY <1>6, SeqIsSeq DEF IsSeq
  <2>. QED  BY <1>6, <2>1
<1>. QED  BY <1>7 DEF both, rest

\* The consumed join ends with a projection of as many columns as the maps
\* have, and these are what the join leaves to be looked up.

-----------------------------------------------------------------------------
(* A relation that the consumer built for one that the query has.          *)

IsRelation(r) == "rows" \in DOMAIN r /\ HasColumns(r)
\* What only the query carries along need not come back.
Restored(r, s) ==
    /\ IsRelation(r) /\ IsRelation(s) /\ r.rows = s.rows
    /\ Len(r.cols) = Len(s.cols)
    /\ \A k \in 1..Len(s.cols) : Hidden(s.cols[k]) \/ r.cols[k] = s.cols[k]
Shown(s) == {i \in 0..Len(s.cols) - 1 : ~Hidden(s.cols[i + 1])}

\* An expression over the columns S that comes back.
Good(e, S) == /\ Nested3(e) /\ AllKept(e)
              /\ \A x \in Within(e) : x.op = "ref" => x.index \in S

LEMMA ColumnsOfRestored ==
    ASSUME NEW r, NEW s, Restored(r, s)
    PROVE  /\ IsSeq(r.cols) /\ IsSeq(s.cols)
           /\ Len(s.cols) \in Nat \ {0} /\ Len(r.cols) = Len(s.cols)
           /\ DOMAIN r.cols = 1..Len(s.cols) /\ DOMAIN s.cols = 1..Len(s.cols)
BY DEF Restored, IsRelation, HasColumns, IsList, IsSeq

LEMMA FieldOfRestored ==
    ASSUME NEW r, NEW s, Restored(r, s), NEW i \in Shown(s)
    PROVE  Field(r.cols, i) = Field(s.cols, i)
<1>1. Len(s.cols) \in Nat /\ Len(r.cols) = Len(s.cols)
  BY ColumnsOfRestored
<1>2. i \in Nat /\ i < Len(s.cols) /\ ~Hidden(s.cols[i + 1])
  BY <1>1 DEF Shown
<1>3. r.cols[i + 1] = s.cols[i + 1]
  BY <1>1, <1>2 DEF Restored
<1>. QED  BY <1>1, <1>2, <1>3 DEF Field

LEMMA ValueOfRestored ==
    ASSUME NEW r, NEW s, Restored(r, s), NEW S, S \subseteq Shown(s),
           NEW e, Good(e, S)
    PROVE  Value(TransformExpr(Producer!TransformExpr(e, 0)), r.cols)
               = Value(e, s.cols)
<1>1. Nested4(e) /\ AllKept(e)
  BY NestedGrows DEF Good
<1>2. ASSUME NEW x \in Within(e), x.op = "ref"
      PROVE  Field(r.cols, x.index + 0) = Field(s.cols, x.index)
  <2>1. x.index \in Shown(s)
    BY <1>2 DEF Good
  <2>2. x.index + 0 = x.index
    BY <2>1, ColumnsOfRestored DEF Shown
  <2>. QED  BY <2>1, <2>2, FieldOfRestored
<1>. QED  BY <1>1, <1>2, ExpressionsComeBack

LEMMA ValuesOfRestored ==
    ASSUME NEW r, NEW s, Restored(r, s), NEW S, S \subseteq Shown(s),
           NEW list, \A k \in DOMAIN list : Good(list[k], S)
    PROVE  Values(TransformExprs(Producer!Transformed(list)), r.cols)
               = Values(list, s.cols)
<1> DEFINE back == TransformExprs(Producer!Transformed(list))
<1>1. /\ DOMAIN back = DOMAIN list
      /\ \A k \in DOMAIN list :
             back[k] = TransformExpr(Producer!TransformExpr(list[k], 0))
  BY DEF TransformExprs, Producer!Transformed
<1>. HIDE DEF back
<1>2. \A k \in DOMAIN list : Value(back[k], r.cols) = Value(list[k], s.cols)
  BY <1>1, ValueOfRestored
<1>. QED  BY <1>1, <1>2 DEF Values, back

LEMMA ConditionsOfRestored ==
    ASSUME NEW r, NEW s, Restored(r, s), NEW S, S \subseteq Shown(s),
           NEW set, \A e \in set : Good(e, S)
    PROVE  ValueSet(TransformCondition(Producer!TransformedSet(set)), r.cols)
               = ValueSet(set, s.cols)
<1>1. \A e \in set : Value(TransformExpr(Producer!TransformExpr(e, 0)), r.cols)
                         = Value(e, s.cols)
  BY ValueOfRestored
<1>2. ValueSet(TransformCondition(Producer!TransformedSet(set)), r.cols)
          = {Value(TransformExpr(Producer!TransformExpr(e, 0)), r.cols) : e \in set}
  BY DEF ValueSet, TransformCondition, Producer!TransformedSet
<1>. QED  BY <1>1, <1>2 DEF ValueSet

IsSortKey(key, S) == /\ key.type \in {"asc", "desc"}
                     /\ key.nulls \in {"first", "last"} /\ Good(key.expr, S)

LEMMA SortsOfRestored ==
    ASSUME NEW r, NEW s, Restored(r, s), NEW S, S \subseteq Shown(s),
           NEW keys, \A k \in DOMAIN keys : IsSortKey(keys[k], S)
    PROVE  SortTerms(TransformSorts(Producer!TransformOrders(keys)), r.cols)
               = SortTerms(keys, s.cols)
<1> DEFINE back == TransformSorts(Producer!TransformOrders(keys))
<1>1. /\ DOMAIN back = DOMAIN keys
      /\ \A k \in DOMAIN keys : back[k] = TransformSort(Producer!TransformOrder(keys[k]))
  BY DEF TransformSorts, Producer!TransformOrders
<1>2. ASSUME NEW key, IsSortKey(key, S)
      PROVE  LET b == TransformSort(Producer!TransformOrder(key))
             IN  /\ b.type = key.type /\ b.nulls = key.nulls
                 /\ Value(b.expr, r.cols) = Value(key.expr, s.cols)
  <2> DEFINE o == Producer!TransformOrder(key)
             b == TransformSort(o)
  <2>1. o.expr = Producer!TransformExpr(key.expr, 0)
    BY DEF Producer!TransformOrder
  <2>2. b.expr = TransformExpr(o.expr)
    BY DEF TransformSort
  <2>3. Value(b.expr, r.cols) = Value(key.expr, s.cols)
    BY <1>2, <2>1, <2>2, ValueOfRestored DEF IsSortKey
  <2>4. key.type = "asc" \/ key.type = "desc"
    BY <1>2 DEF IsSortKey
  <2>5. key.nulls = "first" \/ key.nulls = "last"
    BY <1>2 DEF IsSortKey
  <2>6. b.type = key.type /\ b.nulls = key.nulls
    <3>1. CASE key.type = "asc" /\ key.nulls = "first"
      <4>1. o.direction = 1
        BY <3>1 DEF Producer!TransformOrder
      <4>. HIDE DEF o
      <4>. QED  BY <3>1, <4>1 DEF TransformSort
    <3>2. CASE key.type = "asc" /\ key.nulls = "last"
      <4>1. o.direction = 2
        BY <3>2 DEF Producer!TransformOrder
      <4>. HIDE DEF o
      <4>. QED  BY <3>2, <4>1 DEF TransformSort
    <3>3. CASE key.type = "desc" /\ key.nulls = "first"
      <4>1. o.direction = 3
        BY <3>3 DEF Producer!TransformOrder
      <4>. HIDE DEF o
      <4>. QED  BY <3>3, <4>1 DEF TransformSort
    <3>4. CASE key.type = "desc" /\ key.nulls = "last"
      <4>1. o.direction = 4
        BY <3>4 DEF Producer!TransformOrder
      <4>. HIDE DEF o
      <4>. QED  BY <3>4, <4>1 DEF TransformSort
    <3>. QED  BY <2>4, <2>5, <3>1, <3>2, <3>3, <3>4
  <2>. QED  BY <2>3, <2>6
<1>. HIDE DEF back
<1>3. \A k \in DOMAIN keys :
          <<back[k].type, back[k].nulls, Value(back[k].expr, r.cols)>>
              = <<keys[k].type, keys[k].nulls, Value(keys[k].expr, s.cols)>>
  BY <1>1, <1>2
<1>. QED  BY <1>1, <1>3 DEF SortTerms, back

-----------------------------------------------------------------------------
(* What the consumer makes of one relation.                                *)

Comes(c, s) == Restored(c, s) /\ IsList(c.spine)

LEMMA BeforeIsList ==
    ASSUME NEW x, NEW s, IsSeq(s)
    PROVE  IsList(<<x>> \o s) /\ (<<x>> \o s)[1] = x
<1>1. IsSeq(<<x>>) /\ IsList(<<x>>) /\ Len(<<x>>) = 1 /\ <<x>>[1] = x
  BY SingletonIsList DEF IsList
<1>2. IsList(<<x>> \o s)
  BY <1>1, ConcatIsList
<1>3. 1 \in 1..Len(<<x>>) + Len(s)
  BY <1>1 DEF IsSeq
<1>. QED  BY <1>1, <1>2, <1>3

LEMMA RelationComes ==
    ASSUME NEW r, NEW s, Restored(r, s), NEW spine, IsList(spine)
    PROVE  Comes(Relation(r, spine), s)
<1>1. /\ DOMAIN Relation(r, spine) = {"rows", "cols", "spine"}
      /\ Relation(r, spine).rows = r.rows /\ Relation(r, spine).cols = r.cols
      /\ Relation(r, spine).spine = spine
  BY DEF Relation
<1>. HIDE DEF Relation
<1>. QED  BY <1>1 DEF Comes, Restored, IsRelation, HasColumns

LEMMA NewRowsRestored ==
    ASSUME NEW r, NEW s, Restored(r, s), NEW rows
    PROVE  Restored([r EXCEPT !.rows = rows], [s EXCEPT !.rows = rows])
<1> DEFINE t == [r EXCEPT !.rows = rows]
           u == [s EXCEPT !.rows = rows]
<1>1. /\ t.rows = rows /\ t.cols = r.cols /\ DOMAIN t = DOMAIN r
      /\ u.rows = rows /\ u.cols = s.cols /\ DOMAIN u = DOMAIN s
  BY DEF Restored, IsRelation, HasColumns
<1>. HIDE DEF t, u
<1>2. Restored(t, u)
  BY <1>1 DEF Restored, IsRelation, HasColumns
<1>. QED  BY <1>2 DEF t, u

LEMMA NewColumnsRestored ==
    ASSUME NEW r, NEW s, Restored(r, s), NEW c, IsList(c), NEW d, IsList(d),
           Len(c) = Len(d), \A k \in 1..Len(d) : Hidden(d[k]) \/ c[k] = d[k]
    PROVE  Restored([r EXCEPT !.cols = c], [s EXCEPT !.cols = d])
<1> DEFINE t == [r EXCEPT !.cols = c]
           u == [s EXCEPT !.cols = d]
<1>1. /\ t.rows = r.rows /\ t.cols = c /\ DOMAIN t = DOMAIN r
      /\ u.rows = s.rows /\ u.cols = d /\ DOMAIN u = DOMAIN s
  BY DEF Restored, IsRelation, HasColumns
<1>. HIDE DEF t, u
<1>2. Restored(t, u)
  BY <1>1 DEF Restored, IsRelation, HasColumns
<1>. QED  BY <1>2 DEF t, u

LEMMA FilterComes ==
    ASSUME NEW in, NEW s, Comes(in, s), NEW S, S \subseteq Shown(s),
           NEW set, set # {}, \A e \in set : Good(e, S),
           NEW node, node.rel = "filter",
           node.condition = Producer!TransformedSet(set)
    PROVE  /\ Comes(TransformUnary(in, node), Filter(s, set))
           /\ TransformUnary(in, node).spine[1].type # "empty"
<1> DEFINE there == TransformCondition(Producer!TransformedSet(set))
           out == TransformFilterOp(in, node)
           spine == FilterSpine(node.condition) \o <<Head(in.spine)>>
<1>0. Restored(in, s) /\ in.rows = s.rows
  BY DEF Comes, Restored
<1>1. ValueSet(there, in.cols) = ValueSet(set, s.cols) /\ in.rows = s.rows
  BY <1>0, ConditionsOfRestored
<1>2. there # {}
  BY DEF TransformCondition, Producer!TransformedSet
<1>. HIDE DEF there
<1>3. out = [in EXCEPT !.rows = <<"filter", in.rows, ValueSet(there, in.cols)>>]
  BY <1>2 DEF TransformFilterOp, Filter, there
<1>4. Filter(s, set) = [s EXCEPT !.rows = <<"filter", s.rows, ValueSet(set, s.cols)>>]
  BY DEF Filter
<1>5. Restored(out, Filter(s, set))
  BY <1>1, <1>3, <1>4, NewRowsRestored DEF Comes
<1>6. TransformUnary(in, node) = Relation(out, spine)
  BY DEF TransformUnary
<1>7. IsList(spine) /\ spine[1].type = "filter"
  <2>1. IsSeq(<<Head(in.spine)>>)
    BY SingletonIsList DEF IsList
  <2>. QED  BY <2>1, BeforeIsList DEF FilterSpine
<1>. HIDE DEF out, spine
<1>8. Relation(out, spine).spine = spine
  BY DEF Relation
<1>. QED  BY <1>5, <1>6, <1>7, <1>8, RelationComes

LEMMA SortComes ==
    ASSUME NEW in, NEW s, Comes(in, s), NEW S, S \subseteq Shown(s),
           NEW keys, \A k \in DOMAIN keys : IsSortKey(keys[k], S),
           NEW node, node.rel = "sort",
           node.sorts = Producer!TransformOrders(keys)
    PROVE  /\ Comes(TransformUnary(in, node), Order(s, keys))
           /\ TransformUnary(in, node).spine[1].type # "empty"
<1> DEFINE there == TransformSorts(Producer!TransformOrders(keys))
           out == TransformSortOp(in, node)
           spine == Spine("order") \o in.spine
<1>0. Restored(in, s) /\ in.rows = s.rows
  BY DEF Comes, Restored
<1>1. SortTerms(there, in.cols) = SortTerms(keys, s.cols) /\ in.rows = s.rows
  BY <1>0, SortsOfRestored
<1>. HIDE DEF there
<1>3. out = [in EXCEPT !.rows = <<"order", in.rows, SortTerms(there, in.cols)>>]
  BY DEF TransformSortOp, Order, there
<1>4. Order(s, keys) = [s EXCEPT !.rows = <<"order", s.rows, SortTerms(keys, s.cols)>>]
  BY DEF Order
<1>5. Restored(out, Order(s, keys))
  BY <1>1, <1>3, <1>4, NewRowsRestored DEF Comes
<1>6. TransformUnary(in, node) = Relation(out, spine)
  BY DEF TransformUnary
<1>7. IsList(spine) /\ spine[1].type = "order"
  BY BeforeIsList DEF Spine, Comes, IsList
<1>. HIDE DEF out, spine
<1>8. Relation(out, spine).spine = spine
  BY DEF Relation
<1>. QED  BY <1>5, <1>6, <1>7, <1>8, RelationComes

LEMMA FetchComes ==
    ASSUME NEW in, NEW s, Comes(in, s), NEW limit, NEW offset
    PROVE  Comes(TransformUnary(in, Producer!FetchRel(limit, offset)),
                 Limit(s, limit, offset))
<1> DEFINE node == Producer!FetchRel(limit, offset)
           out == TransformFetchOp(in, node)
           spine == Spine("limit") \o in.spine
<1>1. node.rel = "fetch" /\ node.count = limit /\ node.offset = offset
  BY DEF Producer!FetchRel
<1>. HIDE DEF node
<1>2. Restored(out, Limit(s, limit, offset))
  <2>1. out = [in EXCEPT !.rows = <<"limit", in.rows, limit, offset>>]
    BY <1>1 DEF TransformFetchOp, Limit
  <2>2. Limit(s, limit, offset) = [s EXCEPT !.rows = <<"limit", s.rows, limit, offset>>]
    BY DEF Limit
  <2>3. Restored(in, s) /\ in.rows = s.rows
    BY DEF Comes, Restored
  <2>. QED  BY <2>1, <2>2, <2>3, NewRowsRestored
<1>3. TransformUnary(in, node) = Relation(out, spine)
  BY <1>1 DEF TransformUnary
<1>4. IsList(spine)
  BY BeforeIsList DEF Spine, Comes, IsList
<1>. HIDE DEF out, spine
<1>. QED  BY <1>2, <1>3, <1>4, RelationComes DEF node

\* The columns of the input that list picks.
LEMMA PickRestored ==
    ASSUME NEW r, NEW s, Restored(r, s), NEW list, IsList(list),
           \A k \in DOMAIN list : list[k] \in 0..Len(s.cols) - 1
    PROVE  Restored(Pick(r, list), Pick(s, list))
<1> DEFINE c == Fields(r.cols, list)
           d == Fields(s.cols, list)
<1>1. /\ IsList(c) /\ IsList(d) /\ DOMAIN c = DOMAIN list
      /\ Len(c) = Len(list) /\ Len(d) = Len(list)
      /\ \A k \in DOMAIN list : /\ c[k] = Field(r.cols, list[k])
                                /\ d[k] = Field(s.cols, list[k])
  BY FieldsIsList, EachIsList DEF Fields
<1>2. DOMAIN list = 1..Len(list)
  BY DEF IsList, IsSeq
<1>. HIDE DEF c, d
<1>3. ASSUME NEW k \in DOMAIN list
      PROVE  Hidden(d[k]) \/ c[k] = d[k]
  <2>1. list[k] \in 0..Len(s.cols) - 1 /\ Len(s.cols) \in Nat /\ Len(r.cols) = Len(s.cols)
    BY ColumnsOfRestored
  <2>2. c[k] = r.cols[list[k] + 1] /\ d[k] = s.cols[list[k] + 1]
    BY <1>1, <2>1 DEF Field
  <2>3. list[k] + 1 \in 1..Len(s.cols)
    BY <2>1
  <2>4. Hidden(s.cols[list[k] + 1]) \/ r.cols[list[k] + 1] = s.cols[list[k] + 1]
    BY <2>3 DEF Restored
  <2>. QED  BY <2>2, <2>4
<1>4. Restored([r EXCEPT !.cols = c], [s EXCEPT !.cols = d])
  BY <1>1, <1>2, <1>3, NewColumnsRestored
<1>. QED  BY <1>4 DEF Pick, c, d

-----------------------------------------------------------------------------
(* Projections that pick columns.                                          *)

LEMMA RefIsRead ==
    ASSUME NEW i, NEW cols
    PROVE  Value(TransformExpr(Producer!FieldRef(i)), cols) = Field(cols, i)
<1> DEFINE e == Producer!FieldRef(i)
<1>1. e.op = "ref" /\ e.args = <<>> /\ e.index = i /\ "args" \in DOMAIN e
  BY DEF Producer!FieldRef
<1>2. e = Ref(i)
  BY DEF Producer!FieldRef, Ref
<1>. HIDE DEF e
<1>3. Nested4(e)
  BY <1>1, NestedGrows DEF Nested0
<1>4. [k \in DOMAIN e.args |-> TransformExpr(e.args[k])] = <<>>
  BY <1>1
<1>5. TransformExpr(e) = [e EXCEPT !.args = <<>>]
  BY <1>1, <1>3, <1>4, ReadStepwise DEF TransformExprOn, TransformSelectionExpr
<1>6. [e EXCEPT !.args = <<>>] = e
  BY <1>2 DEF Ref
<1>7. Value(e, cols) = ValueOf(e, [k \in DOMAIN e.args |-> Value(e.args[k], cols)],
                               cols)
  BY <1>3, ValueStepwise
<1>8. Value(e, cols) = Field(cols, i)
  BY <1>1, <1>7 DEF ValueOf
<1>. QED  BY <1>5, <1>6, <1>8 DEF e

\* What a projection computes, and what it keeps by its mapping.
ComputedBy(node, cols) == Values(TransformExprs(node.expressions), cols)
EntryOf(node, cols, i) ==
    IF i < Len(cols) THEN Field(cols, i)
    ELSE Field(ComputedBy(node, cols), i - Len(cols))
MappedBy(node, cols) ==
    [k \in DOMAIN node.emit |-> EntryOf(node, cols, node.emit[k])]

\* A relation that is not taken for one without rows is projected as it is.
LEMMA ProjectNode ==
    ASSUME NEW in, in.spine[1].type # "empty", NEW node, node.rel = "project"
    PROVE  \E spine :
               /\ IsList(spine) /\ spine[1].type # "empty"
               /\ node.emit = <<>> =>
                      TransformUnary(in, node) =
                          Relation([in EXCEPT !.cols = in.cols
                                                  \o ComputedBy(node, in.cols)],
                                   spine)
               /\ node.emit # <<>> =>
                      TransformUnary(in, node) =
                          Relation([in EXCEPT !.cols = MappedBy(node, in.cols)],
                                   spine)
<1> DEFINE spine == ProjectionSpine(Computed(in, node)) \o <<Head(in.spine)>>
<1>1. TransformUnary(in, node) = Relation(TransformProjectOp(in, node), spine)
  BY DEF TransformUnary
<1>2. IsList(spine) /\ spine[1].type = "projection"
  <2>1. IsSeq(<<Head(in.spine)>>)
    BY SingletonIsList DEF IsList
  <2>. QED  BY <2>1, BeforeIsList DEF ProjectionSpine
<1>3. ProjectInput(in) = in
  BY DEF ProjectInput
<1>. HIDE DEF spine
<1>4. node.emit = <<>> =>
          TransformProjectOp(in, node) =
              [in EXCEPT !.cols = in.cols \o ComputedBy(node, in.cols)]
  BY <1>3 DEF TransformProjectOp, ComputedBy
<1>5. node.emit # <<>> =>
          TransformProjectOp(in, node) = [in EXCEPT !.cols = MappedBy(node, in.cols)]
  BY <1>3 DEF TransformProjectOp, ComputedBy, MappedBy, EntryOf
<1>. QED  BY <1>1, <1>2, <1>4, <1>5

LEMMA ProjectFieldsComes ==
    ASSUME NEW in, NEW s, Comes(in, s), in.spine[1].type # "empty",
           NEW list, IsList(list),
           \A k \in DOMAIN list : list[k] \in 0..Len(s.cols) - 1,
           NEW node, Producer!ProjectFields(Len(s.cols), list) = <<node>>
    PROVE  Comes(TransformUnary(in, node), Pick(s, list))
<1> DEFINE columns  == Len(in.cols)
           computed == ComputedBy(node, in.cols)
<1>1. Restored(in, s) /\ columns = Len(s.cols) /\ columns \in Nat
  BY ColumnsOfRestored DEF Comes
<1>2. /\ node.rel = "project"
      /\ node.expressions = [k \in DOMAIN list |-> Producer!FieldRef(list[k])]
      /\ node.emit = [k \in DOMAIN list |-> columns + k - 1]
  BY <1>1 DEF Producer!ProjectFields, Producer!ProjectRel
<1>3. DOMAIN list = 1..Len(list) /\ Len(list) \in Nat /\ Len(list) # 0
  BY DEF IsList, IsSeq
<1>4. /\ DOMAIN computed = DOMAIN list
      /\ \A k \in DOMAIN list : computed[k] = Field(in.cols, list[k])
  <2>1. /\ DOMAIN computed = DOMAIN list
        /\ \A k \in DOMAIN list :
               computed[k] = Value(TransformExpr(Producer!FieldRef(list[k])), in.cols)
    BY <1>2 DEF ComputedBy, Values, TransformExprs
  <2>. HIDE DEF computed
  <2>. QED  BY <2>1, RefIsRead
<1>5. Len(computed) = Len(list)
  <2>1. computed = [k \in DOMAIN computed |-> computed[k]]
    BY DEF ComputedBy, Values
  <2>. HIDE DEF computed
  <2>. QED  BY <1>4, <2>1, EachIsList
<1>6. ASSUME NEW k \in DOMAIN list
      PROVE  EntryOf(node, in.cols, node.emit[k]) = Field(in.cols, list[k])
  <2>. HIDE DEF computed, columns
  <2>1. node.emit[k] = columns + k - 1 /\ k \in Nat /\ k >= 1 /\ k <= Len(list)
    BY <1>2, <1>3
  <2>2. ~(node.emit[k] < columns) /\ node.emit[k] - columns = k - 1
    BY <1>1, <2>1
  <2>3. Field(computed, k - 1) = computed[k]
    BY <1>3, <1>5, <2>1 DEF Field
  <2>4. EntryOf(node, in.cols, node.emit[k]) = Field(computed, k - 1)
    BY <2>2 DEF EntryOf, computed, columns
  <2>. QED  BY <1>4, <2>3, <2>4
<1>7. MappedBy(node, in.cols) = Fields(in.cols, list)
  <2>1. DOMAIN node.emit = DOMAIN list
    BY <1>2
  <2>. QED  BY <1>6, <2>1 DEF Fields, MappedBy
<1>8. node.emit # <<>>
  <2>1. DOMAIN node.emit = DOMAIN list /\ 1 \in DOMAIN list
    BY <1>2, <1>3
  <2>. QED  BY <2>1
<1>9. PICK spine :
          /\ IsList(spine)
          /\ node.emit # <<>> =>
                 TransformUnary(in, node) =
                     Relation([in EXCEPT !.cols = MappedBy(node, in.cols)], spine)
  <2>. HIDE DEF columns, computed
  <2>1. node.rel = "project"
    BY <1>2
  <2>. QED  BY <2>1, ProjectNode, Zenon
<1>10. TransformUnary(in, node) = Relation(Pick(in, list), spine)
  <2>1. Pick(in, list) = [in EXCEPT !.cols = Fields(in.cols, list)]
    BY DEF Pick
  <2>. QED  BY <1>7, <1>8, <1>9, <2>1
<1>11. Restored(Pick(in, list), Pick(s, list))
  BY <1>1, PickRestored
<1>. QED  BY <1>9, <1>10, <1>11, RelationComes

-----------------------------------------------------------------------------
(* The relations of one operator.                                          *)

LEMMA ChainOfNone ==
    ASSUME NEW in
    PROVE  TransformChain(in, <<>>) = in
<1> DEFINE none == <<>>
           IsIter(f) == f = [s \in SUBSET (1..0) |->
                               IF s = {} THEN in
                               ELSE TransformUnary(f[s \ {Max(s)}], none[Max(s)])]
<1>1. DOMAIN none = 1..0
  OBVIOUS
<1>. HIDE DEF none
<1>2. PICK g : ChainOf!IsFold(g, in, none, 0)
  BY ChainOf!SomeFold
<1>3. \A f : IsIter(f) <=> ChainOf!IsFold(f, in, none, 0)
  BY DEF ChainOf!IsFold, Max, ChainOf!Max
<1>4. TransformChain(in, none) = (CHOOSE f : IsIter(f))[1..0]
  BY <1>1 DEF TransformChain, FoldLeft, MapThenFoldSet
<1> DEFINE iter == CHOOSE f : IsIter(f)
<1>5. IsIter(iter)
  BY <1>2, <1>3, Zenon
<1>. HIDE DEF iter
<1>6. 1..0 = {} /\ 1..0 \in SUBSET (1..0)
  OBVIOUS
<1>7. iter[1..0] = in
  BY <1>5, <1>6
<1>. QED  BY <1>4, <1>7 DEF iter, none

LEMMA ChainOfTwo ==
    ASSUME NEW in, NEW x, NEW y
    PROVE  TransformChain(in, <<x, y>>) = TransformUnary(TransformUnary(in, x), y)
<1> DEFINE both == <<x, y>>
           IsIter(f) == f = [s \in SUBSET (1..2) |->
                               IF s = {} THEN in
                               ELSE TransformUnary(f[s \ {Max(s)}], both[Max(s)])]
<1>1. DOMAIN both = 1..2 /\ both[1] = x /\ both[2] = y
  OBVIOUS
<1>. HIDE DEF both
<1>2. PICK g : ChainOf!IsFold(g, in, both, 2)
  BY ChainOf!SomeFold
<1>3. \A f : IsIter(f) <=> ChainOf!IsFold(f, in, both, 2)
  BY DEF ChainOf!IsFold, Max, ChainOf!Max
<1>4. TransformChain(in, both) = (CHOOSE f : IsIter(f))[1..2]
  BY <1>1 DEF TransformChain, FoldLeft, MapThenFoldSet
<1> DEFINE iter == CHOOSE f : IsIter(f)
<1>5. IsIter(iter)
  BY <1>2, <1>3, Zenon
<1>. HIDE DEF iter
<1>6. /\ Max(1..1) = 1 /\ (1..1) \ {1} = {} /\ 1..1 # {}
      /\ Max(1..2) = 2 /\ (1..2) \ {2} = 1..1 /\ 1..2 # {}
  BY ChainOf!LastOfSegment DEF Max, ChainOf!Max
<1>7. /\ {} \in SUBSET (1..2) /\ 1..1 \in SUBSET (1..2) /\ 1..2 \in SUBSET (1..2)
  OBVIOUS
<1>8. iter[{}] = in
  BY <1>5
<1>9. iter[1..1] = TransformUnary(iter[{}], both[1])
  BY <1>5, <1>6, <1>7
<1>10. iter[1..2] = TransformUnary(iter[1..1], both[2])
  BY <1>5, <1>6, <1>7
<1>. QED  BY <1>1, <1>4, <1>8, <1>9, <1>10 DEF iter, both

-----------------------------------------------------------------------------
(* Projections that compute columns.  What the fold does is told with its  *)
(* expressions.                                                            *)

NoExpressions == [expressions |-> <<>>, output_mapping |-> <<>>]
Added(sproj, e, columns) ==
    IF e.op = "ref"
    THEN [sproj EXCEPT !.output_mapping = Append(@, e.index)]
    ELSE [expressions |-> Append(sproj.expressions, Producer!TransformExpr(e, 0)),
          output_mapping |-> Append(sproj.output_mapping,
                                    columns + Len(sproj.expressions))]
AddTold(sproj, told) == Added(sproj, told.expr, told.columns)
AddOf == INSTANCE Recursion
         WITH Height <- Rank, Parts <- Inputs, Step <- AddTold,
              Claim <- HasColumns

LEMMA ProjectionStepwise ==
    ASSUME NEW list, IsSeq(list), NEW columns
    PROVE  \E f : /\ f[0] = NoExpressions
                  /\ \A i \in 1..Len(list) : f[i] = Added(f[i - 1], list[i], columns)
                  /\ Producer!ProjectionOf(list, columns) = f[Len(list)]
<1> DEFINE n == Len(list)
           told == [k \in 1..n |-> [expr |-> list[k], columns |-> columns]]
           IsIter(g) == g = [s \in SUBSET (1..n) |->
                               IF s = {} THEN NoExpressions
                               ELSE Added(g[s \ {Producer!Max(s)}], list[Producer!Max(s)],
                                          columns)]
<1>1. n \in Nat /\ DOMAIN list = 1..n
  BY DEF IsSeq
<1>2. ASSUME NEW i \in 1..n, NEW s
      PROVE  AddTold(s, told[i]) = Added(s, list[i], columns)
  BY DEF AddTold
<1>. HIDE DEF told, n
<1>3. PICK g : AddOf!IsFold(g, NoExpressions, told, n)
  BY <1>1, AddOf!SomeFold
<1>4. ASSUME NEW h
      PROVE  IsIter(h) <=> AddOf!IsFold(h, NoExpressions, told, n)
  <2>1. ASSUME NEW s \in SUBSET (1..n), s # {}
        PROVE  /\ Producer!Max(s) = AddOf!Max(s)
               /\ AddTold(h[s \ {Producer!Max(s)}], told[Producer!Max(s)])
                      = Added(h[s \ {Producer!Max(s)}], list[Producer!Max(s)],
                              columns)
    <3>1. Producer!Max(s) = AddOf!Max(s)
      BY DEF Producer!Max, AddOf!Max
    <3>2. Producer!Max(s) \in 1..n
      BY <1>1, <2>1, <3>1, AddOf!MaxIsMember
    <3>. QED  BY <1>2, <3>1, <3>2
  <2>. QED  BY <2>1 DEF AddOf!IsFold
<1>5. Producer!ProjectionOf(list, columns) = (CHOOSE h : IsIter(h))[1..n]
  BY <1>1 DEF Producer!ProjectionOf, NoExpressions, Added,
              Producer!FoldLeft, Producer!MapThenFoldSet
<1> DEFINE iter == CHOOSE h : IsIter(h)
<1>6. IsIter(iter)
  <2>. HIDE DEF IsIter
  <2>. QED  BY <1>3, <1>4, Zenon
<1>7. AddOf!IsFold(iter, NoExpressions, told, n)
  <2>. HIDE DEF IsIter, iter
  <2>. QED  BY <1>4, <1>6
<1>8. Producer!ProjectionOf(list, columns) = iter[1..n]
  BY <1>5
<1>. HIDE DEF iter
<1>9. /\ iter[1..0] = NoExpressions
      /\ \A i \in 1..n : iter[1..i] = AddTold(iter[1..i - 1], told[i])
  BY <1>1, <1>7, AddOf!FoldStepwise
<1> DEFINE f == [i \in 0..n |-> iter[1..i]]
<1>10. /\ f[0] = iter[1..0] /\ f[n] = iter[1..n]
       /\ \A i \in 1..n : f[i] = iter[1..i] /\ f[i - 1] = iter[1..i - 1]
  BY <1>1
<1>. HIDE DEF f
<1>11. \A i \in 1..n : f[i] = Added(f[i - 1], list[i], columns)
  BY <1>2, <1>9, <1>10
<1>. QED  BY <1>8, <1>9, <1>10, <1>11 DEF n

IsSproj(s) == /\ DOMAIN s = {"expressions", "output_mapping"}
              /\ IsSeq(s.expressions) /\ IsSeq(s.output_mapping)
\* Where a projection that is written as s has the value of e.
Placed(s, e, m, columns) ==
    IF e.op = "ref" THEN m = e.index
    ELSE \E j \in 1..Len(s.expressions) :
             /\ m = columns + j - 1
             /\ s.expressions[j] = Producer!TransformExpr(e, 0)

\* t is s with one expression more.
OneMore(t, s, e, columns) ==
    /\ IsSproj(t) /\ Len(s.output_mapping) \in Nat /\ Len(s.expressions) \in Nat
    /\ Len(t.output_mapping) = Len(s.output_mapping) + 1
    /\ \A k \in 1..Len(s.output_mapping) : t.output_mapping[k] = s.output_mapping[k]
    /\ Placed(t, e, t.output_mapping[Len(s.output_mapping) + 1], columns)
    /\ \A k \in 1..Len(s.expressions) : t.expressions[k] = s.expressions[k]
    /\ e.op = "ref" => t.expressions = s.expressions
    /\ e.op # "ref" =>
           /\ Len(t.expressions) = Len(s.expressions) + 1
           /\ t.expressions[Len(s.expressions) + 1] = Producer!TransformExpr(e, 0)

LEMMA AddedIsSproj ==
    ASSUME NEW s, IsSproj(s), NEW e, NEW columns \in Nat
    PROVE  OneMore(Added(s, e, columns), s, e, columns)
<1> DEFINE t == Added(s, e, columns)
           n == Len(s.output_mapping)
           m == Len(s.expressions)
<1>1. n \in Nat /\ m \in Nat /\ IsSeq(s.output_mapping) /\ IsSeq(s.expressions)
  BY DEF IsSproj, IsSeq
<1>2. CASE e.op = "ref"
  <2> DEFINE new == Append(s.output_mapping, e.index)
  <2>1. /\ IsSeq(new) /\ Len(new) = n + 1 /\ new[n + 1] = e.index
        /\ \A k \in 1..n : new[k] = s.output_mapping[k]
    BY <1>1, AppendIsSeq
  <2>2. t = [s EXCEPT !.output_mapping = new]
    BY <1>2 DEF Added
  <2>. HIDE DEF new, t
  <2>3. /\ t.output_mapping = new /\ t.expressions = s.expressions
        /\ DOMAIN t = {"expressions", "output_mapping"}
    BY <2>2 DEF IsSproj
  <2>4. Placed(t, e, t.output_mapping[n + 1], columns)
    BY <1>2, <2>1, <2>3 DEF Placed
  <2>5. OneMore(t, s, e, columns)
    BY <1>1, <1>2, <2>1, <2>3, <2>4 DEF IsSproj, OneMore
  <2>. QED  BY <2>5 DEF t
<1>3. CASE e.op # "ref"
  <2> DEFINE new == Append(s.output_mapping, columns + m)
             exprs == Append(s.expressions, Producer!TransformExpr(e, 0))
  <2>1. /\ IsSeq(new) /\ Len(new) = n + 1 /\ new[n + 1] = columns + m
        /\ \A k \in 1..n : new[k] = s.output_mapping[k]
    BY <1>1, AppendIsSeq
  <2>2. /\ IsSeq(exprs) /\ Len(exprs) = m + 1
        /\ exprs[m + 1] = Producer!TransformExpr(e, 0)
        /\ \A k \in 1..m : exprs[k] = s.expressions[k]
    BY <1>1, AppendIsSeq
  <2>3. t = [expressions |-> exprs, output_mapping |-> new]
    BY <1>3 DEF Added
  <2>. HIDE DEF new, exprs, t
  <2>4. /\ t.output_mapping = new /\ t.expressions = exprs
        /\ DOMAIN t = {"expressions", "output_mapping"}
    BY <2>3
  <2>5. m + 1 \in 1..Len(exprs) /\ columns + m = columns + (m + 1) - 1
    BY <1>1, <2>2
  <2>6. Placed(t, e, t.output_mapping[n + 1], columns)
    BY <1>3, <2>1, <2>2, <2>4, <2>5 DEF Placed
  <2>7. OneMore(t, s, e, columns)
    BY <1>1, <1>3, <2>1, <2>2, <2>4, <2>6 DEF IsSproj, OneMore
  <2>. QED  BY <2>7 DEF t
<1>. QED  BY <1>2, <1>3

\* Every member of a list has its place in the projection.
PlacedUpTo(s, list, i, columns) ==
    /\ IsSproj(s) /\ Len(s.output_mapping) = i
    /\ \A k \in 1..i : Placed(s, list[k], s.output_mapping[k], columns)

LEMMA ProjectionPlaces ==
    ASSUME NEW list, IsSeq(list), NEW columns \in Nat
    PROVE  PlacedUpTo(Producer!ProjectionOf(list, columns), list, Len(list), columns)
<1> DEFINE n == Len(list)
<1>1. PICK f : /\ f[0] = NoExpressions
               /\ \A i \in 1..Len(list) : f[i] = Added(f[i - 1], list[i], columns)
               /\ Producer!ProjectionOf(list, columns) = f[Len(list)]
  BY ProjectionStepwise
<1>2. n \in Nat
  BY DEF IsSeq
<1> DEFINE Wrong == {i \in 0..n : ~PlacedUpTo(f[i], list, i, columns)}
<1>3. SUFFICES Wrong = {}
  BY <1>1, <1>2, <1>3
<1>. SUFFICES ASSUME Wrong # {} PROVE FALSE
  OBVIOUS
<1>4. PICK i \in Wrong : \A j \in Wrong : i <= j
  <2>1. Wrong \subseteq Nat
    OBVIOUS
  <2>. HIDE DEF Wrong
  <2>. QED  BY <2>1, AddOf!SmallestNat, Zenon
<1>5. i # 0
  <2>1. IsSproj(NoExpressions) /\ Len(NoExpressions.output_mapping) = 0
    <3>1. /\ NoExpressions.expressions = <<>> /\ NoExpressions.output_mapping = <<>>
          /\ DOMAIN NoExpressions = {"expressions", "output_mapping"}
      BY DEF NoExpressions
    <3>2. IsSeq(<<>>) /\ Len(<<>>) = 0
      BY DEF IsSeq
    <3>. HIDE DEF NoExpressions
    <3>. QED  BY <3>1, <3>2 DEF IsSproj
  <2>2. PlacedUpTo(f[0], list, 0, columns)
    BY <1>1, <2>1 DEF PlacedUpTo
  <2>. QED  BY <2>2
<1>6. i \in 1..n /\ i - 1 \in 0..n /\ i - 1 \notin Wrong
  BY <1>2, <1>4, <1>5
<1> DEFINE s == f[i - 1]
           t == f[i]
<1>7. PlacedUpTo(s, list, i - 1, columns) /\ t = Added(s, list[i], columns)
  BY <1>1, <1>6
<1>. HIDE DEF s, t
<1>8. /\ IsSproj(s) /\ Len(s.output_mapping) = i - 1
      /\ \A k \in 1..i - 1 : Placed(s, list[k], s.output_mapping[k], columns)
  BY <1>7 DEF PlacedUpTo
<1>9. /\ IsSproj(t) /\ Len(t.output_mapping) = (i - 1) + 1
      /\ \A k \in 1..i - 1 : t.output_mapping[k] = s.output_mapping[k]
      /\ Placed(t, list[i], t.output_mapping[(i - 1) + 1], columns)
      /\ \A k \in 1..Len(s.expressions) : t.expressions[k] = s.expressions[k]
      /\ Len(s.expressions) \in Nat
      /\ Len(t.expressions) \in Nat /\ Len(s.expressions) <= Len(t.expressions)
  <2>1. OneMore(t, s, list[i], columns)
    BY <1>7, <1>8, AddedIsSproj
  <2>2. /\ Len(s.expressions) \in Nat
        /\ list[i].op # "ref" => Len(t.expressions) = Len(s.expressions) + 1
        /\ list[i].op = "ref" => t.expressions = s.expressions
    BY <2>1 DEF OneMore
  <2>3. Len(t.expressions) \in Nat /\ Len(s.expressions) <= Len(t.expressions)
    BY <2>2
  <2>. QED  BY <1>8, <2>1, <2>2, <2>3 DEF OneMore
<1>10. ASSUME NEW k \in 1..i
       PROVE  Placed(t, list[k], t.output_mapping[k], columns)
  <2>1. CASE k = i
    BY <1>6, <1>9, <2>1
  <2>2. CASE k # i
    <3>1. k \in 1..i - 1
      BY <1>6, <2>2
    <3>2. Placed(s, list[k], s.output_mapping[k], columns)
      BY <1>8, <3>1
    <3>3. CASE list[k].op = "ref"
      BY <1>9, <3>1, <3>2, <3>3 DEF Placed
    <3>4. CASE list[k].op # "ref"
      <4>1. PICK j \in 1..Len(s.expressions) :
                /\ s.output_mapping[k] = columns + j - 1
                /\ s.expressions[j] = Producer!TransformExpr(list[k], 0)
        BY <3>2, <3>4 DEF Placed
      <4>2. j \in 1..Len(t.expressions) /\ t.expressions[j] = s.expressions[j]
        BY <1>9
      <4>3. t.output_mapping[k] = s.output_mapping[k]
        BY <1>9, <3>1
      <4>. QED  BY <3>4, <4>1, <4>2, <4>3 DEF Placed
    <3>. QED  BY <3>3, <3>4
  <2>. QED  BY <2>1, <2>2
<1>11. PlacedUpTo(t, list, i, columns)
  BY <1>6, <1>9, <1>10 DEF PlacedUpTo
<1>. QED  BY <1>11 DEF t

\* Where columns that are kept come first, and what is computed follows.
AppendedUpTo(s, list, i, columns) ==
    /\ IsSproj(s)
    /\ i <= columns => Len(s.expressions) = 0
    /\ i > columns => Len(s.expressions) = i - columns
    /\ \A j \in 1..Len(s.expressions) :
           s.expressions[j] = Producer!TransformExpr(list[columns + j], 0)

LEMMA NoExpressionsIsSproj ==
    /\ IsSproj(NoExpressions) /\ Len(NoExpressions.output_mapping) = 0
    /\ Len(NoExpressions.expressions) = 0
<1>1. /\ NoExpressions.expressions = <<>> /\ NoExpressions.output_mapping = <<>>
      /\ DOMAIN NoExpressions = {"expressions", "output_mapping"}
  BY DEF NoExpressions
<1>2. IsSeq(<<>>) /\ Len(<<>>) = 0
  BY DEF IsSeq
<1>. HIDE DEF NoExpressions
<1>. QED  BY <1>1, <1>2 DEF IsSproj

LEMMA ProjectionAppends ==
    ASSUME NEW list, IsSeq(list), NEW columns \in Nat, columns <= Len(list),
           \A k \in 1..columns : list[k].op = "ref",
           \A k \in columns + 1..Len(list) : list[k].op # "ref"
    PROVE  AppendedUpTo(Producer!ProjectionOf(list, columns), list, Len(list), columns)
<1> DEFINE n == Len(list)
<1>1. PICK f : /\ f[0] = NoExpressions
               /\ \A i \in 1..Len(list) : f[i] = Added(f[i - 1], list[i], columns)
               /\ Producer!ProjectionOf(list, columns) = f[Len(list)]
  BY ProjectionStepwise
<1>2. n \in Nat
  BY DEF IsSeq
<1> DEFINE Wrong == {i \in 0..n : ~AppendedUpTo(f[i], list, i, columns)}
<1>3. SUFFICES Wrong = {}
  BY <1>1, <1>2, <1>3
<1>. SUFFICES ASSUME Wrong # {} PROVE FALSE
  OBVIOUS
<1>4. PICK i \in Wrong : \A j \in Wrong : i <= j
  <2>1. Wrong \subseteq Nat
    OBVIOUS
  <2>. HIDE DEF Wrong
  <2>. QED  BY <2>1, AddOf!SmallestNat, Zenon
<1>5. i # 0
  <2>1. AppendedUpTo(f[0], list, 0, columns)
    BY <1>1, NoExpressionsIsSproj DEF AppendedUpTo
  <2>. QED  BY <2>1
<1>6. i \in 1..n /\ i - 1 \in 0..n /\ i - 1 \notin Wrong
  BY <1>2, <1>4, <1>5
<1> DEFINE s == f[i - 1]
           t == f[i]
           e == list[i]
<1>7. AppendedUpTo(s, list, i - 1, columns) /\ t = Added(s, e, columns)
  BY <1>1, <1>6
<1>. HIDE DEF s, t
<1>8. IsSproj(s)
  BY <1>7 DEF AppendedUpTo
<1>9. OneMore(t, s, e, columns)
  BY <1>7, <1>8, AddedIsSproj
<1>10. IsSproj(t)
  BY <1>9 DEF OneMore
<1>11. CASE i <= columns
  <2>1. e.op = "ref" /\ i - 1 <= columns
    BY <1>6, <1>11
  <2>2. t.expressions = s.expressions /\ Len(s.expressions) = 0
    BY <1>7, <1>9, <2>1 DEF OneMore, AppendedUpTo
  <2>. QED  BY <1>6, <1>10, <1>11, <2>2 DEF AppendedUpTo, t
<1>12. CASE i > columns
  <2>1. e.op # "ref"
    BY <1>6, <1>12
  <2>2. Len(s.expressions) = i - 1 - columns
    <3>1. CASE i - 1 <= columns
      <4>1. i - 1 = columns
        BY <1>6, <1>12, <3>1
      <4>. QED  BY <1>6, <1>7, <3>1, <4>1 DEF AppendedUpTo
    <3>2. CASE i - 1 > columns
      BY <1>7, <3>2 DEF AppendedUpTo
    <3>. QED  BY <1>6, <3>1, <3>2
  <2>3. /\ Len(t.expressions) = Len(s.expressions) + 1
        /\ t.expressions[Len(s.expressions) + 1] = Producer!TransformExpr(e, 0)
        /\ \A k \in 1..Len(s.expressions) : t.expressions[k] = s.expressions[k]
    BY <1>9, <2>1 DEF OneMore
  <2>4. Len(t.expressions) = i - columns
    BY <1>6, <2>2, <2>3
  <2>5. ASSUME NEW j \in 1..Len(t.expressions)
        PROVE  t.expressions[j] = Producer!TransformExpr(list[columns + j], 0)
    <3>1. CASE j = i - columns
      <4>1. columns + j = i /\ j = Len(s.expressions) + 1
        BY <1>6, <2>2, <3>1
      <4>. QED  BY <2>3, <4>1
    <3>2. CASE j # i - columns
      <4>1. j \in 1..Len(s.expressions)
        BY <1>6, <2>2, <2>4, <3>2
      <4>. QED  BY <1>7, <2>3, <4>1 DEF AppendedUpTo
    <3>. QED  BY <3>1, <3>2
  <2>6. AppendedUpTo(t, list, i, columns)
    BY <1>6, <1>10, <1>12, <2>4, <2>5 DEF AppendedUpTo
  <2>. QED  BY <2>6 DEF t
<1>. QED  BY <1>6, <1>11, <1>12

\* The number of leading references, and that there is one.
LEMMA LeadingRefsLead ==
    ASSUME NEW list, IsSeq(list), NEW columns \in Nat, columns <= Len(list),
           Producer!LeadingRefs(list) = columns
    PROVE  \A k \in 1..columns : list[k] = Producer!FieldRef(k - 1)
<1> DEFINE own(k) == list[k] = Producer!FieldRef(k - 1)
           Leads(n) == /\ \A k \in 1..n : own(k)
                       /\ n = Len(list) \/ ~own(n + 1)
           Ends0 == {n \in 0..Len(list) : n = Len(list) \/ ~own(n + 1)}
<1>1. Len(list) \in Nat
  BY DEF IsSeq
<1>2. Ends0 \subseteq Nat /\ Len(list) \in Ends0
  BY <1>1
<1>3. PICK n \in Ends0 : \A m \in Ends0 : n <= m
  <2>. HIDE DEF Ends0
  <2>. QED  BY <1>2, AddOf!SmallestNat, Zenon
<1>4. n \in 0..Len(list) /\ Leads(n)
  <2>1. ASSUME NEW k \in 1..n
        PROVE  own(k)
    <3>1. k - 1 \in 0..Len(list) /\ k - 1 < n /\ k - 1 # Len(list) /\ (k - 1) + 1 = k
      BY <1>1
    <3>2. k - 1 \notin Ends0
      BY <1>3, <3>1
    <3>. QED  BY <3>1, <3>2
  <2>. QED  BY <2>1
<1>5. Producer!LeadingRefs(list) = CHOOSE m \in 0..Len(list) : Leads(m)
  BY DEF Producer!LeadingRefs
<1>. HIDE DEF Leads
<1>6. Leads(columns)
  BY <1>4, <1>5, Zenon
<1>. QED  BY <1>6 DEF Leads

-----------------------------------------------------------------------------
(* A projection comes back.                                                *)

LEMMA ValueOfRef ==
    ASSUME NEW e, NEW S, Good(e, S), e.op = "ref", NEW cols
    PROVE  /\ e = Ref(e.index) /\ e.index \in S
           /\ Value(e, cols) = Field(cols, e.index)
<1>1. Nested4(e) /\ AllKept(e)
  BY NestedGrows DEF Good
<1>2. e = Ref(e.index)
  BY <1>1, ArgumentsKept, WhatIsKept
<1>3. e.index \in S
  BY WithinItself DEF Good
<1>4. Value(e, cols) = ValueOf(e, [k \in DOMAIN e.args |-> Value(e.args[k], cols)],
                               cols)
  BY <1>1, ValueStepwise
<1>5. Value(e, cols) = Field(cols, e.index)
  BY <1>4 DEF ValueOf
<1>. QED  BY <1>2, <1>3, <1>5

LEMMA FieldRefIsRef ==
    ASSUME NEW i
    PROVE  /\ Producer!FieldRef(i).op = "ref" /\ Producer!FieldRef(i).index = i
           /\ Producer!FieldRef(i) = Ref(i)
BY DEF Producer!FieldRef, Ref

\* A projection computes columns, from those it has below.
LEMMA ComputedByEach ==
    ASSUME NEW node, NEW cols, IsSeq(node.expressions)
    PROVE  /\ IsSeq(ComputedBy(node, cols))
           /\ Len(ComputedBy(node, cols)) = Len(node.expressions)
           /\ \A j \in 1..Len(node.expressions) :
                  ComputedBy(node, cols)[j]
                      = Value(TransformExpr(node.expressions[j]), cols)
<1> DEFINE computed == ComputedBy(node, cols)
<1>1. /\ DOMAIN computed = DOMAIN node.expressions
      /\ computed = [k \in DOMAIN computed |-> computed[k]]
      /\ \A k \in DOMAIN node.expressions :
             computed[k] = Value(TransformExpr(node.expressions[k]), cols)
  BY DEF ComputedBy, Values, TransformExprs
<1>2. DOMAIN node.expressions = 1..Len(node.expressions)
  BY DEF IsSeq
<1>. HIDE DEF computed
<1>3. IsSeq(computed) /\ Len(computed) = Len(node.expressions)
  BY <1>1, OverDomain
<1>. QED  BY <1>1, <1>2, <1>3 DEF computed

\* node computes the expressions of sproj, where it has any.
Computes(node, sproj) ==
    sproj.expressions # <<>> => node.expressions = sproj.expressions

LEMMA PlaceIsValue ==
    ASSUME NEW in, NEW s, Restored(in, s), NEW S, S \subseteq Shown(s),
           NEW e, Good(e, S), NEW m, NEW sproj, IsSproj(sproj),
           NEW columns, columns = Len(s.cols), Placed(sproj, e, m, columns),
           NEW node, Computes(node, sproj)
    PROVE  EntryOf(node, in.cols, m) = Value(e, s.cols)
<1>1. Len(in.cols) = Len(s.cols) /\ Len(s.cols) \in Nat
  BY ColumnsOfRestored
<1>2. CASE e.op = "ref"
  <2>1. m = e.index /\ e.index \in S /\ Value(e, s.cols) = Field(s.cols, e.index)
    BY <1>2, ValueOfRef DEF Placed
  <2>2. m \in Shown(s)
    BY <2>1
  <2>3. m < Len(in.cols)
    BY <1>1, <2>2 DEF Shown
  <2>4. EntryOf(node, in.cols, m) = Field(in.cols, m)
    BY <2>3 DEF EntryOf
  <2>. QED  BY <2>1, <2>2, <2>4, FieldOfRestored
<1>3. CASE e.op # "ref"
  <2>1. PICK j \in 1..Len(sproj.expressions) :
            /\ m = Len(s.cols) + j - 1
            /\ sproj.expressions[j] = Producer!TransformExpr(e, 0)
    BY <1>3 DEF Placed
  <2>2. IsSeq(sproj.expressions) /\ Len(sproj.expressions) \in Nat
    BY DEF IsSproj, IsSeq
  <2>3. node.expressions = sproj.expressions
    <3>1. sproj.expressions # <<>>
      BY <2>1, <2>2
    <3>. QED  BY <3>1 DEF Computes
  <2>4. /\ Len(ComputedBy(node, in.cols)) = Len(sproj.expressions)
        /\ ComputedBy(node, in.cols)[j]
               = Value(TransformExpr(Producer!TransformExpr(e, 0)), in.cols)
    BY <2>1, <2>2, <2>3, ComputedByEach
  <2>5. ComputedBy(node, in.cols)[j] = Value(e, s.cols)
    BY <2>4, ValueOfRestored
  <2>6. ~(m < Len(in.cols)) /\ m - Len(in.cols) = j - 1 /\ j - 1 < Len(sproj.expressions)
        /\ (j - 1) + 1 = j
    BY <1>1, <2>1, <2>2
  <2>7. EntryOf(node, in.cols, m) = Field(ComputedBy(node, in.cols), j - 1)
    BY <2>6 DEF EntryOf
  <2>8. Field(ComputedBy(node, in.cols), j - 1) = ComputedBy(node, in.cols)[j]
    BY <2>4, <2>6 DEF Field
  <2>. QED  BY <2>5, <2>7, <2>8
<1>. QED  BY <1>2, <1>3

\* New columns in place of all.
LEMMA ColumnsRestored ==
    ASSUME NEW in, NEW s, Comes(in, s), NEW c, IsList(c), NEW spine, IsList(spine)
    PROVE  Comes(Relation([in EXCEPT !.cols = c], spine), [s EXCEPT !.cols = c])
<1>1. Restored([in EXCEPT !.cols = c], [s EXCEPT !.cols = c])
  BY NewColumnsRestored DEF Comes
<1>. QED  BY <1>1, RelationComes

LEMMA MappingComes ==
    ASSUME NEW in, NEW s, Comes(in, s), in.spine[1].type # "empty",
           NEW S, S \subseteq Shown(s),
           NEW list, IsList(list), \A k \in DOMAIN list : Good(list[k], S),
           NEW node, node.rel = "project",
           NEW sproj, PlacedUpTo(sproj, list, Len(list), Len(s.cols)),
           node.emit = sproj.output_mapping,
           Computes(node, sproj)
    PROVE  Comes(TransformUnary(in, node), Project(s, list))
<1> DEFINE columns == Len(s.cols)
<1>1. Restored(in, s) /\ columns \in Nat
  BY ColumnsOfRestored DEF Comes
<1>3. /\ IsSproj(sproj) /\ Len(sproj.output_mapping) = Len(list)
      /\ \A k \in 1..Len(list) :
             Placed(sproj, list[k], sproj.output_mapping[k], Len(s.cols))
  BY DEF PlacedUpTo
<1>4. /\ DOMAIN node.emit = DOMAIN list /\ DOMAIN list = 1..Len(list)
      /\ node.emit # <<>>
  <2>1. IsSeq(sproj.output_mapping) /\ IsSeq(list) /\ Len(list) \in Nat \ {0}
    BY <1>3 DEF IsSproj, IsList, IsSeq
  <2>2. DOMAIN sproj.output_mapping = 1..Len(list) /\ DOMAIN list = 1..Len(list)
    BY <1>3, <2>1 DEF IsSeq
  <2>3. sproj.output_mapping # <<>>
    BY <1>3, <2>1
  <2>. QED  BY <2>2, <2>3
<1>5. ASSUME NEW e, Good(e, S), NEW m, Placed(sproj, e, m, columns)
      PROVE  EntryOf(node, in.cols, m) = Value(e, s.cols)
  <2>1. IsSproj(sproj) /\ columns = Len(s.cols)
    BY <1>3
  <2>. HIDE DEF columns
  <2>. QED  BY <1>1, <1>5, <2>1, PlaceIsValue
<1>6. MappedBy(node, in.cols) = Values(list, s.cols)
  <2>1. \A k \in DOMAIN list :
            EntryOf(node, in.cols, node.emit[k]) = Value(list[k], s.cols)
    BY <1>3, <1>4, <1>5
  <2>. QED  BY <1>4, <2>1 DEF MappedBy, Values
<1>7. IsList(Values(list, s.cols))
  BY EachIsList DEF Values
<1>8. PICK spine :
          /\ IsList(spine)
          /\ node.emit # <<>> =>
                 TransformUnary(in, node) =
                     Relation([in EXCEPT !.cols = MappedBy(node, in.cols)], spine)
  BY ProjectNode, Zenon
<1>9. TransformUnary(in, node)
          = Relation([in EXCEPT !.cols = Values(list, s.cols)], spine)
  BY <1>4, <1>6, <1>8
<1>10. Project(s, list) = [s EXCEPT !.cols = Values(list, s.cols)]
  BY DEF Project
<1>. QED  BY <1>7, <1>8, <1>9, <1>10, ColumnsRestored

\* What is left of a list whose first members are all the input's columns.
LEMMA NoRefsAfter ==
    ASSUME NEW list, IsList(list), NEW columns \in Nat, columns <= Len(list),
           \A k \in 1..columns : list[k] = Producer!FieldRef(k - 1),
           \A k \in DOMAIN list : Good(list[k], 0..columns - 1),
           UnrepeatedRefs(list)
    PROVE  \A k \in columns + 1..Len(list) : list[k].op # "ref"
<1>. SUFFICES ASSUME NEW k \in columns + 1..Len(list), list[k].op = "ref"
              PROVE  FALSE
  OBVIOUS
<1>1. Len(list) \in Nat /\ DOMAIN list = 1..Len(list)
  BY DEF IsList, IsSeq
<1>2. k \in DOMAIN list /\ k \in Nat /\ k > columns
  BY <1>1
<1> DEFINE i == list[k].index
<1>3. list[k] = Ref(i) /\ i \in 0..columns - 1
  BY <1>2, ValueOfRef
<1>. HIDE DEF i
<1>4. i + 1 \in 1..columns /\ (i + 1) - 1 = i
  BY <1>3
<1>5. list[i + 1] = Producer!FieldRef(i)
  BY <1>4
<1>6. Producer!FieldRef(i) = Ref(i)
  BY DEF Producer!FieldRef, Ref
<1>7. i + 1 \in DOMAIN list /\ i + 1 # k
  BY <1>1, <1>2, <1>4
<1>. QED  BY <1>2, <1>3, <1>5, <1>6, <1>7 DEF UnrepeatedRefs

LEMMA AppendedComes ==
    ASSUME NEW in, NEW s, Comes(in, s), in.spine[1].type # "empty",
           NEW S, S \subseteq Shown(s),
           NEW list, IsList(list), \A k \in DOMAIN list : Good(list[k], S),
           UnrepeatedRefs(list), Len(s.cols) <= Len(list),
           \A k \in 1..Len(s.cols) : list[k] = Producer!FieldRef(k - 1),
           NEW node, node.rel = "project", node.emit = <<>>,
           node.expressions = Producer!ProjectionOf(list, Len(s.cols)).expressions
    PROVE  Comes(TransformUnary(in, node), Project(s, list))
<1> DEFINE columns == Len(s.cols)
           n == Len(list)
           exprs == node.expressions
           computed == ComputedBy(node, in.cols)
           all == in.cols \o computed
<1>1. /\ Restored(in, s) /\ columns \in Nat /\ IsSeq(in.cols)
      /\ Len(in.cols) = columns
  BY ColumnsOfRestored DEF Comes
<1>2. n \in Nat /\ IsSeq(list) /\ DOMAIN list = 1..n
  BY DEF IsList, IsSeq
<1>3. \A k \in columns + 1..n : list[k].op # "ref"
  <2>1. S \subseteq 0..columns - 1
    BY DEF Shown
  <2>2. \A k \in DOMAIN list : Good(list[k], 0..columns - 1)
    BY <2>1 DEF Good
  <2>. QED  BY <1>1, <2>2, NoRefsAfter
<1>4. \A k \in 1..columns : list[k].op = "ref"
  BY FieldRefIsRef
<1>5. AppendedUpTo(Producer!ProjectionOf(list, columns), list, n, columns)
  BY <1>1, <1>2, <1>3, <1>4, ProjectionAppends
<1>6. /\ IsSeq(exprs) /\ Len(exprs) = n - columns
      /\ \A j \in 1..Len(exprs) :
             exprs[j] = Producer!TransformExpr(list[columns + j], 0)
  <2>1. /\ IsSeq(exprs) /\ (n <= columns => Len(exprs) = 0)
        /\ (n > columns => Len(exprs) = n - columns)
        /\ \A j \in 1..Len(exprs) :
               exprs[j] = Producer!TransformExpr(list[columns + j], 0)
    BY <1>5 DEF AppendedUpTo, IsSproj
  <2>2. n <= columns => n - columns = 0
    BY <1>1, <1>2
  <2>3. n <= columns \/ n > columns
    BY <1>1, <1>2
  <2>. HIDE DEF n, columns, exprs
  <2>4. Len(exprs) = n - columns
    BY <2>1, <2>2, <2>3
  <2>. QED  BY <2>1, <2>4
<1>7. /\ IsSeq(computed) /\ Len(computed) = n - columns
      /\ \A j \in 1..n - columns :
             computed[j] = Value(list[columns + j], s.cols)
  <2>1. /\ IsSeq(computed) /\ Len(computed) = Len(exprs)
        /\ \A j \in 1..Len(exprs) : computed[j] = Value(TransformExpr(exprs[j]), in.cols)
    BY <1>6, ComputedByEach
  <2>2. ASSUME NEW j \in 1..n - columns
        PROVE  computed[j] = Value(list[columns + j], s.cols)
    <3>1. columns + j \in DOMAIN list
      BY <1>1, <1>2
    <3>2. computed[j] = Value(TransformExpr(Producer!TransformExpr(list[columns + j], 0)),
                              in.cols)
      BY <1>6, <2>1
    <3>. QED  BY <1>1, <3>1, <3>2, ValueOfRestored
  <2>. QED  BY <1>6, <2>1, <2>2
<1>8. /\ IsSeq(all) /\ Len(all) = n
  <2>. HIDE DEF computed
  <2>1. IsSeq(all) /\ Len(all) = Len(in.cols) + Len(computed)
    BY <1>1, <1>7, ConcatIsSeq
  <2>2. Len(in.cols) = columns /\ Len(computed) = n - columns
    BY <1>1, <1>7
  <2>. HIDE DEF all, columns, n
  <2>. QED  BY <1>1, <1>2, <2>1, <2>2
<1>9. ASSUME NEW k \in 1..n
      PROVE  all[k] = Value(list[k], s.cols)
  <2>. HIDE DEF computed
  <2>1. CASE k <= columns
    <3>1. k \in 1..columns /\ k \in DOMAIN list
      BY <1>1, <1>2, <2>1
    <3>2. list[k].op = "ref" /\ list[k].index = k - 1
      BY <3>1, FieldRefIsRef
    <3>3. k - 1 \in Shown(s) /\ Value(list[k], s.cols) = Field(s.cols, k - 1)
      BY <3>1, <3>2, ValueOfRef
    <3>4. Field(in.cols, k - 1) = Field(s.cols, k - 1)
      BY <1>1, <3>3, FieldOfRestored
    <3>5. Field(in.cols, k - 1) = in.cols[k]
      BY <1>1, <3>1 DEF Field
    <3>6. all[k] = in.cols[k]
      BY <1>1, <1>7, <3>1 DEF IsSeq
    <3>. QED  BY <3>3, <3>4, <3>5, <3>6
  <2>2. CASE k > columns
    <3> DEFINE j == k - columns
    <3>1. j \in 1..n - columns /\ columns + j = k /\ k = Len(in.cols) + j
      BY <1>1, <1>2, <2>2
    <3>2. all[k] = computed[j]
      BY <1>1, <1>7, <3>1 DEF IsSeq
    <3>. QED  BY <1>7, <3>1, <3>2
  <2>3. k <= columns \/ k > columns
    BY <1>1, <1>2
  <2>. QED  BY <2>1, <2>2, <2>3
<1>. HIDE DEF all, computed
<1>10. all = Values(list, s.cols) /\ IsList(Values(list, s.cols))
  <2>1. all = [k \in 1..n |-> all[k]]
    BY <1>8 DEF IsSeq
  <2>2. all = [k \in DOMAIN list |-> Value(list[k], s.cols)]
    BY <1>2, <1>9, <2>1
  <2>. QED  BY <2>2, EachIsList DEF Values
<1>11. PICK spine :
          /\ IsList(spine)
          /\ node.emit = <<>> =>
                 TransformUnary(in, node) =
                     Relation([in EXCEPT !.cols = in.cols \o ComputedBy(node, in.cols)],
                              spine)
  BY ProjectNode, Zenon
<1>12. TransformUnary(in, node)
           = Relation([in EXCEPT !.cols = Values(list, s.cols)], spine)
  BY <1>10, <1>11 DEF all, computed
<1>13. Project(s, list) = [s EXCEPT !.cols = Values(list, s.cols)]
  BY DEF Project
<1>. QED  BY <1>10, <1>11, <1>12, <1>13, ColumnsRestored

\* Nothing is left to do where every column keeps its place.
LEMMA PassthroughComes ==
    ASSUME NEW in, NEW s, Comes(in, s), NEW S, S \subseteq Shown(s),
           NEW list, IsList(list), \A k \in DOMAIN list : Good(list[k], S),
           Len(s.cols) = Len(list),
           \A k \in 1..Len(s.cols) : list[k] = Producer!FieldRef(k - 1)
    PROVE  Comes(in, Project(s, list))
<1> DEFINE n == Len(list)
           c == Values(list, s.cols)
<1>1. /\ Restored(in, s) /\ n \in Nat /\ IsSeq(in.cols) /\ Len(in.cols) = n
      /\ DOMAIN list = 1..n
  BY ColumnsOfRestored DEF Comes, IsList, IsSeq
<1>2. IsList(c) /\ Len(c) = n
  BY EachIsList DEF Values
<1>3. ASSUME NEW k \in 1..n
      PROVE  in.cols[k] = c[k]
  <2>1. k \in DOMAIN list /\ list[k].op = "ref" /\ list[k].index = k - 1
    BY <1>1, FieldRefIsRef
  <2>2. k - 1 \in Shown(s) /\ Value(list[k], s.cols) = Field(s.cols, k - 1)
    BY <2>1, ValueOfRef
  <2>3. Field(in.cols, k - 1) = Field(s.cols, k - 1)
    BY <1>1, <2>2, FieldOfRestored
  <2>4. Field(in.cols, k - 1) = in.cols[k]
    BY <1>1 DEF Field
  <2>. QED  BY <2>1, <2>2, <2>3, <2>4 DEF Values
<1>. HIDE DEF c
<1>4. Project(s, list) = [s EXCEPT !.cols = c]
  BY DEF Project, c
<1> DEFINE t == [s EXCEPT !.cols = c]
<1>5. t.rows = s.rows /\ t.cols = c /\ DOMAIN t = DOMAIN s
  BY <1>1 DEF Restored, IsRelation, HasColumns
<1>. HIDE DEF t
<1>6. Restored(in, t)
  BY <1>1, <1>2, <1>3, <1>5 DEF Restored, IsRelation, HasColumns
<1>. QED  BY <1>4, <1>6 DEF Comes, t

LEMMA ProjectionComes ==
    ASSUME NEW in, NEW s, Comes(in, s), NEW S, S \subseteq Shown(s),
           NEW list, IsList(list), \A k \in DOMAIN list : Good(list[k], S),
           UnrepeatedRefs(list), NEW child, child.columns = Len(s.cols),
           NEW nodes, nodes = Producer!TransformProjection(child, list),
           nodes # <<>> /\ Head(nodes).rel = "project"
               => in.spine[1].type # "empty"
    PROVE  Comes(TransformChain(in, nodes), Project(s, list))
<1> DEFINE columns == Len(s.cols)
           sproj == Producer!ProjectionOf(list, columns)
<1>1. /\ Restored(in, s) /\ columns \in Nat /\ Len(list) \in Nat
      /\ Producer!GetColumnCount(child) = columns
  BY ColumnsOfRestored DEF Comes, Producer!GetColumnCount, IsList, IsSeq
<1>2. CASE Producer!IsPassthroughProjection(list, columns)
  <2>1. nodes = <<>>
    BY <1>1, <1>2 DEF Producer!TransformProjection
  <2>2. columns = Len(list) /\ Producer!LeadingRefs(list) = columns
    BY <1>2 DEF Producer!IsPassthroughProjection
  <2>3. \A k \in 1..columns : list[k] = Producer!FieldRef(k - 1)
    BY <1>1, <2>2, LeadingRefsLead DEF IsList
  <2>4. Comes(in, Project(s, list))
    BY <2>2, <2>3, PassthroughComes
  <2>. QED  BY <2>1, <2>4, ChainOfNone
<1>3. CASE /\ ~Producer!IsPassthroughProjection(list, columns)
           /\ Producer!NeedsOutputMapping(list, columns)
  <2> DEFINE exprs == IF sproj.expressions = <<>> THEN <<Producer!FieldRef(0)>>
                      ELSE sproj.expressions
             node == [rel |-> "project", expressions |-> exprs,
                      emit |-> sproj.output_mapping]
  <2>1. nodes = <<node>>
    BY <1>1, <1>3 DEF Producer!TransformProjection, Producer!ProjectRel
  <2>2. /\ node.rel = "project" /\ node.emit = sproj.output_mapping
        /\ Computes(node, sproj)
    BY DEF Computes
  <2>0. PlacedUpTo(sproj, list, Len(list), columns)
    BY <1>1, ProjectionPlaces DEF IsList
  <2>. HIDE DEF node, sproj
  <2>3. nodes # <<>> /\ Head(nodes).rel = "project"
    BY <2>1, <2>2
  <2>4. in.spine[1].type # "empty"
    BY <2>3
  <2>5. Comes(TransformUnary(in, node), Project(s, list))
    BY <2>0, <2>2, <2>4, MappingComes
  <2>. QED  BY <2>1, <2>5, ChainOfOne
<1>4. CASE /\ ~Producer!IsPassthroughProjection(list, columns)
           /\ ~Producer!NeedsOutputMapping(list, columns)
  <2> DEFINE node == [rel |-> "project", expressions |-> sproj.expressions,
                      emit |-> <<>>]
  <2>1. nodes = <<node>>
    BY <1>1, <1>4 DEF Producer!TransformProjection, Producer!ProjectRel
  <2>2. /\ node.rel = "project" /\ node.emit = <<>>
        /\ node.expressions = sproj.expressions
    OBVIOUS
  <2>3. columns <= Len(list) /\ Producer!LeadingRefs(list) = columns
    BY <1>1, <1>4 DEF Producer!NeedsOutputMapping
  <2>4. \A k \in 1..columns : list[k] = Producer!FieldRef(k - 1)
    BY <1>1, <2>3, LeadingRefsLead DEF IsList
  <2>. HIDE DEF node, sproj
  <2>5. nodes # <<>> /\ Head(nodes).rel = "project"
    BY <2>1, <2>2
  <2>6. in.spine[1].type # "empty"
    BY <2>5
  <2>7. Comes(TransformUnary(in, node), Project(s, list))
    BY <2>2, <2>3, <2>4, <2>6, AppendedComes DEF sproj
  <2>. QED  BY <2>1, <2>7, ChainOfOne
<1>. QED  BY <1>2, <1>3, <1>4

-----------------------------------------------------------------------------
(* Aggregates.                                                             *)

\* A measure whose function keeps its name, over columns that come back.
IsMeasure(m, S) ==
    /\ m.filter = {} /\ IsSeq(m.args)
    /\ \A k \in DOMAIN m.args : Good(m.args[k], S)
    /\ \/ m.fn = "count_star" /\ m.args = <<>>
       \/ /\ IsPlainName(m.fn) /\ m.fn # "grouping"
          /\ m.fn = "count" => m.args # <<>>
MeasureWritten(m) ==
    [fn |-> Producer!RemapFunctionName(m.fn),
     args |-> Producer!Transformed(m.args), distinct |-> m.distinct]
MeasureTerm(m, rows, cols) ==
    <<"measure", rows, FunctionName(m.fn, m.args), Values(m.args, cols),
      m.distinct, ValueSet(m.filter, cols)>>

LEMMA WrittenOnce ==
    ASSUME NEW name
    PROVE  /\ Producer!RemapFunctionName(name) = "count" =>
                  name \in {"count", "count_star"}
           /\ Producer!RemapFunctionName(name) = "grouping" => name = "grouping"
<1>1. CASE \A p \in Producer!function_names_remap : p[1] # name
  BY <1>1, OtherNames
<1>2. CASE \E p \in Producer!function_names_remap : p[1] = name
  <2>1. PICK p \in Producer!function_names_remap : p[1] = name
    BY <1>2
  <2>2. Producer!RemapFunctionName(name) = p[2]
    BY <2>1, WrittenNames
  <2>3. (p[2] = "count" => p[1] = "count_star") /\ p[2] # "grouping"
    BY DEF Producer!function_names_remap
  <2>. QED  BY <2>1, <2>2, <2>3
<1>. QED  BY <1>1, <1>2

LEMMA ReadAsCount ==
    ASSUME NEW name, RemapFunctionName(name) = "count"
    PROVE  name = "count"
<1>1. CASE \A p \in function_names_remap : p[1] # name
  BY <1>1, OtherNames
<1>2. CASE \E p \in function_names_remap : p[1] = name
  <2>1. PICK p \in function_names_remap : p[1] = name
    BY <1>2
  <2>2. RemapFunctionName(name) = p[2]
    BY <2>1, ReadNames
  <2>3. p[2] # "count"
    BY DEF function_names_remap
  <2>. QED  BY <2>2, <2>3
<1>. QED  BY <1>1, <1>2

LEMMA MeasureNames ==
    ASSUME NEW m, NEW S, IsMeasure(m, S), NEW args,
           args = <<>> <=> m.args = <<>>
    PROVE  LET name == Producer!RemapFunctionName(m.fn)
               back == IF name = "count" /\ args = <<>> THEN "count_star" ELSE name
           IN  /\ name # "grouping"
               /\ FunctionName(RemapFunctionName(back), args)
                      = FunctionName(m.fn, m.args)
<1> DEFINE name == Producer!RemapFunctionName(m.fn)
           back == IF name = "count" /\ args = <<>> THEN "count_star" ELSE name
<1>1. CASE m.fn = "count_star" /\ m.args = <<>>
  <2>1. name = "count"
    <3>1. <<"count_star", "count">> \in Producer!function_names_remap
      BY DEF Producer!function_names_remap
    <3>. QED  BY <1>1, <3>1, WrittenNames
  <2>2. back = "count_star"
    BY <1>1, <2>1
  <2>3. RemapFunctionName("count_star") = "count_star"
    <3>1. \A p \in function_names_remap : p[1] # "count_star"
      BY DEF function_names_remap
    <3>. QED  BY <3>1, OtherNames
  <2>. QED  BY <1>1, <2>1, <2>2, <2>3
<1>2. CASE /\ IsPlainName(m.fn) /\ m.fn # "grouping"
           /\ m.fn = "count" => m.args # <<>>
  <2>1. name # "grouping"
    BY <1>2, WrittenOnce
  <2>2. m.fn # "count_star"
    BY <1>2 DEF IsPlainName, OneWayNames
  <2>3. name = "count" => args # <<>>
    BY <1>2, <2>2, WrittenOnce
  <2>4. RemapFunctionName(name) = "count" => args # <<>>
    BY <2>3, ReadAsCount
  <2>5. back = name
    BY <2>3
  <2>6. FunctionName(RemapFunctionName(name), args) = DuckDBName(RemapFunctionName(name))
    BY <2>4 DEF FunctionName
  <2>7. FunctionName(m.fn, m.args) = DuckDBName(m.fn)
    BY <1>2 DEF FunctionName
  <2>8. DuckDBName(RemapFunctionName(name)) = DuckDBName(m.fn)
    BY <1>2, PlainNamesComeBack DEF NameBack
  <2>. QED  BY <2>1, <2>5, <2>6, <2>7, <2>8
<1>. QED  BY <1>1, <1>2 DEF IsMeasure

LEMMA MeasureComesBack ==
    ASSUME NEW r, NEW s, Restored(r, s), NEW S, S \subseteq Shown(s),
           NEW m, IsMeasure(m, S), NEW groups, NEW rows
    PROVE  MeasureTerm(TransformMeasure(groups, MeasureWritten(m)), rows, r.cols)
               = MeasureTerm(m, rows, s.cols)
<1> DEFINE w == MeasureWritten(m)
           name == Producer!RemapFunctionName(m.fn)
           args == TransformExprs(Producer!Transformed(m.args))
           back == IF name = "count" /\ args = <<>> THEN "count_star" ELSE name
           b == TransformMeasure(groups, w)
<1>1. w.fn = name /\ w.args = Producer!Transformed(m.args) /\ w.distinct = m.distinct
  BY DEF MeasureWritten
<1>2. args = <<>> <=> m.args = <<>>
  <2>1. DOMAIN args = DOMAIN m.args
    BY DEF TransformExprs, Producer!Transformed
  <2>2. args = <<>> <=> DOMAIN args = {}
    <3>1. args = [k \in DOMAIN args |-> args[k]]
      BY DEF TransformExprs
    <3>. HIDE DEF args
    <3>. QED  BY <3>1
  <2>3. m.args = <<>> => DOMAIN m.args = {}
    OBVIOUS
  <2>4. DOMAIN m.args = {} => m.args = <<>>
    <3>1. m.args = [k \in DOMAIN m.args |-> m.args[k]]
      BY DEF IsMeasure, IsSeq
    <3>. QED  BY <3>1
  <2>. QED  BY <2>1, <2>2, <2>3, <2>4
<1>3. /\ name # "grouping"
      /\ FunctionName(RemapFunctionName(back), args) = FunctionName(m.fn, m.args)
  <2>. HIDE DEF args
  <2>. QED  BY <1>2, MeasureNames
<1>. HIDE DEF w, name
<1>4. b = [fn |-> RemapFunctionName(back), args |-> args, distinct |-> m.distinct,
           filter |-> {}]
  BY <1>1, <1>3 DEF TransformMeasure
<1>5. Values(args, r.cols) = Values(m.args, s.cols)
  <2>1. \A k \in DOMAIN m.args : Good(m.args[k], S)
    BY DEF IsMeasure
  <2>. QED  BY <2>1, ValuesOfRestored
<1>6. ValueSet({}, r.cols) = ValueSet(m.filter, s.cols)
  BY DEF ValueSet, IsMeasure
<1>. HIDE DEF args, back
<1>7. /\ b.fn = RemapFunctionName(back) /\ b.args = args
      /\ b.distinct = m.distinct /\ b.filter = {}
  BY <1>4
<1>. HIDE DEF b
<1>8. MeasureTerm(b, rows, r.cols) = MeasureTerm(m, rows, s.cols)
  BY <1>3, <1>5, <1>6, <1>7 DEF MeasureTerm
<1>. QED  BY <1>8 DEF b, w

GroupRows(r, keys, sets) == <<"aggregate", r.rows, keys, sets>>
MeasureTerms(measures, rows, cols) ==
    [k \in DOMAIN measures |-> MeasureTerm(measures[k], rows, cols)]

LEMMA AggregateIsMade ==
    ASSUME NEW r, NEW groups, NEW sets, NEW measures
    PROVE  Aggregate(r, groups, sets, measures) =
               [rows |-> GroupRows(r, Values(groups, r.cols), sets),
                cols |-> Values(groups, r.cols)
                         \o MeasureTerms(measures,
                                GroupRows(r, Values(groups, r.cols), sets), r.cols)]
BY DEF Aggregate, MeasureTerm, MeasureTerms, GroupRows

LEMMA SameRestored ==
    ASSUME NEW r, IsRelation(r)
    PROVE  Restored(r, r)
BY DEF Restored

LEMMA AggregateComes ==
    ASSUME NEW in, NEW s, Comes(in, s), NEW S, S \subseteq Shown(s),
           NEW groups, IsSeq(groups), \A k \in DOMAIN groups : Good(groups[k], S),
           NEW measures, IsSeq(measures), IsList(groups) \/ IsList(measures),
           \A k \in DOMAIN measures : IsMeasure(measures[k], S),
           NEW node, node.rel = "aggregate",
           node.grouping_expressions = Producer!Transformed(groups),
           node.measures = [k \in DOMAIN measures |-> MeasureWritten(measures[k])]
    PROVE  Comes(TransformUnary(in, node),
                 Aggregate(s, groups, node.groupings, measures))
<1> DEFINE there == TransformExprs(Producer!Transformed(groups))
           sets == node.groupings
           keys == Values(groups, s.cols)
           rows == GroupRows(s, keys, sets)
           back == [k \in DOMAIN node.measures |->
                       TransformMeasure(there, node.measures[k])]
           spine == Spine("aggregate")
           out == TransformAggregateOp(in, node)
<1>1. Restored(in, s) /\ in.rows = s.rows
  BY DEF Comes, Restored
<1>2. Values(there, in.cols) = keys
  BY <1>1, ValuesOfRestored
<1>3. /\ DOMAIN back = DOMAIN measures
      /\ \A k \in DOMAIN measures :
             back[k] = TransformMeasure(there, MeasureWritten(measures[k]))
  <2>. HIDE DEF there
  <2>. QED  OBVIOUS
<1>4. out = Aggregate(in, there, sets, back)
  BY DEF TransformAggregateOp
<1>. HIDE DEF there, back, keys
<1>5. \A k \in DOMAIN measures :
          MeasureTerm(back[k], rows, in.cols) = MeasureTerm(measures[k], rows, s.cols)
  <2>. HIDE DEF rows
  <2>1. ASSUME NEW m, IsMeasure(m, S)
        PROVE  MeasureTerm(TransformMeasure(there, MeasureWritten(m)), rows, in.cols)
                   = MeasureTerm(m, rows, s.cols)
    BY <1>1, <2>1, MeasureComesBack
  <2>. QED  BY <1>3, <2>1
<1>6. GroupRows(in, keys, sets) = rows
  BY <1>1 DEF GroupRows
<1>. HIDE DEF rows, sets, out
<1>7. Aggregate(in, there, sets, back) =
          [rows |-> rows, cols |-> keys \o MeasureTerms(back, rows, in.cols)]
  BY <1>2, <1>6, AggregateIsMade
<1>8. Aggregate(s, groups, sets, measures) =
          [rows |-> rows, cols |-> keys \o MeasureTerms(measures, rows, s.cols)]
  BY AggregateIsMade DEF rows, keys
<1>9. out = Aggregate(s, groups, sets, measures)
  <2>1. MeasureTerms(back, rows, in.cols) = MeasureTerms(measures, rows, s.cols)
    BY <1>3, <1>5 DEF MeasureTerms
  <2>. QED  BY <1>4, <1>7, <1>8, <2>1
<1>10. IsRelation(Aggregate(s, groups, sets, measures))
  <2>1. HasColumns(Aggregate(s, groups, sets, measures))
    BY AggregateHasColumns
  <2>2. "rows" \in DOMAIN Aggregate(s, groups, sets, measures)
    BY <1>8
  <2>. QED  BY <2>1, <2>2 DEF IsRelation
<1>11. Restored(out, Aggregate(s, groups, sets, measures))
  BY <1>9, <1>10, SameRestored
<1>12. TransformUnary(in, node) = Relation(out, spine)
  BY DEF TransformUnary, out
<1>13. IsList(spine)
  BY SingletonIsList DEF Spine
<1>. HIDE DEF spine
<1>14. Comes(Relation(out, spine), Aggregate(s, groups, sets, measures))
  BY <1>11, <1>13, RelationComes
<1>. QED  BY <1>12, <1>14 DEF sets

-----------------------------------------------------------------------------
(* A DISTINCT is an aggregate of no measures over all columns.             *)

LEMMA RefIsGood ==
    ASSUME NEW S, NEW i \in S
    PROVE  Good(Ref(i), S)
<1> DEFINE e == Ref(i)
<1>1. e.op = "ref" /\ e.args = <<>> /\ e.index = i /\ "args" \in DOMAIN e
  BY DEF Ref
<1>2. e = Ref(e.index)
  BY <1>1
<1>. HIDE DEF e
<1>3. Nested3(e) /\ Nested4(e)
  BY <1>1, NestedGrows DEF Nested0
<1>4. IsKept(e)
  <2>1. IsSeq(<<>>)
    BY DEF IsSeq
  <2>. QED  BY <1>1, <1>2, <2>1 DEF IsKept
<1>5. \A x \in Within(e) : x = e
  <2>1. Arguments({e}) = {}
    BY <1>1 DEF Arguments, Range
  <2>. QED  BY <1>1, <2>1, WithinIsDown DEF Down0, Down1, Down2, Down3, Down4
<1>6. AllKept(e)
  BY <1>4, <1>5 DEF AllKept
<1>. QED  BY <1>1, <1>3, <1>5, <1>6 DEF Good, e

LEMMA DistinctComes ==
    ASSUME NEW in, NEW s, Comes(in, s), Shown(s) = 0..Len(s.cols) - 1,
           NEW child, child.columns = Len(s.cols),
           NEW node, Producer!TransformDistinct(child) = <<node>>
    PROVE  Comes(TransformUnary(in, node), Distinct(s))
<1> DEFINE n == Len(s.cols)
           all == Refs(All(s))
           keys == [k \in 1..n |-> Producer!FieldRef(k - 1)]
<1>1. n \in Nat \ {0} /\ DOMAIN s.cols = 1..n
  BY ColumnsOfRestored DEF Comes
<1>2. all = [k \in 1..n |-> Ref(k - 1)]
  BY <1>1 DEF Refs, All
<1>3. IsList(all) /\ Len(all) = n /\ DOMAIN all = 1..n
  <2>1. all = [k \in 1..n |-> all[k]] /\ DOMAIN all = 1..n
    BY <1>2
  <2>. HIDE DEF all, n
  <2>. QED  BY <1>1, <2>1, MadeIsSeq DEF IsList
<1>4. \A k \in DOMAIN all : all[k] = Ref(k - 1) /\ Good(all[k], Shown(s))
  <2>1. ASSUME NEW k \in 1..n
        PROVE  Good(Ref(k - 1), Shown(s))
    <3>1. k - 1 \in Shown(s)
      BY <1>1
    <3>. QED  BY <3>1, RefIsGood
  <2>. QED  BY <1>2, <1>3, <2>1
<1>5. /\ node.rel = "aggregate" /\ node.grouping_expressions = keys
      /\ node.groupings = {DOMAIN keys} /\ node.measures = <<>>
  BY DEF Producer!TransformDistinct, Producer!GetColumnCount
<1>6. Producer!Transformed(all) = keys
  <2>1. ASSUME NEW k \in 1..n
        PROVE  Producer!TransformExpr(all[k], 0) = Producer!FieldRef(k - 1)
    <3> DEFINE e == all[k]
    <3>1. e = Ref(k - 1) /\ Good(e, Shown(s)) /\ k - 1 \in Int
      BY <1>3, <1>4
    <3>2. Nested4(e) /\ AllKept(e) /\ e.op = "ref" /\ e.index = k - 1
      BY <3>1, NestedGrows DEF Good, Ref
    <3>. HIDE DEF e
    <3>3. Producer!TransformExpr(e, 0)
              = Producer!TransformExprOn(e, ArgumentsWrote(e, 0), 0)
      BY <3>2, WroteOnce DEF Wrote
    <3>4. Producer!TransformExpr(e, 0) = Producer!FieldRef(k - 1 + 0)
      BY <3>2, <3>3 DEF Producer!TransformExprOn, Producer!TransformBoundRefExpression
    <3>. QED  BY <3>1, <3>4 DEF e
  <2>. HIDE DEF all
  <2>. QED  BY <1>3, <2>1 DEF Producer!Transformed
<1>7. {DOMAIN keys} = AllGroups(all)
  BY <1>3 DEF AllGroups
<1>. HIDE DEF all, keys
<1>8. Comes(TransformUnary(in, node), Aggregate(s, all, node.groupings, <<>>))
  <2> DEFINE none == <<>>
  <2>1. IsSeq(none) /\ none = [k \in DOMAIN none |-> MeasureWritten(none[k])]
    BY DEF IsSeq
  <2>2. \A k \in DOMAIN none : IsMeasure(none[k], Shown(s))
    OBVIOUS
  <2>3. IsSeq(all) /\ \A k \in DOMAIN all : Good(all[k], Shown(s))
    BY <1>3, <1>4 DEF IsList
  <2>4. /\ node.measures = [k \in DOMAIN none |-> MeasureWritten(none[k])]
        /\ node.grouping_expressions = Producer!Transformed(all)
    BY <1>5, <1>6, <2>1
  <2>. HIDE DEF none
  <2>5. Comes(TransformUnary(in, node), Aggregate(s, all, node.groupings, none))
    BY <1>3, <1>5, <2>1, <2>2, <2>3, <2>4, AggregateComes
  <2>. QED  BY <2>5 DEF none
<1>. QED  BY <1>5, <1>7, <1>8 DEF Distinct, all

-----------------------------------------------------------------------------
(* Two relations side by side.                                             *)

LEMMA ConcatParts ==
    ASSUME NEW m, NEW s, IsSeq(s), Len(s) = m, NEW n, NEW t, IsSeq(t), Len(t) = n
    PROVE  /\ m \in Nat /\ n \in Nat
           /\ IsSeq(s \o t) /\ Len(s \o t) = m + n
           /\ \A k \in 1..m : (s \o t)[k] = s[k]
           /\ \A k \in 1..n : (s \o t)[m + k] = t[k]
<1> DEFINE E == {s[i] : i \in 1..Len(s)} \cup {t[i] : i \in 1..Len(t)}
<1>1. s \in Seq(E) /\ t \in Seq(E) /\ m \in Nat /\ n \in Nat
  BY DEF IsSeq
<1>. HIDE DEF E
<1>2. /\ s \o t \in Seq(E) /\ Len(s \o t) = Len(s) + Len(t)
      /\ \A k \in 1..Len(s) + Len(t) :
             (s \o t)[k] = IF k <= Len(s) THEN s[k] ELSE t[k - Len(s)]
  BY <1>1, ConcatProperties
<1>3. \A k \in 1..m : k \in 1..m + n /\ k <= m
  BY <1>1
<1>4. \A k \in 1..n : m + k \in 1..m + n /\ ~(m + k <= m) /\ m + k - m = k
  BY <1>1
<1>5. \A k \in 1..m : (s \o t)[k] = s[k]
  BY <1>2, <1>3
<1>6. \A k \in 1..n : (s \o t)[m + k] = t[k]
  BY <1>2, <1>4
<1>7. IsSeq(s \o t)
  BY ConcatIsSeq
<1>. QED  BY <1>1, <1>2, <1>5, <1>6, <1>7

LEMMA ConcatRight ==
    ASSUME NEW m, NEW s, IsSeq(s), Len(s) = m, NEW n, NEW t, IsSeq(t), Len(t) = n
    PROVE  \A k \in 1..n : (s \o t)[m + k] = t[k]
BY ConcatParts

LEMMA ListsBeside ==
    ASSUME NEW m, NEW n,
           NEW c, IsSeq(c), Len(c) = m, NEW d, IsSeq(d), Len(d) = n,
           NEW x, IsSeq(x), Len(x) = m, NEW y, IsSeq(y), Len(y) = n,
           m # 0, \A k \in 1..m : Hidden(x[k]) \/ c[k] = x[k],
           \A k \in 1..n : Hidden(y[k]) \/ d[k] = y[k]
    PROVE  /\ IsList(c \o d) /\ IsList(x \o y)
           /\ Len(c \o d) = m + n /\ Len(x \o y) = m + n
           /\ \A k \in 1..m + n : Hidden((x \o y)[k]) \/ (c \o d)[k] = (x \o y)[k]
<1>1. /\ IsSeq(c \o d) /\ Len(c \o d) = m + n
      /\ \A k \in 1..m : (c \o d)[k] = c[k]
      /\ \A k \in 1..n : (c \o d)[m + k] = d[k]
  <2>1. IsSeq(c \o d) /\ Len(c \o d) = m + n
    BY ConcatParts
  <2>2. \A k \in 1..m : (c \o d)[k] = c[k]
    BY ConcatParts
  <2>3. \A k \in 1..n : (c \o d)[m + k] = d[k]
    BY ConcatRight
  <2>. QED  BY <2>1, <2>2, <2>3
<1>2. /\ IsSeq(x \o y) /\ Len(x \o y) = m + n
      /\ \A k \in 1..m : (x \o y)[k] = x[k]
      /\ \A k \in 1..n : (x \o y)[m + k] = y[k]
  <2>1. IsSeq(x \o y) /\ Len(x \o y) = m + n
    BY ConcatParts
  <2>2. \A k \in 1..m : (x \o y)[k] = x[k]
    BY ConcatParts
  <2>3. \A k \in 1..n : (x \o y)[m + k] = y[k]
    BY ConcatRight
  <2>. QED  BY <2>1, <2>2, <2>3
<1>3. m \in Nat /\ n \in Nat
  BY DEF IsSeq
<1>4. ASSUME NEW k \in 1..m + n
      PROVE  Hidden((x \o y)[k]) \/ (c \o d)[k] = (x \o y)[k]
  <2>1. k \in 1..m \/ (k - m \in 1..n /\ m + (k - m) = k)
    BY <1>3
  <2>2. CASE k \in 1..m
    <3>1. (c \o d)[k] = c[k] /\ (x \o y)[k] = x[k] /\ (Hidden(x[k]) \/ c[k] = x[k])
      BY <1>1, <1>2, <2>2
    <3>. QED  BY <3>1, Zenon
  <2>3. CASE k - m \in 1..n /\ m + (k - m) = k
    <3>1. PICK j \in 1..n : m + j = k
      BY <2>3
    <3>2. (c \o d)[m + j] = d[j] /\ (x \o y)[m + j] = y[j] /\ (Hidden(y[j]) \/ d[j] = y[j])
      BY <1>1, <1>2
    <3>. QED  BY <3>1, <3>2, Zenon
  <2>. QED  BY <2>1, <2>2, <2>3
<1>5. IsList(c \o d) /\ IsList(x \o y)
  BY <1>1, <1>2, <1>3 DEF IsList
<1>. QED  BY <1>1, <1>2, <1>4, <1>5

LEMMA SidesRestored ==
    ASSUME NEW a, NEW l, Restored(a, l), NEW b, NEW r, Restored(b, r)
    PROVE  /\ IsList(a.cols \o b.cols) /\ IsList(l.cols \o r.cols)
           /\ Len(a.cols \o b.cols) = Len(l.cols) + Len(r.cols)
           /\ Len(l.cols \o r.cols) = Len(l.cols) + Len(r.cols)
           /\ \A k \in 1..Len(l.cols) + Len(r.cols) :
                  \/ Hidden((l.cols \o r.cols)[k])
                  \/ (a.cols \o b.cols)[k] = (l.cols \o r.cols)[k]
<1>1. /\ IsSeq(a.cols) /\ IsSeq(l.cols) /\ Len(a.cols) = Len(l.cols)
      /\ IsSeq(b.cols) /\ IsSeq(r.cols) /\ Len(b.cols) = Len(r.cols)
      /\ Len(l.cols) # 0
      /\ \A k \in 1..Len(l.cols) : Hidden(l.cols[k]) \/ a.cols[k] = l.cols[k]
      /\ \A k \in 1..Len(r.cols) : Hidden(r.cols[k]) \/ b.cols[k] = r.cols[k]
  BY ColumnsOfRestored DEF Restored
<1> DEFINE m == Len(l.cols)
           n == Len(r.cols)
<1>2. PICK c, d, x, y : c = a.cols /\ d = b.cols /\ x = l.cols /\ y = r.cols
  OBVIOUS
<1>3. /\ IsSeq(c) /\ Len(c) = m /\ IsSeq(x) /\ Len(x) = m
      /\ IsSeq(d) /\ Len(d) = n /\ IsSeq(y) /\ Len(y) = n /\ m # 0
      /\ \A k \in 1..m : Hidden(x[k]) \/ c[k] = x[k]
      /\ \A k \in 1..n : Hidden(y[k]) \/ d[k] = y[k]
  BY <1>1, <1>2
<1>. HIDE DEF m, n
<1>4. IsList(c \o d) /\ IsList(x \o y) /\ Len(c \o d) = m + n /\ Len(x \o y) = m + n
  BY <1>3, ListsBeside
<1>5. \A k \in 1..m + n : Hidden((x \o y)[k]) \/ (c \o d)[k] = (x \o y)[k]
  BY <1>3, ListsBeside
<1>. QED  BY <1>2, <1>4, <1>5 DEF m, n

\* A column of the left or of the right one.
LEMMA FieldBeside ==
    ASSUME NEW m, NEW c, IsSeq(c), Len(c) = m, NEW n, NEW d, IsSeq(d), Len(d) = n
    PROVE  /\ \A i \in 0..m - 1 : Field(c \o d, i) = Field(c, i)
           /\ \A i \in 0..n - 1 : Field(c \o d, i + m) = Field(d, i)
<1>1. /\ Len(c \o d) = m + n /\ m \in Nat /\ n \in Nat
      /\ \A k \in 1..m : (c \o d)[k] = c[k]
      /\ \A k \in 1..n : (c \o d)[m + k] = d[k]
  <2>1. IsSeq(c \o d) /\ Len(c \o d) = m + n
    BY ConcatParts
  <2>2. \A k \in 1..m : (c \o d)[k] = c[k]
    BY ConcatParts
  <2>3. \A k \in 1..n : (c \o d)[m + k] = d[k]
    BY ConcatRight
  <2>. QED  BY <2>1, <2>2, <2>3
<1>2. ASSUME NEW i \in 0..m - 1
      PROVE  Field(c \o d, i) = Field(c, i)
  <2>1. i + 1 \in 1..m /\ i < m + n /\ i < m
    BY <1>1
  <2>. QED  BY <1>1, <2>1 DEF Field
<1>3. ASSUME NEW i \in 0..n - 1
      PROVE  Field(c \o d, i + m) = Field(d, i)
  <2>1. /\ i + 1 \in 1..n /\ i < n /\ i + m < m + n
        /\ i + m + 1 = m + (i + 1)
    BY <1>1
  <2>2. (c \o d)[m + (i + 1)] = d[i + 1]
    BY <1>1, <2>1
  <2>3. Field(c \o d, i + m) = (c \o d)[i + m + 1] /\ Field(d, i) = d[i + 1]
    BY <1>1, <2>1 DEF Field
  <2>. QED  BY <2>1, <2>2, <2>3
<1>. QED  BY <1>2, <1>3

LEMMA FieldLeft ==
    ASSUME NEW m, NEW c, IsSeq(c), Len(c) = m, NEW n, NEW d, IsSeq(d), Len(d) = n
    PROVE  \A i \in 0..m - 1 : Field(c \o d, i) = Field(c, i)
BY FieldBeside

LEMMA FieldRight ==
    ASSUME NEW m, NEW c, IsSeq(c), Len(c) = m, NEW n, NEW d, IsSeq(d), Len(d) = n
    PROVE  \A i \in 0..n - 1 : Field(c \o d, i + m) = Field(d, i)
BY FieldBeside

LEMMA FieldOfSides ==
    ASSUME NEW a, NEW l, Restored(a, l), NEW b, NEW r, Restored(b, r),
           NEW count, Len(l.cols) = count
    PROVE  /\ \A i \in Shown(l) : Field(a.cols \o b.cols, i) = Field(l.cols, i)
           /\ \A i \in Shown(r) :
                  Field(a.cols \o b.cols, i + count) = Field(r.cols, i)
<1>1. PICK c, d, n : c = a.cols /\ d = b.cols /\ n = Len(r.cols)
  OBVIOUS
<1>2. IsSeq(c) /\ IsSeq(d) /\ Len(c) = count /\ Len(d) = n
  BY <1>1, ColumnsOfRestored
<1>3. \A i \in 0..count - 1 : Field(c \o d, i) = Field(c, i)
  BY <1>2, FieldLeft
<1>4. \A i \in 0..n - 1 : Field(c \o d, i + count) = Field(d, i)
  <2>1. ASSUME NEW m, Len(c) = m, NEW i \in 0..n - 1
        PROVE  Field(c \o d, i + m) = Field(d, i)
    BY <1>2, <2>1, FieldRight
  <2>. QED  BY <1>2, <2>1
<1>5. (\A i \in Shown(l) : i \in 0..count - 1) /\ (\A i \in Shown(r) : i \in 0..n - 1)
  BY <1>1 DEF Shown
<1>6. \A i \in Shown(l) : Field(c, i) = Field(l.cols, i)
  BY <1>1, FieldOfRestored
<1>7. \A i \in Shown(r) : Field(d, i) = Field(r.cols, i)
  BY <1>1, FieldOfRestored
<1>. QED  BY <1>1, <1>3, <1>4, <1>5, <1>6, <1>7

-----------------------------------------------------------------------------
(* The conditions of joins.                                                *)

LEMMA ValueBeside ==
    ASSUME NEW a, NEW l, Restored(a, l), NEW b, NEW r, Restored(b, r),
           NEW S, S \subseteq Shown(l), NEW T, T \subseteq Shown(r),
           NEW x, Good(x, S), NEW y, Good(y, T), ~OffsetLost(y),
           NEW count, Len(l.cols) = count
    PROVE  /\ Value(Back(x, 0), a.cols \o b.cols) = Value(x, l.cols)
           /\ Value(Back(y, count), a.cols \o b.cols) = Value(y, r.cols)
<1>1. Nested4(x) /\ AllKept(x) /\ Nested4(y) /\ AllKept(y)
  BY NestedGrows DEF Good
<1>2. /\ \A i \in Shown(l) : Field(a.cols \o b.cols, i) = Field(l.cols, i)
      /\ \A i \in Shown(r) : Field(a.cols \o b.cols, i + count) = Field(r.cols, i)
  BY FieldOfSides
<1>3. ASSUME NEW z \in Within(x), z.op = "ref"
      PROVE  Field(a.cols \o b.cols, z.index + 0) = Field(l.cols, z.index)
  <2>1. z.index \in Shown(l)
    BY <1>3 DEF Good
  <2>2. z.index + 0 = z.index
    BY <2>1, ColumnsOfRestored DEF Shown
  <2>. QED  BY <1>2, <2>1, <2>2
<1>4. ASSUME NEW z \in Within(y), z.op = "ref"
      PROVE  Field(a.cols \o b.cols, z.index + count) = Field(r.cols, z.index)
  <2>1. z.index \in Shown(r)
    BY <1>4 DEF Good
  <2>. QED  BY <1>2, <2>1
<1> DEFINE there == a.cols \o b.cols
<1>. HIDE DEF there
<1>5. Value(TransformExpr(Producer!TransformExpr(x, 0)), there) = Value(x, l.cols)
  <2>1. \A z \in Within(x) : z.op = "ref" => Field(there, z.index + 0) = Field(l.cols, z.index)
    BY <1>3 DEF there
  <2>. QED  BY <1>1, <2>1, ExpressionsComeBack
<1>6. Value(TransformExpr(Producer!TransformExpr(y, count)), there) = Value(y, r.cols)
  <2>1. \A z \in Within(y) : z.op = "ref" =>
            Field(there, z.index + count) = Field(r.cols, z.index)
    BY <1>4 DEF there
  <2>. QED  BY <1>1, <2>1, ExpressionsComeBack
<1>. QED  BY <1>5, <1>6 DEF Back, Wrote, there

LEMMA ComparisonIsRead ==
    ASSUME NEW x, Nested3(x), AllKept(x), NEW y, Nested3(y), AllKept(y),
           NEW fn \in Comparisons,
           fn = "not_equal" => ~IsString(x) /\ ~IsString(y),
           NEW m, NEW n
    PROVE  /\ TransformExpr(Producer!ScalarFunction(
                                fn, <<>>, <<Wrote(x, m), Wrote(y, n)>>))
                  = Comparison(fn, Back(x, m), Back(y, n))
           /\ Nested4(Comparison(fn, Back(x, m), Back(y, n)))
<1> DEFINE p == Wrote(x, m)
           q == Wrote(y, n)
           A == Back(x, m)
           B == Back(y, n)
           w == Producer!ScalarFunction(fn, <<>>, <<p, q>>)
           c == Comparison(fn, A, B)
<1>1. Nested4(x) /\ Nested4(y) /\ IsKept(x) /\ IsKept(y)
  BY NestedGrows, ArgumentsKept
<1>2. Nested3(p) /\ Nested3(q) /\ Nested4(p) /\ Nested4(q)
  BY <1>1, WroteDepth
<1>3. Nested3(A) /\ Nested3(B)
  BY <1>1, BackDepth
<1>4. (IsString(A) => IsString(x)) /\ (IsString(B) => IsString(y))
  BY <1>1, <1>2, StringsBack
<1>5. TransformExpr(p) = A /\ TransformExpr(q) = B
  BY DEF Back
<1>. HIDE DEF p, q, A, B
<1>6. /\ w.op = "scalar_function" /\ w.name = fn /\ w.enums = <<>>
      /\ w.args = <<p, q>>
  BY DEF Producer!ScalarFunction
<1>. HIDE DEF w
<1>7. Nested4(w)
  BY <1>2, <1>6 DEF Nested4
<1>8. [k \in DOMAIN w.args |-> TransformExpr(w.args[k])] = <<A, B>>
  BY <1>5, <1>6
<1>9. TransformExpr(w) = TransformExprOn(w, <<A, B>>)
  BY <1>7, <1>8, ReadStepwise
<1>10. ~IsNotLike(w, <<A, B>>)
  <2> DEFINE args == <<A, B>>
  <2>1. DOMAIN args = {1, 2} /\ args[1] = A /\ args[2] = B
    OBVIOUS
  <2>. HIDE DEF args
  <2>. QED  BY <1>4, <1>6, <2>1 DEF IsNotLike, IsString, args
<1>11. TransformExpr(w) = TransformScalarFunctionExpr(w, <<A, B>>)
  BY <1>6, <1>9 DEF TransformExprOn
<1>12. TransformExpr(w) = c
  <2> DEFINE args == <<A, B>>
  <2>1. args[1] = A /\ args[2] = B /\ ~IsNotLike(w, args)
    BY <1>10
  <2>. HIDE DEF args
  <2>2. TransformScalarFunctionExpr(w, args) = Comparison(fn, args[1], args[2])
    BY <1>6, <2>1 DEF TransformScalarFunctionExpr, Comparisons, Operators
  <2>. QED  BY <1>11, <2>1, <2>2 DEF args
<1>13. c.args = <<A, B>>
  BY DEF Comparison
<1>. HIDE DEF c
<1>14. Nested4(c)
  BY <1>3, <1>13 DEF Nested4
<1>. QED  BY <1>12, <1>14 DEF c, w, p, q, A, B

LEMMA ComparisonComes ==
    ASSUME NEW a, NEW l, Restored(a, l), NEW b, NEW r, Restored(b, r),
           NEW S, S \subseteq Shown(l), NEW T, T \subseteq Shown(r),
           NEW x, Good(x, S), NEW y, Good(y, T), ~OffsetLost(y),
           NEW fn \in Comparisons,
           fn = "not_equal" => ~IsString(x) /\ ~IsString(y),
           NEW count, Len(l.cols) = count
    PROVE  Value(TransformExpr(Producer!ScalarFunction(
                     fn, <<>>, <<Wrote(x, 0), Wrote(y, count)>>)),
                 a.cols \o b.cols)
               = Compare(fn, Value(x, l.cols), Value(y, r.cols))
<1> DEFINE there == a.cols \o b.cols
           A == Back(x, 0)
           B == Back(y, count)
           c == Comparison(fn, A, B)
<1>1. Value(A, there) = Value(x, l.cols) /\ Value(B, there) = Value(y, r.cols)
  BY ValueBeside
<1>2. TransformExpr(Producer!ScalarFunction(fn, <<>>, <<Wrote(x, 0), Wrote(y, count)>>)) = c
      /\ Nested4(c)
  BY ComparisonIsRead DEF Good
<1>. HIDE DEF there, A, B
<1>3. c.op = "compare" /\ c.fn = fn /\ c.args = <<A, B>>
  BY DEF Comparison
<1>. HIDE DEF c
<1>4. Value(c, there) =
          ValueOf(c, [k \in DOMAIN c.args |-> Value(c.args[k], there)], there)
  BY <1>2, ValueStepwise
<1>5. [k \in DOMAIN c.args |-> Value(c.args[k], there)]
          = <<Value(A, there), Value(B, there)>>
  BY <1>3
<1>6. Value(c, there) = Compare(fn, Value(A, there), Value(B, there))
  <2> DEFINE args == <<Value(A, there), Value(B, there)>>
  <2>1. args[1] = Value(A, there) /\ args[2] = Value(B, there)
    OBVIOUS
  <2>. HIDE DEF args
  <2>2. ValueOf(c, args, there) = Compare(fn, args[1], args[2])
    BY <1>3 DEF ValueOf
  <2>. QED  BY <1>4, <1>5, <2>1, <2>2 DEF args
<1>. QED  BY <1>1, <1>2, <1>6 DEF there

LEMMA SwappedCompares ==
    ASSUME NEW fn \in Comparisons, NEW a, NEW b
    PROVE  /\ Producer!SwapComparison(fn) \in Comparisons
           /\ Producer!SwapComparison(fn) = "not_equal" <=> fn = "not_equal"
           /\ Compare(Producer!SwapComparison(fn), b, a) = Compare(fn, a, b)
<1>1. {a, b} = {b, a}
  OBVIOUS
<1>2. CASE fn = "gt"
  BY <1>2 DEF Producer!SwapComparison, Compare, Comparisons
<1>3. CASE fn = "gte"
  BY <1>3 DEF Producer!SwapComparison, Compare, Comparisons
<1>4. CASE fn = "lt"
  BY <1>4 DEF Producer!SwapComparison, Compare, Comparisons
<1>5. CASE fn = "lte"
  BY <1>5 DEF Producer!SwapComparison, Compare, Comparisons
<1>6. CASE fn \notin {"gt", "gte", "lt", "lte"}
  BY <1>1, <1>6 DEF Producer!SwapComparison, Compare, Comparisons
<1>. QED  BY <1>2, <1>3, <1>4, <1>5, <1>6

\* A condition over the columns S of the left and T of the right child.
IsJoinCondition(type, c, S, T) ==
    /\ Good(c.left, S) /\ Good(c.right, T)
    /\ ~OffsetLost(IF Producer!Swapped(type) THEN c.left ELSE c.right)
    /\ c.fn \in Comparisons
    /\ c.fn = "not_equal" => ~IsString(c.left) /\ ~IsString(c.right)
AreJoinConditions(type, conditions, S, T) ==
    \A c \in conditions : IsJoinCondition(type, c, S, T)
JoinTerm(c, l, r) == Compare(c.fn, Value(c.left, l.cols), Value(c.right, r.cols))
JoinTerms(conditions, l, r) == {JoinTerm(c, l, r) : c \in conditions}
WrittenJoin(type, conditions, count) ==
    {Producer!TransformJoinCond(type, c, count) : c \in conditions}

LEMMA JoinTermsEach ==
    ASSUME NEW type, NEW conditions, NEW l, NEW r, NEW there, NEW count,
           \A c \in conditions :
               Value(TransformExpr(Producer!TransformJoinCond(type, c, count)), there)
                   = JoinTerm(c, l, r)
    PROVE  ValueSet(TransformCondition(WrittenJoin(type, conditions, count)), there)
               = JoinTerms(conditions, l, r)
BY DEF ValueSet, TransformCondition, WrittenJoin, JoinTerms

Beside(a, b) == a.cols \o b.cols

LEMMA JoinTermsStraight ==
    ASSUME NEW a, NEW l, Restored(a, l), NEW b, NEW r, Restored(b, r),
           NEW S, S \subseteq Shown(l), NEW T, T \subseteq Shown(r),
           NEW type, ~Producer!Swapped(type), NEW conditions,
           AreJoinConditions(type, conditions, S, T),
           NEW count, Len(l.cols) = count
    PROVE  ValueSet(TransformCondition(WrittenJoin(type, conditions, count)),
                    Beside(a, b)) = JoinTerms(conditions, l, r)
<1>2. ASSUME NEW c \in conditions
      PROVE  Value(TransformExpr(Producer!TransformJoinCond(type, c, count)),
                   a.cols \o b.cols) = JoinTerm(c, l, r)
  <2>1. Producer!TransformJoinCond(type, c, count)
            = Producer!ScalarFunction(c.fn, <<>>, <<Wrote(c.left, 0), Wrote(c.right, count)>>)
    BY <1>2 DEF Producer!TransformJoinCond, Wrote
  <2>2. PICK x, y, fn : x = c.left /\ y = c.right /\ fn = c.fn
    OBVIOUS
  <2>3. /\ Good(x, S) /\ Good(y, T) /\ ~OffsetLost(y) /\ fn \in Comparisons
        /\ fn = "not_equal" => ~IsString(x) /\ ~IsString(y)
    BY <1>2, <2>2 DEF IsJoinCondition, AreJoinConditions
  <2>4. Value(TransformExpr(Producer!ScalarFunction(
                  fn, <<>>, <<Wrote(x, 0), Wrote(y, count)>>)),
              a.cols \o b.cols)
            = Compare(fn, Value(x, l.cols), Value(y, r.cols))
    BY <1>2, <2>3, ComparisonComes
  <2>. QED  BY <2>1, <2>2, <2>4 DEF JoinTerm
<1> DEFINE there == a.cols \o b.cols
<1>3. \A c \in conditions :
          Value(TransformExpr(Producer!TransformJoinCond(type, c, count)), there)
              = JoinTerm(c, l, r)
  BY <1>2
<1>. HIDE DEF there
<1>4. ValueSet(TransformCondition(WrittenJoin(type, conditions, count)), there)
          = JoinTerms(conditions, l, r)
  BY <1>3, JoinTermsEach
<1>. QED  BY <1>4 DEF there, Beside

LEMMA JoinTermsSwapped ==
    ASSUME NEW a, NEW l, Restored(a, l), NEW b, NEW r, Restored(b, r),
           NEW S, S \subseteq Shown(l), NEW T, T \subseteq Shown(r),
           NEW type, Producer!Swapped(type), NEW conditions,
           AreJoinConditions(type, conditions, S, T),
           NEW count, Len(r.cols) = count
    PROVE  ValueSet(TransformCondition(WrittenJoin(type, conditions, count)),
                    Beside(b, a)) = JoinTerms(conditions, l, r)
<1>2. ASSUME NEW c \in conditions
      PROVE  Value(TransformExpr(Producer!TransformJoinCond(type, c, count)),
                   b.cols \o a.cols) = JoinTerm(c, l, r)
  <2>2. PICK x, y, fn, gn : /\ x = c.left /\ y = c.right /\ fn = c.fn
                            /\ gn = Producer!SwapComparison(fn)
    OBVIOUS
  <2>1. Producer!TransformJoinCond(type, c, count)
            = Producer!ScalarFunction(gn, <<>>, <<Wrote(y, 0), Wrote(x, count)>>)
    BY <1>2, <2>2 DEF Producer!TransformJoinCond, Wrote
  <2>3. /\ Good(x, S) /\ Good(y, T) /\ ~OffsetLost(x) /\ fn \in Comparisons
        /\ fn = "not_equal" => ~IsString(x) /\ ~IsString(y)
    BY <1>2, <2>2 DEF IsJoinCondition, AreJoinConditions
  <2>4. gn \in Comparisons /\ (gn = "not_equal" => fn = "not_equal")
    BY <2>2, <2>3, SwappedCompares
  <2>5. Value(TransformExpr(Producer!ScalarFunction(
                  gn, <<>>, <<Wrote(y, 0), Wrote(x, count)>>)),
              b.cols \o a.cols)
            = Compare(gn, Value(y, r.cols), Value(x, l.cols))
    BY <1>2, <2>3, <2>4, ComparisonComes
  <2>6. Compare(gn, Value(y, r.cols), Value(x, l.cols))
            = Compare(fn, Value(x, l.cols), Value(y, r.cols))
    BY <2>2, <2>3, SwappedCompares
  <2>. QED  BY <2>1, <2>2, <2>5, <2>6 DEF JoinTerm
<1> DEFINE there == b.cols \o a.cols
<1>3. \A c \in conditions :
          Value(TransformExpr(Producer!TransformJoinCond(type, c, count)), there)
              = JoinTerm(c, l, r)
  BY <1>2
<1>. HIDE DEF there
<1>4. ValueSet(TransformCondition(WrittenJoin(type, conditions, count)), there)
          = JoinTerms(conditions, l, r)
  BY <1>3, JoinTermsEach
<1>. QED  BY <1>4 DEF there, Beside

-----------------------------------------------------------------------------
(* The relations of joins.                                                 *)

LEMMA MadeRestored ==
    ASSUME NEW rows, NEW c, IsList(c), NEW d, IsList(d), Len(c) = Len(d),
           \A k \in 1..Len(d) : Hidden(d[k]) \/ c[k] = d[k]
    PROVE  Restored([rows |-> rows, cols |-> c], [rows |-> rows, cols |-> d])
<1> DEFINE t == [rows |-> rows, cols |-> c]
           u == [rows |-> rows, cols |-> d]
<1>1. /\ t.rows = rows /\ t.cols = c /\ DOMAIN t = {"rows", "cols"}
      /\ u.rows = rows /\ u.cols = d /\ DOMAIN u = {"rows", "cols"}
  OBVIOUS
<1>. HIDE DEF t, u
<1>2. Restored(t, u)
  BY <1>1 DEF Restored, IsRelation, HasColumns
<1>. QED  BY <1>2 DEF t, u

\* One more column.
LEMMA AppendRestored ==
    ASSUME NEW m, NEW c, IsSeq(c), Len(c) = m, NEW d, IsSeq(d), Len(d) = m,
           \A k \in 1..m : Hidden(d[k]) \/ c[k] = d[k], NEW e
    PROVE  /\ IsList(Append(c, e)) /\ IsList(Append(d, e))
           /\ Len(Append(c, e)) = m + 1 /\ Len(Append(d, e)) = m + 1
           /\ \A k \in 1..m + 1 : Hidden(Append(d, e)[k]) \/ Append(c, e)[k] = Append(d, e)[k]
<1>1. m \in Nat
  BY DEF IsSeq
<1>2. /\ IsSeq(Append(c, e)) /\ Len(Append(c, e)) = m + 1 /\ Append(c, e)[m + 1] = e
      /\ \A k \in 1..m : Append(c, e)[k] = c[k]
  BY AppendIsSeq
<1>3. /\ IsSeq(Append(d, e)) /\ Len(Append(d, e)) = m + 1 /\ Append(d, e)[m + 1] = e
      /\ \A k \in 1..m : Append(d, e)[k] = d[k]
  BY AppendIsSeq
<1>4. ASSUME NEW k \in 1..m + 1
      PROVE  Hidden(Append(d, e)[k]) \/ Append(c, e)[k] = Append(d, e)[k]
  <2>1. k \in 1..m \/ k = m + 1
    BY <1>1
  <2>2. CASE k \in 1..m
    <3>1. /\ Append(c, e)[k] = c[k] /\ Append(d, e)[k] = d[k]
          /\ Hidden(d[k]) \/ c[k] = d[k]
      BY <1>2, <1>3, <2>2
    <3>. QED  BY <3>1, Zenon
  <2>3. CASE k = m + 1
    BY <1>2, <1>3, <2>3
  <2>. QED  BY <2>1, <2>2, <2>3
<1>5. IsList(Append(c, e)) /\ IsList(Append(d, e))
  BY <1>1, <1>2, <1>3 DEF IsList
<1>. QED  BY <1>2, <1>3, <1>4, <1>5

\* The columns of two relations, over rows made of theirs.
LEMMA SidesMade ==
    ASSUME NEW rows, NEW a, NEW l, Restored(a, l), NEW b, NEW r, Restored(b, r)
    PROVE  Restored([rows |-> rows, cols |-> a.cols \o b.cols],
                    [rows |-> rows, cols |-> l.cols \o r.cols])
<1>1. /\ IsSeq(a.cols) /\ IsSeq(l.cols) /\ Len(a.cols) = Len(l.cols)
      /\ IsSeq(b.cols) /\ IsSeq(r.cols) /\ Len(b.cols) = Len(r.cols)
      /\ Len(l.cols) # 0
      /\ \A k \in 1..Len(l.cols) : Hidden(l.cols[k]) \/ a.cols[k] = l.cols[k]
      /\ \A k \in 1..Len(r.cols) : Hidden(r.cols[k]) \/ b.cols[k] = r.cols[k]
  BY ColumnsOfRestored DEF Restored
<1>2. PICK c, d, x, y, m, n : /\ c = a.cols /\ d = b.cols /\ x = l.cols /\ y = r.cols
                              /\ m = Len(l.cols) /\ n = Len(r.cols)
  OBVIOUS
<1>3. /\ IsSeq(c) /\ Len(c) = m /\ IsSeq(x) /\ Len(x) = m
      /\ IsSeq(d) /\ Len(d) = n /\ IsSeq(y) /\ Len(y) = n /\ m # 0
      /\ \A k \in 1..m : Hidden(x[k]) \/ c[k] = x[k]
      /\ \A k \in 1..n : Hidden(y[k]) \/ d[k] = y[k]
  BY <1>1, <1>2
<1>4. IsList(c \o d) /\ IsList(x \o y) /\ Len(c \o d) = m + n /\ Len(x \o y) = m + n
  BY <1>3, ListsBeside
<1>5. \A k \in 1..m + n : Hidden((x \o y)[k]) \/ (c \o d)[k] = (x \o y)[k]
  BY <1>3, ListsBeside
<1>6. PICK p, q : p = c \o d /\ q = x \o y
  OBVIOUS
<1>7. /\ IsList(p) /\ IsList(q) /\ Len(p) = m + n /\ Len(q) = m + n
      /\ \A k \in 1..m + n : Hidden(q[k]) \/ p[k] = q[k]
  BY <1>4, <1>5, <1>6
<1>8. Restored([rows |-> rows, cols |-> p], [rows |-> rows, cols |-> q])
  BY <1>7, MadeRestored
<1>. QED  BY <1>2, <1>6, <1>8

JoinRows(type, l, r, terms) == <<"join", type, l.rows, r.rows, terms>>

LEMMA JoinRestored ==
    ASSUME NEW type, ~Producer!Swapped(type), NEW terms,
           NEW a, NEW l, Restored(a, l), NEW b, NEW r, Restored(b, r)
    PROVE  Restored(Join(type, a, b, terms), Join(type, l, r, terms))
<1> DEFINE rows == JoinRows(type, l, r, terms)
           mark == <<"mark", rows>>
<1>0. type # "RIGHT_SEMI" /\ type # "RIGHT_ANTI"
  BY DEF Producer!Swapped
<1>1. /\ a.rows = l.rows /\ b.rows = r.rows
      /\ JoinRows(type, a, b, terms) = rows
  BY DEF Restored, JoinRows
<1>. HIDE DEF rows
<1>2. CASE type \in LeftOnly
  <2>1. /\ Join(type, a, b, terms) = [rows |-> rows, cols |-> a.cols]
        /\ Join(type, l, r, terms) = [rows |-> rows, cols |-> l.cols]
    BY <1>1, <1>2 DEF Join, LeftOnly, JoinRows, rows
  <2>2. /\ IsList(a.cols) /\ IsList(l.cols) /\ Len(a.cols) = Len(l.cols)
        /\ \A k \in 1..Len(l.cols) : Hidden(l.cols[k]) \/ a.cols[k] = l.cols[k]
    BY DEF Restored, IsRelation, HasColumns
  <2>3. Restored([rows |-> rows, cols |-> a.cols], [rows |-> rows, cols |-> l.cols])
    BY <2>2, MadeRestored
  <2>. QED  BY <2>1, <2>3
<1>3. CASE type = "MARK"
  <2> DEFINE c == Append(a.cols, mark)
             d == Append(l.cols, mark)
  <2>1. /\ Join(type, a, b, terms) = [rows |-> l.rows, cols |-> c]
        /\ Join(type, l, r, terms) = [rows |-> l.rows, cols |-> d]
    BY <1>1, <1>3 DEF Join, LeftOnly, JoinRows, rows
  <2>. HIDE DEF mark
  <2>2. PICK m : Len(l.cols) = m
    OBVIOUS
  <2>3. /\ IsSeq(a.cols) /\ IsSeq(l.cols) /\ Len(a.cols) = m /\ Len(l.cols) = m
        /\ \A k \in 1..m : Hidden(l.cols[k]) \/ a.cols[k] = l.cols[k]
    BY <2>2, ColumnsOfRestored DEF Restored
  <2>4. /\ IsList(c) /\ IsList(d) /\ Len(c) = m + 1 /\ Len(d) = m + 1
        /\ \A k \in 1..m + 1 : Hidden(d[k]) \/ c[k] = d[k]
    BY <2>3, AppendRestored
  <2>. HIDE DEF c, d
  <2>5. Restored([rows |-> l.rows, cols |-> c], [rows |-> l.rows, cols |-> d])
    BY <2>4, MadeRestored
  <2>. QED  BY <2>1, <2>5
<1>4. CASE type \notin LeftOnly \cup {"MARK"}
  <2>1. /\ Join(type, a, b, terms) = [rows |-> rows, cols |-> a.cols \o b.cols]
        /\ Join(type, l, r, terms) = [rows |-> rows, cols |-> l.cols \o r.cols]
    BY <1>0, <1>1, <1>4 DEF Join, LeftOnly, JoinRows, rows
  <2>2. Restored([rows |-> rows, cols |-> a.cols \o b.cols],
                 [rows |-> rows, cols |-> l.cols \o r.cols])
    BY SidesMade
  <2>. QED  BY <2>1, <2>2
<1>. QED  BY <1>2, <1>3, <1>4

LEMMA JoinKeepsLeft ==
    ASSUME NEW type \in LeftOnly, NEW l, NEW r, NEW terms
    PROVE  Join(type, l, r, terms).cols = l.cols
BY DEF Join, LeftOnly

LEMMA JoinAddsMark ==
    ASSUME NEW l, IsSeq(l.cols), NEW m, Len(l.cols) = m, NEW r, NEW terms
    PROVE  Len(Join("MARK", l, r, terms).cols) = m + 1
<1>1. PICK c, e : c = l.cols /\ e = <<"mark", JoinRows("MARK", l, r, terms)>>
  OBVIOUS
<1>2. Join("MARK", l, r, terms).cols = Append(c, e)
  BY <1>1 DEF Join, LeftOnly, JoinRows
<1>3. IsSeq(c) /\ Len(c) = m
  BY <1>1
<1>4. Len(Append(c, e)) = m + 1
  BY <1>3, AppendIsSeq
<1>. QED  BY <1>2, <1>4

LEMMA JoinAddsRight ==
    ASSUME NEW type, type \notin LeftOnly \cup {"MARK"}, ~Producer!Swapped(type),
           NEW l, IsSeq(l.cols), NEW m, Len(l.cols) = m,
           NEW r, IsSeq(r.cols), NEW n, Len(r.cols) = n, NEW terms
    PROVE  Len(Join(type, l, r, terms).cols) = m + n
<1>1. PICK c, d : c = l.cols /\ d = r.cols
  OBVIOUS
<1>2. Join(type, l, r, terms).cols = c \o d
  BY <1>1 DEF Join, LeftOnly, Producer!Swapped
<1>3. IsSeq(c) /\ Len(c) = m /\ IsSeq(d) /\ Len(d) = n
  BY <1>1
<1>4. Len(c \o d) = m + n
  BY <1>3, ConcatParts
<1>. QED  BY <1>2, <1>4

\* A right semi join is a semi join of the children the other way round.
LEMMA SwappedJoinRestored ==
    ASSUME NEW type, Producer!Swapped(type), NEW terms,
           NEW a, NEW l, Restored(a, l), NEW b, NEW r, Restored(b, r)
    PROVE  /\ Restored(Join(Producer!SubstraitJoinType(type), b, a, terms),
                       Join(type, l, r, terms))
           /\ Join(type, l, r, terms).cols = r.cols
<1> DEFINE one == Producer!SubstraitJoinType(type)
<1>1. /\ one \in LeftOnly /\ ~Producer!Swapped(one)
      /\ Join(one, r, l, terms) = Join(type, l, r, terms)
  <2>1. CASE type = "RIGHT_SEMI"
    <3>1. one = "SEMI"
      BY <2>1 DEF Producer!SubstraitJoinType
    <3>. HIDE DEF one
    <3>. QED  BY <2>1, <3>1 DEF Producer!Swapped, LeftOnly, Join
  <2>2. CASE type = "RIGHT_ANTI"
    <3>1. one = "ANTI"
      BY <2>2 DEF Producer!SubstraitJoinType
    <3>. HIDE DEF one
    <3>. QED  BY <2>2, <3>1 DEF Producer!Swapped, LeftOnly, Join
  <2>. QED  BY <2>1, <2>2 DEF Producer!Swapped
<1>. HIDE DEF one
<1>2. PICK sort : sort = one
  OBVIOUS
<1>3. sort \in LeftOnly /\ ~Producer!Swapped(sort)
  BY <1>1, <1>2
<1>4. Restored(Join(sort, b, a, terms), Join(sort, r, l, terms))
  BY <1>3, JoinRestored
<1>5. Join(sort, r, l, terms).cols = r.cols
  BY <1>3, JoinKeepsLeft
<1>. QED  BY <1>1, <1>2, <1>4, <1>5 DEF one

-----------------------------------------------------------------------------
(* A join and the projection on it.                                        *)

LEMMA ChainOfFields ==
    ASSUME NEW in, NEW s, Comes(in, s), in.spine[1].type # "empty",
           NEW columns, Len(s.cols) = columns, NEW list, IsList(list),
           \A k \in DOMAIN list : list[k] \in 0..columns - 1
    PROVE  Comes(TransformChain(in, Producer!ProjectFields(columns, list)), Pick(s, list))
<1>1. PICK node : Producer!ProjectFields(columns, list) = <<node>>
  BY DEF Producer!ProjectFields, Producer!ProjectRel
<1>2. Producer!ProjectFields(Len(s.cols), list) = <<node>>
  BY <1>1
<1>3. \A k \in DOMAIN list : list[k] \in 0..Len(s.cols) - 1
  OBVIOUS
<1>4. Comes(TransformUnary(in, node), Pick(s, list))
  BY <1>2, <1>3, ProjectFieldsComes
<1>. QED  BY <1>1, <1>4, ChainOfOne

\* The width that TransformComparisonJoin takes its left input to have.
LEMMA JoinSide ==
    ASSUME NEW p, JoinIsExact(p), Restored(p.consumed, p.logical)
    PROVE  Producer!LeftColumnCount(Child(p)) = Len(p.logical.cols)
<1>1. Len(p.consumed.cols) = Len(p.logical.cols)
  BY DEF Restored
<1>2. Child(p).join = p.join /\ Child(p).columns = Len(p.logical.cols)
  BY DEF Child
<1>3. CASE p.join.type # "none"
  BY <1>1, <1>3 DEF JoinIsExact
<1>4. CASE p.join.type = "none"
  <2>1. PICK c : c = Child(p)
    OBVIOUS
  <2>2. c.join.type = "none" /\ c.columns = Len(p.logical.cols)
    BY <1>2, <1>4, <2>1
  <2>3. Producer!LeftColumnCount(c) = c.columns
    BY <2>2 DEF Producer!LeftColumnCount, Producer!Swapped
  <2>. QED  BY <2>1, <2>2, <2>3
<1>. QED  BY <1>3, <1>4

JoinNode(type, conditions, count) ==
    [rel |-> "join", type |-> Producer!SubstraitJoinType(type),
     expression |-> WrittenJoin(type, conditions, count)]
FieldsOfJoin(type, left, right, count) ==
    IF Producer!OneSided(type) THEN IF Producer!Swapped(type) THEN right ELSE left
    ELSE left \o [k \in DOMAIN right |-> right[k] + count]
ColumnsOfJoin(type, near, far) ==
    near + (IF Producer!OneSided(type) THEN 0 ELSE far)

LEMMA HeadAndTail ==
    ASSUME NEW node, NEW columns, NEW list,
           NEW nodes, nodes = <<node>> \o Producer!ProjectFields(columns, list)
    PROVE  Head(nodes) = node /\ Tail(nodes) = Producer!ProjectFields(columns, list)
<1>1. PICK other : Producer!ProjectFields(columns, list) = <<other>>
  BY DEF Producer!ProjectFields, Producer!ProjectRel
<1>2. Tail(<<node>> \o <<other>>) = <<other>>
  BY TailOfTwo
<1>3. Head(<<node>> \o <<other>>) = node
  <2>1. (<<node>> \o <<other>>)[1] = node
    BY BeforeIsList, SingletonIsList DEF IsList
  <2>2. PICK both : both = <<node>> \o <<other>>
    OBVIOUS
  <2>3. Head(both) = both[1]
    OBVIOUS
  <2>. QED  BY <2>1, <2>2, <2>3
<1>. QED  BY <1>1, <1>2, <1>3

LEMMA JoinedComes ==
    ASSUME NEW a, NEW l, Restored(a, l), NEW b, NEW r, Restored(b, r),
           NEW S, S \subseteq Shown(l), NEW T, T \subseteq Shown(r),
           NEW type, ~Producer!Swapped(type), NEW conditions,
           AreJoinConditions(type, conditions, S, T),
           NEW count, Len(l.cols) = count
    PROVE  LET joined == TransformJoinOp(a, b, JoinNode(type, conditions, count))
           IN  /\ Comes(joined, Join(type, l, r, JoinTerms(conditions, l, r)))
               /\ joined.spine[1].type # "empty"
<1> DEFINE node == JoinNode(type, conditions, count)
           terms == JoinTerms(conditions, l, r)
           there == ValueSet(TransformCondition(WrittenJoin(type, conditions, count)),
                             Beside(a, b))
           spine == Spine("join")
<1>1. there = terms
  BY JoinTermsStraight
<1>2. Producer!SubstraitJoinType(type) = type
  BY DEF Producer!SubstraitJoinType, Producer!Swapped
<1>3. node.type = type /\ node.expression = WrittenJoin(type, conditions, count)
  BY <1>2 DEF JoinNode
<1>4. IsList(spine) /\ spine[1].type = "join"
  BY SingletonIsList DEF Spine
<1>. HIDE DEF terms, there, spine
<1>5. TransformJoinOp(a, b, node) = Relation(Join(type, a, b, there), spine)
  <2>. HIDE DEF node
  <2>. QED  BY <1>3 DEF TransformJoinOp, Beside, there, spine
<1>. HIDE DEF node
<1>6. Restored(Join(type, a, b, terms), Join(type, l, r, terms))
  BY JoinRestored
<1>7. PICK out : out = Join(type, a, b, terms)
  OBVIOUS
<1>8. TransformJoinOp(a, b, node) = Relation(out, spine)
  BY <1>1, <1>5, <1>7
<1>9. Comes(Relation(out, spine), Join(type, l, r, terms))
  BY <1>4, <1>6, <1>7, RelationComes
<1>10. Relation(out, spine).spine = spine
  BY DEF Relation
<1>11. /\ Comes(TransformJoinOp(a, b, node), Join(type, l, r, terms))
       /\ TransformJoinOp(a, b, node).spine[1].type # "empty"
  BY <1>4, <1>8, <1>9, <1>10
<1>. QED  BY <1>11 DEF node, terms

LEMMA SwappedJoinedComes ==
    ASSUME NEW a, NEW l, Restored(a, l), NEW b, NEW r, Restored(b, r),
           NEW S, S \subseteq Shown(l), NEW T, T \subseteq Shown(r),
           NEW type, Producer!Swapped(type), NEW conditions,
           AreJoinConditions(type, conditions, S, T),
           NEW count, Len(r.cols) = count
    PROVE  LET joined == TransformJoinOp(b, a, JoinNode(type, conditions, count))
           IN  /\ Comes(joined, Join(type, l, r, JoinTerms(conditions, l, r)))
               /\ joined.spine[1].type # "empty"
<1> DEFINE node == JoinNode(type, conditions, count)
           terms == JoinTerms(conditions, l, r)
           there == ValueSet(TransformCondition(WrittenJoin(type, conditions, count)),
                             Beside(b, a))
           spine == Spine("join")
           sort == Producer!SubstraitJoinType(type)
<1>1. there = terms
  BY JoinTermsSwapped
<1>3. node.type = sort /\ node.expression = WrittenJoin(type, conditions, count)
  BY DEF JoinNode
<1>4. IsList(spine) /\ spine[1].type = "join"
  BY SingletonIsList DEF Spine
<1>6. Restored(Join(sort, b, a, terms), Join(type, l, r, terms))
  BY SwappedJoinRestored
<1>. HIDE DEF terms, there, spine, sort
<1>5. TransformJoinOp(b, a, node) = Relation(Join(sort, b, a, there), spine)
  <2>. HIDE DEF node
  <2>. QED  BY <1>3 DEF TransformJoinOp, Beside, there, spine
<1>. HIDE DEF node
<1>7. PICK out : out = Join(sort, b, a, terms)
  OBVIOUS
<1>8. TransformJoinOp(b, a, node) = Relation(out, spine)
  BY <1>1, <1>5, <1>7
<1>9. Comes(Relation(out, spine), Join(type, l, r, terms))
  BY <1>4, <1>6, <1>7, RelationComes
<1>10. Relation(out, spine).spine = spine
  BY DEF Relation
<1>11. /\ Comes(TransformJoinOp(b, a, node), Join(type, l, r, terms))
       /\ TransformJoinOp(b, a, node).spine[1].type # "empty"
  BY <1>4, <1>8, <1>9, <1>10
<1>. QED  BY <1>11 DEF node, terms

-----------------------------------------------------------------------------
(* The columns that a join keeps.                                          *)

InRange(list, m) == \A k \in DOMAIN list : list[k] \in 0..m - 1
MapOf(map, l) == IF map # <<>> THEN map ELSE All(l)
KeptOfJoin(type, left, right, m) ==
    CASE type \in LeftOnly -> left
      [] type = "MARK" -> Append(left, m)
      [] Producer!Swapped(type) -> right
      [] OTHER -> left \o [k \in DOMAIN right |-> right[k] + m]

LEMMA FillsAll ==
    ASSUME NEW map, NEW p, IsSeq(p.logical.cols)
    PROVE  Producer!FillMap(map, Child(p)) = MapOf(map, p.logical)
<1>1. DOMAIN p.logical.cols = 1..Len(p.logical.cols)
  BY DEF IsSeq
<1>2. Child(p).columns = Len(p.logical.cols)
  BY DEF Child
<1>. QED  BY <1>1, <1>2 DEF Producer!FillMap, MapOf, All

LEMMA AllInRange ==
    ASSUME NEW l, IsList(l.cols), NEW m, Len(l.cols) = m
    PROVE  /\ IsList(All(l)) /\ Len(All(l)) = m /\ InRange(All(l), m)
           /\ m \in Nat /\ m # 0
<1>1. IsList(All(l)) /\ DOMAIN All(l) = 1..m /\ m \in Nat /\ m # 0
  <2>1. DOMAIN l.cols = 1..m /\ m \in Nat /\ m # 0
    BY DEF IsList, IsSeq
  <2>2. All(l) = [k \in 1..m |-> k - 1]
    BY <2>1 DEF All
  <2>3. All(l) = [k \in 1..m |-> All(l)[k]] /\ DOMAIN All(l) = 1..m
    BY <2>2
  <2>4. IsSeq(All(l)) /\ Len(All(l)) = m
    BY <2>1, <2>3, MadeIsSeq
  <2>. QED  BY <2>1, <2>3, <2>4 DEF IsList
<1>2. \A k \in 1..m : All(l)[k] = k - 1
  BY <1>1 DEF All
<1>3. Len(All(l)) = m
  BY <1>1 DEF IsList, IsSeq
<1>. QED  BY <1>1, <1>2, <1>3 DEF InRange

LEMMA MapInRange ==
    ASSUME menu \in DOMAIN Menus, NEW l, IsList(l.cols), NEW m, Len(l.cols) = m,
           NEW S, S \subseteq 0..m - 1, NEW map, map \in Maps(S)
    PROVE  IsList(MapOf(map, l)) /\ InRange(MapOf(map, l), m)
<1>1. CASE map = <<>>
  BY <1>1, AllInRange DEF MapOf
<1>2. CASE map # <<>>
  <2>1. IsList(map) /\ \A k \in DOMAIN map : map[k] \in S
    BY <1>2, MapsAreLists DEF Maps, Lists
  <2>. QED  BY <1>2, <2>1 DEF MapOf, InRange
<1>. QED  BY <1>1, <1>2

LEMMA RightInRange ==
    ASSUME NEW m, m \in Nat, NEW n, n \in Nat, NEW left, IsList(left), InRange(left, m),
           NEW right, IsList(right), InRange(right, n)
    PROVE  LET both == left \o [k \in DOMAIN right |-> right[k] + m]
           IN  IsList(both) /\ InRange(both, m + n)
<1> DEFINE shifted == [k \in DOMAIN right |-> right[k] + m]
<1>1. IsList(shifted) /\ DOMAIN shifted = DOMAIN right
      /\ \A k \in DOMAIN right : shifted[k] = right[k] + m
  <2>1. DOMAIN shifted = DOMAIN right /\ shifted = [k \in DOMAIN shifted |-> shifted[k]]
    OBVIOUS
  <2>2. \A k \in DOMAIN right : shifted[k] = right[k] + m
    OBVIOUS
  <2>. HIDE DEF shifted
  <2>. QED  BY <2>1, <2>2, EachIsList
<1>. HIDE DEF shifted
<1>2. PICK a, b : a = Len(left) /\ b = Len(shifted)
  OBVIOUS
<1>3. /\ IsSeq(left) /\ IsSeq(shifted) /\ a \in Nat /\ b \in Nat /\ a # 0
      /\ DOMAIN left = 1..a /\ DOMAIN right = 1..b
  BY <1>1, <1>2 DEF IsList, IsSeq
<1>10. Len(left) = a /\ Len(shifted) = b
  BY <1>2
<1> DEFINE both == left \o shifted
<1>4. IsSeq(both) /\ Len(both) = a + b
  <2>1. IsSeq(both) /\ Len(both) = Len(left) + Len(shifted)
    BY <1>3, ConcatIsSeq
  <2>. HIDE DEF both
  <2>. QED  BY <1>10, <2>1
<1>5. \A k \in 1..a : both[k] = left[k]
  BY <1>3, <1>10, ConcatParts
<1>6. \A k \in 1..b : both[a + k] = shifted[k]
  BY <1>3, <1>10, ConcatRight
<1>. HIDE DEF both
<1>7. DOMAIN both = 1..a + b
  BY <1>4 DEF IsSeq
<1>8. ASSUME NEW k \in 1..a + b
      PROVE  both[k] \in 0..m + n - 1
  <2>1. k \in 1..a \/ (k - a \in 1..b /\ a + (k - a) = k)
    BY <1>3
  <2>2. CASE k \in 1..a
    <3>1. both[k] \in 0..m - 1
      BY <1>3, <1>5, <2>2 DEF InRange
    <3>. QED  BY <3>1
  <2>3. CASE k - a \in 1..b /\ a + (k - a) = k
    <3>1. PICK j \in 1..b : a + j = k
      BY <2>3
    <3>2. both[k] = right[j] + m /\ right[j] \in 0..n - 1
      BY <1>1, <1>3, <1>6, <3>1 DEF InRange
    <3>. QED  BY <3>2
  <2>. QED  BY <2>1, <2>2, <2>3
<1>9. IsList(both) /\ InRange(both, m + n)
  BY <1>3, <1>4, <1>7, <1>8 DEF InRange, IsList
<1>. QED  BY <1>9 DEF both, shifted

\* What the projection on a join picks is what the query keeps.
KeepsFields(type, left, right, near, m, n, width) ==
    LET fields == FieldsOfJoin(type, left, right, near)
    IN  /\ fields = KeptOfJoin(type, left, right, m)
        /\ IsList(fields) /\ InRange(fields, width)

LEMMA LeftFields ==
    ASSUME NEW type \in LeftOnly, NEW left, IsList(left), NEW m, InRange(left, m),
           NEW right, NEW n
    PROVE  KeepsFields(type, left, right, m, m, n, m) /\ ColumnsOfJoin(type, m, n) = m + 0
<1>1. /\ type # "MARK" /\ ~Producer!Swapped(type) /\ Producer!OneSided(type)
  BY DEF LeftOnly, Producer!Swapped, Producer!OneSided
<1>. QED  BY <1>1 DEF KeepsFields, FieldsOfJoin, KeptOfJoin, ColumnsOfJoin

LEMMA RightFields ==
    ASSUME NEW type, Producer!Swapped(type), NEW left, NEW right, IsList(right),
           NEW n, InRange(right, n), NEW m
    PROVE  KeepsFields(type, left, right, n, m, n, n) /\ ColumnsOfJoin(type, n, m) = n + 0
<1>1. type # "MARK" /\ type \notin LeftOnly /\ Producer!OneSided(type)
  BY DEF LeftOnly, Producer!Swapped, Producer!OneSided
<1>. QED  BY <1>1 DEF KeepsFields, FieldsOfJoin, KeptOfJoin, ColumnsOfJoin

LEMMA BothFields ==
    ASSUME NEW type, type \notin LeftOnly \cup {"MARK"}, ~Producer!Swapped(type),
           NEW m, m \in Nat, NEW n, n \in Nat, NEW left, IsList(left), InRange(left, m),
           NEW right, IsList(right), InRange(right, n)
    PROVE  KeepsFields(type, left, right, m, m, n, m + n)
           /\ ColumnsOfJoin(type, m, n) = m + n
<1> DEFINE both == left \o [k \in DOMAIN right |-> right[k] + m]
<1>1. IsList(both) /\ InRange(both, m + n)
  BY RightInRange
<1>2. ~Producer!OneSided(type) /\ type \notin LeftOnly /\ type # "MARK"
  BY DEF LeftOnly, Producer!OneSided
<1>3. FieldsOfJoin(type, left, right, m) = both
  BY <1>2 DEF FieldsOfJoin
<1>4. KeptOfJoin(type, left, right, m) = both
  BY <1>2 DEF KeptOfJoin
<1>. HIDE DEF both
<1>. QED  BY <1>1, <1>2, <1>3, <1>4 DEF KeepsFields, ColumnsOfJoin

\* Of the one column of the right side a mark join makes the mark.
LEMMA MarkFields ==
    ASSUME NEW m, m \in Nat, NEW left, IsList(left), InRange(left, m),
           NEW right, IsList(right), InRange(right, 1), Len(right) = 1
    PROVE  KeepsFields("MARK", left, right, m, m, 1, m + 1)
           /\ ColumnsOfJoin("MARK", m, 1) = m + 1
<1> DEFINE shifted == [k \in DOMAIN right |-> right[k] + m]
           both == left \o shifted
<1>1. IsList(both) /\ InRange(both, m + 1)
  BY RightInRange
<1>2. /\ ~Producer!OneSided("MARK") /\ ~Producer!Swapped("MARK") /\ "MARK" \notin LeftOnly
  BY DEF LeftOnly, Producer!OneSided, Producer!Swapped
<1>3. FieldsOfJoin("MARK", left, right, m) = both
  BY <1>2 DEF FieldsOfJoin
<1>4. KeptOfJoin("MARK", left, right, m) = Append(left, m)
  BY <1>2 DEF KeptOfJoin
<1>5. shifted = <<m>>
  <2>1. DOMAIN right = 1..1 /\ right[1] = 0
    BY DEF IsList, IsSeq, InRange
  <2>2. shifted = [k \in 1..1 |-> m]
    BY <2>1
  <2>. HIDE DEF shifted
  <2>. QED  BY <2>2
<1>. HIDE DEF shifted
<1>6. both = Append(left, m)
  <2>1. left \in Seq({left[k] : k \in 1..Len(left)})
    BY DEF IsList, IsSeq
  <2>. QED  BY <1>5, <2>1
<1>. HIDE DEF both
<1>. QED  BY <1>1, <1>2, <1>3, <1>4, <1>6 DEF KeepsFields, ColumnsOfJoin

-----------------------------------------------------------------------------
(* Joins.                                                                  *)

LEMMA LogicalJoinIs ==
    ASSUME NEW type, NEW l, NEW r, NEW conditions, NEW lmap, NEW rmap,
           NEW m, Len(l.cols) = m
    PROVE  LogicalJoin(type, l, r, conditions, lmap, rmap)
               = Pick(Join(type, l, r, JoinTerms(conditions, l, r)),
                      KeptOfJoin(type, MapOf(lmap, l), MapOf(rmap, r), m))
BY DEF LogicalJoin, JoinTerms, JoinTerm, KeptOfJoin, MapOf

StraightNodes(type, conditions, left, right, m, n) ==
    <<JoinNode(type, conditions, m)>>
    \o Producer!ProjectFields(ColumnsOfJoin(type, m, n),
                              FieldsOfJoin(type, left, right, m))

HasWidth(type, left, right, m, n, there, width) ==
    /\ KeepsFields(type, left, right, m, m, n, width)
    /\ ColumnsOfJoin(type, m, n) = width
    /\ Len(there.cols) = width

\* The width of a join whose left child becomes the left one of the relation.
LEMMA StraightWidth ==
    ASSUME NEW type, ~Producer!Swapped(type), NEW terms,
           NEW l, IsList(l.cols), NEW m, Len(l.cols) = m,
           NEW r, IsList(r.cols), NEW n, Len(r.cols) = n,
           NEW left, IsList(left), InRange(left, m),
           NEW right, IsList(right), InRange(right, n),
           type = "MARK" => n = 1 /\ Len(right) = 1
    PROVE  \E width : HasWidth(type, left, right, m, n, Join(type, l, r, terms), width)
<1>0. ASSUME NEW width, KeepsFields(type, left, right, m, m, n, width),
             ColumnsOfJoin(type, m, n) = width,
             Len(Join(type, l, r, terms).cols) = width
      PROVE  \E w : HasWidth(type, left, right, m, n, Join(type, l, r, terms), w)
  BY <1>0 DEF HasWidth
<1>1. m \in Nat /\ n \in Nat /\ IsSeq(l.cols) /\ IsSeq(r.cols)
  BY DEF IsList, IsSeq
<1>2. CASE type \in LeftOnly
  <2>1. KeepsFields(type, left, right, m, m, n, m) /\ ColumnsOfJoin(type, m, n) = m + 0
    BY <1>2, LeftFields
  <2>2. Join(type, l, r, terms).cols = l.cols
    BY <1>2, JoinKeepsLeft
  <2>3. ColumnsOfJoin(type, m, n) = m
    BY <1>1, <2>1
  <2>. QED  BY <1>0, <2>1, <2>2, <2>3
<1>3. CASE type = "MARK"
  <2>1. n = 1 /\ Len(right) = 1 /\ InRange(right, 1)
    BY <1>3
  <2>2. KeepsFields("MARK", left, right, m, m, 1, m + 1)
        /\ ColumnsOfJoin("MARK", m, 1) = m + 1
    BY <1>1, <2>1, MarkFields
  <2>3. Len(Join("MARK", l, r, terms).cols) = m + 1
    BY <1>1, JoinAddsMark
  <2>. QED  BY <1>0, <1>3, <2>1, <2>2, <2>3
<1>4. CASE type \notin LeftOnly \cup {"MARK"}
  <2>1. KeepsFields(type, left, right, m, m, n, m + n)
        /\ ColumnsOfJoin(type, m, n) = m + n
    BY <1>1, <1>4, BothFields
  <2>2. Len(Join(type, l, r, terms).cols) = m + n
    BY <1>1, <1>4, JoinAddsRight
  <2>. QED  BY <1>0, <2>1, <2>2
<1>. QED  BY <1>2, <1>3, <1>4

LEMMA StraightJoinComes ==
    ASSUME NEW a, NEW l, Restored(a, l), NEW b, NEW r, Restored(b, r),
           NEW S, S \subseteq Shown(l), NEW T, T \subseteq Shown(r),
           NEW type, ~Producer!Swapped(type), NEW conditions,
           AreJoinConditions(type, conditions, S, T),
           NEW m, Len(l.cols) = m, NEW n, Len(r.cols) = n,
           NEW left, IsList(left), InRange(left, m),
           NEW right, IsList(right), InRange(right, n),
           type = "MARK" => n = 1 /\ Len(right) = 1,
           NEW nodes, nodes = StraightNodes(type, conditions, left, right, m, n)
    PROVE  Comes(TransformChain(TransformJoinOp(a, b, Head(nodes)), Tail(nodes)),
                 Pick(Join(type, l, r, JoinTerms(conditions, l, r)),
                      KeptOfJoin(type, left, right, m)))
<1> DEFINE node == JoinNode(type, conditions, m)
           joined == TransformJoinOp(a, b, node)
           terms == JoinTerms(conditions, l, r)
           there == Join(type, l, r, terms)
           fields == FieldsOfJoin(type, left, right, m)
<1>1. Comes(joined, there) /\ joined.spine[1].type # "empty"
  BY JoinedComes
<1>2. IsList(l.cols) /\ IsList(r.cols)
  BY DEF Restored, IsRelation, HasColumns
<1>0. PICK width : HasWidth(type, left, right, m, n, there, width)
  <2>. HIDE DEF terms
  <2>. QED  BY <1>2, StraightWidth
<1>3. /\ KeepsFields(type, left, right, m, m, n, width)
      /\ ColumnsOfJoin(type, m, n) = width /\ Len(there.cols) = width
  BY <1>0 DEF HasWidth
<1>4. /\ fields = KeptOfJoin(type, left, right, m)
      /\ IsList(fields) /\ InRange(fields, width)
  BY <1>3 DEF KeepsFields
<1>5. nodes = <<node>> \o Producer!ProjectFields(width, fields)
  BY <1>3 DEF StraightNodes
<1>. HIDE DEF node, terms, there, fields
<1>6. Head(nodes) = node /\ Tail(nodes) = Producer!ProjectFields(width, fields)
  BY <1>5, HeadAndTail
<1>. HIDE DEF joined
<1>7. Comes(TransformChain(joined, Producer!ProjectFields(width, fields)),
            Pick(there, fields))
  BY <1>1, <1>3, <1>4, ChainOfFields DEF InRange
<1>. QED  BY <1>4, <1>6, <1>7 DEF joined, there, terms

LEMMA SwappedKeepsRight ==
    ASSUME NEW type, Producer!Swapped(type), NEW l, NEW r, NEW terms
    PROVE  Join(type, l, r, terms).cols = r.cols
<1>1. type = "RIGHT_SEMI" \/ type = "RIGHT_ANTI"
  BY DEF Producer!Swapped
<1>. QED  BY <1>1 DEF Join, LeftOnly

LEMMA SwappedJoinComes ==
    ASSUME NEW a, NEW l, Restored(a, l), NEW b, NEW r, Restored(b, r),
           NEW S, S \subseteq Shown(l), NEW T, T \subseteq Shown(r),
           NEW type, Producer!Swapped(type), NEW conditions,
           AreJoinConditions(type, conditions, S, T),
           NEW m, NEW n, Len(r.cols) = n,
           NEW left, NEW right, IsList(right), InRange(right, n),
           NEW nodes, nodes = StraightNodes(type, conditions, left, right, n, m)
    PROVE  Comes(TransformChain(TransformJoinOp(b, a, Head(nodes)), Tail(nodes)),
                 Pick(Join(type, l, r, JoinTerms(conditions, l, r)),
                      KeptOfJoin(type, left, right, m)))
<1> DEFINE node == JoinNode(type, conditions, n)
           joined == TransformJoinOp(b, a, node)
           terms == JoinTerms(conditions, l, r)
           there == Join(type, l, r, terms)
           fields == FieldsOfJoin(type, left, right, n)
<1>1. Comes(joined, there) /\ joined.spine[1].type # "empty"
  BY SwappedJoinedComes
<1>2. there.cols = r.cols
  BY SwappedKeepsRight
<1>3. n \in Nat
  BY ColumnsOfRestored
<1>4. KeepsFields(type, left, right, n, m, n, n) /\ ColumnsOfJoin(type, n, m) = n + 0
  BY RightFields
<1>5. /\ fields = KeptOfJoin(type, left, right, m)
      /\ IsList(fields) /\ InRange(fields, n)
  BY <1>4 DEF KeepsFields
<1>6. ColumnsOfJoin(type, n, m) = n
  BY <1>3, <1>4
<1>7. nodes = <<node>> \o Producer!ProjectFields(n, fields)
  BY <1>6 DEF StraightNodes
<1>8. Len(there.cols) = n
  BY <1>2
<1>. HIDE DEF node, terms, there, fields
<1>9. Head(nodes) = node /\ Tail(nodes) = Producer!ProjectFields(n, fields)
  BY <1>7, HeadAndTail
<1>. HIDE DEF joined
<1>10. Comes(TransformChain(joined, Producer!ProjectFields(n, fields)),
             Pick(there, fields))
  BY <1>1, <1>5, <1>8, ChainOfFields DEF InRange
<1>. QED  BY <1>5, <1>9, <1>10 DEF joined, there, terms

\* A plan whose relation comes back, as a child of a join.
IsSide(p) == Restored(p.consumed, p.logical) /\ JoinIsExact(p)

LEMMA SideIs ==
    ASSUME NEW p, IsSide(p)
    PROVE  \E c, r, m : /\ c = p.consumed /\ r = p.logical /\ Len(r.cols) = m
                        /\ Restored(c, r) /\ IsList(r.cols)
                        /\ Child(p).columns = m
                        /\ Producer!LeftColumnCount(Child(p)) = m
                        /\ \A map : Producer!FillMap(map, Child(p)) = MapOf(map, r)
<1>1. PICK c, r, m : c = p.consumed /\ r = p.logical /\ m = Len(p.logical.cols)
  OBVIOUS
<1>2. Restored(c, r) /\ IsList(r.cols) /\ IsSeq(p.logical.cols) /\ Len(r.cols) = m
  BY <1>1 DEF IsSide, Restored, IsRelation, HasColumns, IsList
<1>3. Child(p).columns = m
  BY <1>1 DEF Child
<1>4. Producer!LeftColumnCount(Child(p)) = m
  BY <1>1, JoinSide DEF IsSide
<1>5. \A map : Producer!FillMap(map, Child(p)) = MapOf(map, r)
  BY <1>1, <1>2, FillsAll
<1>. QED  BY <1>1, <1>2, <1>3, <1>4, <1>5

LEMMA WrittenNodes ==
    ASSUME NEW type, NEW conditions, NEW lmap, NEW rmap,
           NEW children, NEW x, children[1] = x, NEW y, children[2] = y,
           NEW m, x.columns = m, Producer!LeftColumnCount(x) = m,
           NEW n, y.columns = n, Producer!LeftColumnCount(y) = n
    PROVE  /\ ~Producer!Swapped(type) =>
                  Producer!TransformComparisonJoin(type, children, conditions, lmap, rmap)
                      = StraightNodes(type, conditions, Producer!FillMap(lmap, x),
                                      Producer!FillMap(rmap, y), m, n)
           /\ Producer!Swapped(type) =>
                  Producer!TransformComparisonJoin(type, children, conditions, lmap, rmap)
                      = StraightNodes(type, conditions, Producer!FillMap(lmap, x),
                                      Producer!FillMap(rmap, y), n, m)
<1>1. CASE ~Producer!Swapped(type)
  BY <1>1 DEF Producer!TransformComparisonJoin, Producer!GetColumnCount, JoinNode,
              WrittenJoin, FieldsOfJoin, ColumnsOfJoin, StraightNodes
<1>2. CASE Producer!Swapped(type)
  BY <1>2 DEF Producer!TransformComparisonJoin, Producer!GetColumnCount, JoinNode,
              WrittenJoin, FieldsOfJoin, ColumnsOfJoin, StraightNodes
<1>. QED  BY <1>1, <1>2

LEMMA StraightPlanComes ==
    ASSUME menu \in DOMAIN Menus, NEW p, IsSide(p), NEW q, IsSide(q),
           NEW S, S \subseteq Shown(p.logical), NEW T, T \subseteq Shown(q.logical),
           NEW type, ~Producer!Swapped(type), NEW conditions,
           AreJoinConditions(type, conditions, S, T),
           NEW lmap, lmap \in Maps(S), NEW rmap, rmap \in Maps(T),
           type = "MARK" => rmap = <<>> /\ Len(q.logical.cols) = 1,
           NEW children, children[1] = Child(p), children[2] = Child(q),
           NEW nodes,
           nodes = Producer!TransformComparisonJoin(type, children, conditions,
                                                    lmap, rmap)
    PROVE  Comes(TransformChain(TransformJoinOp(p.consumed, q.consumed, Head(nodes)),
                                Tail(nodes)),
                 LogicalJoin(type, p.logical, q.logical, conditions, lmap, rmap))
<1>1. PICK a, l, m : /\ a = p.consumed /\ l = p.logical /\ Len(l.cols) = m
                     /\ Restored(a, l) /\ IsList(l.cols)
                     /\ Child(p).columns = m
                     /\ Producer!LeftColumnCount(Child(p)) = m
                     /\ \A map : Producer!FillMap(map, Child(p)) = MapOf(map, l)
  BY SideIs
<1>2. PICK b, r, n : /\ b = q.consumed /\ r = q.logical /\ Len(r.cols) = n
                     /\ Restored(b, r) /\ IsList(r.cols)
                     /\ Child(q).columns = n
                     /\ Producer!LeftColumnCount(Child(q)) = n
                     /\ \A map : Producer!FillMap(map, Child(q)) = MapOf(map, r)
  BY SideIs
<1>3. PICK left, right : left = MapOf(lmap, l) /\ right = MapOf(rmap, r)
  OBVIOUS
<1>4. S \subseteq Shown(l) /\ T \subseteq Shown(r)
  BY <1>1, <1>2
<1>5. S \subseteq 0..m - 1 /\ T \subseteq 0..n - 1
  BY <1>1, <1>2, <1>4 DEF Shown
<1>6. IsList(left) /\ InRange(left, m)
  BY <1>1, <1>3, <1>5, MapInRange
<1>7. IsList(right) /\ InRange(right, n)
  BY <1>2, <1>3, <1>5, MapInRange
<1>8. type = "MARK" => n = 1 /\ Len(right) = 1
  <2>1. Len(All(r)) = n
    BY <1>2, AllInRange
  <2>. QED  BY <1>2, <1>3, <2>1 DEF MapOf
<1>9. PICK x, y : x = Child(p) /\ y = Child(q)
  OBVIOUS
<1>10. nodes = StraightNodes(type, conditions, left, right, m, n)
  <2>1. /\ children[1] = x /\ children[2] = y
        /\ x.columns = m /\ Producer!LeftColumnCount(x) = m
        /\ y.columns = n /\ Producer!LeftColumnCount(y) = n
    BY <1>1, <1>2, <1>9
  <2>2. nodes = StraightNodes(type, conditions, Producer!FillMap(lmap, x),
                              Producer!FillMap(rmap, y), m, n)
    BY <2>1, WrittenNodes
  <2>3. Producer!FillMap(lmap, x) = left /\ Producer!FillMap(rmap, y) = right
    BY <1>1, <1>2, <1>3, <1>9
  <2>. QED  BY <2>2, <2>3
<1>11. Comes(TransformChain(TransformJoinOp(a, b, Head(nodes)), Tail(nodes)),
             Pick(Join(type, l, r, JoinTerms(conditions, l, r)),
                  KeptOfJoin(type, left, right, m)))
  BY <1>1, <1>2, <1>4, <1>6, <1>7, <1>8, <1>10, StraightJoinComes
<1>12. LogicalJoin(type, l, r, conditions, lmap, rmap)
           = Pick(Join(type, l, r, JoinTerms(conditions, l, r)),
                  KeptOfJoin(type, left, right, m))
  BY <1>1, <1>3, LogicalJoinIs
<1>. QED  BY <1>1, <1>2, <1>11, <1>12

LEMMA SwappedPlanComes ==
    ASSUME menu \in DOMAIN Menus, NEW p, IsSide(p), NEW q, IsSide(q),
           NEW S, S \subseteq Shown(p.logical), NEW T, T \subseteq Shown(q.logical),
           NEW type, Producer!Swapped(type), NEW conditions,
           AreJoinConditions(type, conditions, S, T),
           NEW lmap, NEW rmap, rmap \in Maps(T),
           NEW children, children[1] = Child(p), children[2] = Child(q),
           NEW nodes,
           nodes = Producer!TransformComparisonJoin(type, children, conditions,
                                                    lmap, rmap)
    PROVE  Comes(TransformChain(TransformJoinOp(q.consumed, p.consumed, Head(nodes)),
                                Tail(nodes)),
                 LogicalJoin(type, p.logical, q.logical, conditions, lmap, rmap))
<1>1. PICK a, l, m : /\ a = p.consumed /\ l = p.logical /\ Len(l.cols) = m
                     /\ Restored(a, l) /\ IsList(l.cols)
                     /\ Child(p).columns = m
                     /\ Producer!LeftColumnCount(Child(p)) = m
                     /\ \A map : Producer!FillMap(map, Child(p)) = MapOf(map, l)
  BY SideIs
<1>2. PICK b, r, n : /\ b = q.consumed /\ r = q.logical /\ Len(r.cols) = n
                     /\ Restored(b, r) /\ IsList(r.cols)
                     /\ Child(q).columns = n
                     /\ Producer!LeftColumnCount(Child(q)) = n
                     /\ \A map : Producer!FillMap(map, Child(q)) = MapOf(map, r)
  BY SideIs
<1>3. PICK left, right : left = MapOf(lmap, l) /\ right = MapOf(rmap, r)
  OBVIOUS
<1>4. S \subseteq Shown(l) /\ T \subseteq Shown(r)
  BY <1>1, <1>2
<1>5. T \subseteq 0..n - 1
  BY <1>2, <1>4 DEF Shown
<1>7. IsList(right) /\ InRange(right, n)
  BY <1>2, <1>3, <1>5, MapInRange
<1>9. PICK x, y : x = Child(p) /\ y = Child(q)
  OBVIOUS
<1>10. nodes = StraightNodes(type, conditions, left, right, n, m)
  <2>1. /\ children[1] = x /\ children[2] = y
        /\ x.columns = m /\ Producer!LeftColumnCount(x) = m
        /\ y.columns = n /\ Producer!LeftColumnCount(y) = n
    BY <1>1, <1>2, <1>9
  <2>2. nodes = StraightNodes(type, conditions, Producer!FillMap(lmap, x),
                              Producer!FillMap(rmap, y), n, m)
    BY <2>1, WrittenNodes
  <2>3. Producer!FillMap(lmap, x) = left /\ Producer!FillMap(rmap, y) = right
    BY <1>1, <1>2, <1>3, <1>9
  <2>. QED  BY <2>2, <2>3
<1>11. Comes(TransformChain(TransformJoinOp(b, a, Head(nodes)), Tail(nodes)),
             Pick(Join(type, l, r, JoinTerms(conditions, l, r)),
                  KeptOfJoin(type, left, right, m)))
  BY <1>1, <1>2, <1>4, <1>7, <1>10, SwappedJoinComes
<1>12. LogicalJoin(type, l, r, conditions, lmap, rmap)
           = Pick(Join(type, l, r, JoinTerms(conditions, l, r)),
                  KeptOfJoin(type, left, right, m))
  BY <1>1, <1>3, LogicalJoinIs
<1>. QED  BY <1>1, <1>2, <1>11, <1>12

-----------------------------------------------------------------------------
(* Cross products and set operations.                                      *)

LEMMA CrossComes ==
    ASSUME NEW a, NEW l, Restored(a, l), NEW b, NEW r, Restored(b, r)
    PROVE  Comes(TransformCrossProductOp(a, b), Cross(l, r))
<1> DEFINE rows == <<"cross", l.rows, r.rows>>
           spine == Spine("cross")
<1>1. Restored([rows |-> rows, cols |-> a.cols \o b.cols],
               [rows |-> rows, cols |-> l.cols \o r.cols])
  BY SidesMade
<1>2. Cross(a, b) = [rows |-> rows, cols |-> a.cols \o b.cols]
  BY DEF Cross, Restored
<1>3. Cross(l, r) = [rows |-> rows, cols |-> l.cols \o r.cols]
  BY DEF Cross
<1>4. Restored(Cross(a, b), Cross(l, r))
  BY <1>1, <1>2, <1>3
<1>5. IsList(spine)
  BY SingletonIsList DEF Spine
<1>. HIDE DEF spine
<1>6. Comes(Relation(Cross(a, b), spine), Cross(l, r))
  BY <1>4, <1>5, RelationComes
<1>. QED  BY <1>6 DEF TransformCrossProductOp, spine

\* Relations with the same columns under the same rows.
Equals(r, s) == r.rows = s.rows /\ r.cols = s.cols

\* Nothing in it is hidden.
LEMMA RestoredEquals ==
    ASSUME NEW r, NEW s, Restored(r, s), Shown(s) = 0..Len(s.cols) - 1
    PROVE  Equals(r, s)
<1>1. /\ IsSeq(r.cols) /\ IsSeq(s.cols) /\ Len(r.cols) = Len(s.cols)
      /\ Len(s.cols) \in Nat /\ r.rows = s.rows
  BY ColumnsOfRestored DEF Restored
<1>2. ASSUME NEW k \in 1..Len(s.cols)
      PROVE  r.cols[k] = s.cols[k]
  <2>1. k - 1 \in 0..Len(s.cols) - 1 /\ (k - 1) + 1 = k
    BY <1>1
  <2>2. ~Hidden(s.cols[k])
    BY <2>1 DEF Shown
  <2>. QED  BY <2>2 DEF Restored
<1>3. r.cols = s.cols
  BY <1>1, <1>2 DEF IsSeq
<1>. QED  BY <1>1, <1>3 DEF Equals

LEMMA CombineEquals ==
    ASSUME NEW a, NEW l, Equals(a, l), NEW b, NEW r, Equals(b, r), NEW type, NEW all
    PROVE  /\ Combine(type, all, a, b) = Combine(type, all, l, r)
           /\ Combine(type, all, l, r).rows[3] = all
BY DEF Combine, Equals

SetSteps(f, type, all, inputs) ==
    /\ f[0] = inputs[1]
    /\ \A i \in 1..Len(inputs) - 1 : f[i] = Combine(type, all, f[i - 1], inputs[i + 1])
    /\ SetOperation(type, all, inputs) = f[Len(inputs) - 1]

LEMMA SetStepwise ==
    ASSUME NEW type, NEW all, NEW inputs, IsSeq(inputs), Len(inputs) # 0
    PROVE  \E f : SetSteps(f, type, all, inputs)
<1> DEFINE base == Head(inputs)
           rest == Tail(inputs)
           n == Len(inputs) - 1
           told == [k \in 1..n |->
                       [type |-> type, all |-> all, input |-> rest[k]]]
<1>1. /\ n \in Nat /\ DOMAIN rest = 1..n /\ base = inputs[1]
      /\ \A i \in 1..n : rest[i] = inputs[i + 1]
  <2>1. Len(inputs) \in Nat /\ inputs \in Seq({inputs[i] : i \in 1..Len(inputs)})
    BY DEF IsSeq
  <2>2. n \in Nat /\ DOMAIN rest = 1..n /\ base = inputs[1]
    BY <2>1
  <2>3. inputs # <<>>
    BY <2>1
  <2>4. Len(rest) = n /\ \A i \in 1..Len(rest) : rest[i] = inputs[i + 1]
    BY <2>1, <2>2, <2>3, HeadTailProperties
  <2>. QED  BY <2>2, <2>4
<1>2. ASSUME NEW i \in 1..n, NEW l
      PROVE  CombineWith(l, told[i]) = Combine(type, all, l, rest[i])
  BY DEF CombineWith
<1>. HIDE DEF told, rest, base, n
<1>3. PICK g : SetsOf!IsFold(g, base, told, n)
  BY <1>1, SetsOf!SomeFold
<1> DEFINE IsIter(f) == f = [s \in SUBSET (1..n) |->
                               IF s = {} THEN base
                               ELSE Combine(type, all, f[s \ {Max(s)}],
                                            rest[Max(s)])]
<1>4. ASSUME NEW f
      PROVE  IsIter(f) <=> SetsOf!IsFold(f, base, told, n)
  <2>1. ASSUME NEW s \in SUBSET (1..n), s # {}
        PROVE  /\ Max(s) = SetsOf!Max(s)
               /\ CombineWith(f[s \ {Max(s)}], told[Max(s)])
                      = Combine(type, all, f[s \ {Max(s)}], rest[Max(s)])
    <3>1. Max(s) = SetsOf!Max(s)
      BY DEF Max, SetsOf!Max
    <3>2. Max(s) \in 1..n
      BY <1>1, <2>1, <3>1, SetsOf!MaxIsMember
    <3>. QED  BY <3>1, <3>2, <1>2
  <2>. QED  BY <2>1 DEF SetsOf!IsFold
<1>5. SetOperation(type, all, inputs) = (CHOOSE f : IsIter(f))[1..n]
  BY <1>1 DEF SetOperation, FoldLeft, MapThenFoldSet, base, rest
<1>. HIDE DEF IsIter
<1> DEFINE iter == CHOOSE f : IsIter(f)
<1>6. IsIter(iter)
  BY <1>3, <1>4, Zenon
<1>. HIDE DEF iter
<1>7. SetsOf!IsFold(iter, base, told, n)
  BY <1>4, <1>6
<1>n. n \in Nat
  BY <1>1
<1>14. iter[1..0] = base
  BY <1>n, <1>7, SetsOf!FoldStepwise
<1>15. \A i \in 1..n : iter[1..i] = CombineWith(iter[1..i - 1], told[i])
  BY <1>n, <1>7, SetsOf!FoldStepwise
<1>8. iter[1..0] = base /\ \A i \in 1..n : iter[1..i] = CombineWith(iter[1..i - 1], told[i])
  BY <1>14, <1>15
<1> DEFINE f == [i \in 0..n |-> iter[1..i]]
<1>9. /\ f[0] = iter[1..0] /\ f[n] = iter[1..n]
      /\ \A i \in 1..n : f[i] = iter[1..i] /\ f[i - 1] = iter[1..i - 1]
  BY <1>1
<1>. HIDE DEF f
<1>10. \A i \in 1..n : f[i] = Combine(type, all, f[i - 1], inputs[i + 1])
  BY <1>1, <1>2, <1>8, <1>9
<1>11. SetOperation(type, all, inputs) = f[n]
  BY <1>5, <1>9 DEF iter
<1>12. f[0] = inputs[1]
  BY <1>1, <1>8, <1>9
<1>. QED  BY <1>10, <1>11, <1>12 DEF SetSteps, n

AllEqual(here, there, n) == \A k \in 1..n : Equals(here[k], there[k])

\* Set operations of at least two relations that come back whole.
LEMMA SetOperationEquals ==
    ASSUME NEW n \in Nat, n >= 2,
           NEW here, IsSeq(here), Len(here) = n,
           NEW there, IsSeq(there), Len(there) = n,
           AllEqual(here, there, n), NEW type, NEW all
    PROVE  /\ SetOperation(type, all, here) = SetOperation(type, all, there)
           /\ SetOperation(type, all, there).rows[3] = all
<1>0. Len(here) # 0 /\ Len(there) # 0
  OBVIOUS
<1>1. PICK f : SetSteps(f, type, all, here)
  BY <1>0, SetStepwise
<1>2. PICK g : SetSteps(g, type, all, there)
  BY <1>0, SetStepwise
<1>3. PICK m : m = n - 1
  OBVIOUS
<1>4. m \in Nat /\ m >= 1 /\ n = m + 1
  BY <1>3
<1>5. /\ f[0] = here[1] /\ g[0] = there[1]
      /\ \A i \in 1..m : /\ f[i] = Combine(type, all, f[i - 1], here[i + 1])
                         /\ g[i] = Combine(type, all, g[i - 1], there[i + 1])
      /\ SetOperation(type, all, here) = f[m]
      /\ SetOperation(type, all, there) = g[m]
  BY <1>1, <1>2, <1>3 DEF SetSteps
<1> DEFINE Wrong == {i \in 0..m : ~Equals(f[i], g[i])}
<1>6. ASSUME NEW i \in 1..m, Equals(f[i - 1], g[i - 1])
      PROVE  f[i] = g[i] /\ g[i].rows[3] = all
  <2>1. i + 1 \in 1..n
    BY <1>4
  <2>2. Equals(here[i + 1], there[i + 1])
    BY <2>1 DEF AllEqual
  <2>3. /\ Combine(type, all, f[i - 1], here[i + 1])
               = Combine(type, all, g[i - 1], there[i + 1])
        /\ Combine(type, all, g[i - 1], there[i + 1]).rows[3] = all
    BY <1>6, <2>2, CombineEquals
  <2>. QED  BY <1>5, <2>3
<1>7. Equals(f[0], g[0])
  BY <1>4, <1>5 DEF AllEqual
<1>8. Wrong = {}
  <2>. SUFFICES ASSUME Wrong # {} PROVE FALSE
    OBVIOUS
  <2>1. PICK i \in Wrong : \A j \in Wrong : i <= j
    <3>1. Wrong \subseteq Nat
      OBVIOUS
    <3>. HIDE DEF Wrong
    <3>. QED  BY <3>1, SetsOf!SmallestNat, Zenon
  <2>2. i # 0
    BY <1>7
  <2>3. i \in 1..m /\ i - 1 \in 0..m /\ i - 1 \notin Wrong
    BY <1>4, <2>1, <2>2
  <2>4. f[i] = g[i]
    BY <1>6, <2>3
  <2>. QED  BY <2>4 DEF Equals
<1>9. m \in 1..m /\ m - 1 \in 0..m
  BY <1>4
<1>10. f[m] = g[m] /\ g[m].rows[3] = all
  BY <1>6, <1>8, <1>9
<1>. QED  BY <1>5, <1>10

-----------------------------------------------------------------------------
(* Leaves.                                                                 *)

MaskWith(mask, c) == Append(mask, c.col)
MaskOf == INSTANCE Recursion
          WITH Height <- Rank, Parts <- Inputs, Step <- MaskWith,
               Claim <- HasColumns
FirstColumns(n) == [k \in 1..n |-> k - 1]

LEMMA OneColumnMore ==
    ASSUME NEW n \in Nat, n # 0
    PROVE  Append(FirstColumns(n - 1), n - 1) = FirstColumns(n)
<1> DEFINE s == FirstColumns(n - 1)
           t == FirstColumns(n)
<1>1. /\ IsSeq(s) /\ Len(s) = n - 1 /\ IsSeq(t) /\ Len(t) = n
      /\ \A k \in 1..n - 1 : s[k] = k - 1
      /\ \A k \in 1..n : t[k] = k - 1
  <2>1. s = [k \in 1..n - 1 |-> s[k]] /\ t = [k \in 1..n |-> t[k]] /\ n - 1 \in Nat
    BY DEF FirstColumns
  <2>2. /\ \A k \in 1..n - 1 : s[k] = k - 1
        /\ \A k \in 1..n : t[k] = k - 1
    BY DEF FirstColumns
  <2>. HIDE DEF s, t
  <2>. QED  BY <2>1, <2>2, MadeIsSeq
<1>. HIDE DEF s, t
<1> DEFINE new == Append(s, n - 1)
<1>2. /\ IsSeq(new) /\ Len(new) = n /\ new[n] = n - 1
      /\ \A k \in 1..n - 1 : new[k] = k - 1
  BY <1>1, AppendIsSeq
<1>. HIDE DEF new
<1>3. \A k \in 1..n : new[k] = t[k]
  BY <1>1, <1>2
<1>4. new = t
  BY <1>1, <1>2, <1>3 DEF IsSeq
<1>. QED  BY <1>4 DEF new, s, t

LEMMA MaskOfWhole ==
    ASSUME NEW types, IsSeq(types)
    PROVE  Producer!ReadMask(WholeColumns(types), FALSE) = FirstColumns(Len(types))
<1> DEFINE n == Len(types)
           output == WholeColumns(types)
           add(mask, c) == IF c.col # Producer!RowIdColumn
                           THEN Append(mask, c.col)
                           ELSE IF FALSE THEN Append(mask, 0) ELSE mask
           IsIter(g) == g = [s \in SUBSET (1..n) |->
                               IF s = {} THEN <<>>
                               ELSE add(g[s \ {Producer!Max(s)}],
                                        output[Producer!Max(s)])]
<1>1. n \in Nat /\ DOMAIN output = 1..n
      /\ \A i \in 1..n : output[i] = [col |-> i - 1, part |-> Producer!Whole]
  BY DEF IsSeq, WholeColumns, Part
<1>2. ASSUME NEW i \in 1..n, NEW mask
      PROVE  add(mask, output[i]) = MaskWith(mask, output[i])
  BY <1>1 DEF MaskWith, Producer!RowIdColumn
<1>. HIDE DEF n, output
<1>3. PICK g : MaskOf!IsFold(g, <<>>, output, n)
  BY <1>1, MaskOf!SomeFold
<1>4. ASSUME NEW h
      PROVE  IsIter(h) <=> MaskOf!IsFold(h, <<>>, output, n)
  <2>1. ASSUME NEW s \in SUBSET (1..n), s # {}
        PROVE  /\ Producer!Max(s) = MaskOf!Max(s)
               /\ MaskWith(h[s \ {Producer!Max(s)}], output[Producer!Max(s)])
                      = add(h[s \ {Producer!Max(s)}], output[Producer!Max(s)])
    <3>1. Producer!Max(s) = MaskOf!Max(s)
      BY DEF Producer!Max, MaskOf!Max
    <3>2. Producer!Max(s) \in 1..n
      BY <1>1, <2>1, <3>1, MaskOf!MaxIsMember
    <3>. HIDE DEF add
    <3>. QED  BY <1>2, <3>1, <3>2
  <2>. HIDE DEF add
  <2>. QED  BY <2>1 DEF MaskOf!IsFold
<1>5. Producer!ReadMask(output, FALSE) = (CHOOSE h : IsIter(h))[1..n]
  BY <1>1 DEF Producer!ReadMask, Producer!FoldLeft, Producer!MapThenFoldSet
<1> DEFINE iter == CHOOSE h : IsIter(h)
<1>6. IsIter(iter)
  <2>. HIDE DEF IsIter
  <2>. QED  BY <1>3, <1>4, Zenon
<1>7. MaskOf!IsFold(iter, <<>>, output, n)
  <2>. HIDE DEF IsIter, iter
  <2>. QED  BY <1>4, <1>6
<1>8. Producer!ReadMask(output, FALSE) = iter[1..n]
  BY <1>5
<1>. HIDE DEF iter
<1>n. n \in Nat
  BY <1>1
<1>9. iter[1..0] = <<>>
  BY <1>n, <1>7, MaskOf!FoldStepwise
<1>10. \A i \in 1..n : iter[1..i] = MaskWith(iter[1..i - 1], output[i])
  BY <1>n, <1>7, MaskOf!FoldStepwise
<1> DEFINE Wrong == {i \in 0..n : iter[1..i] # FirstColumns(i)}
<1>11. Wrong = {}
  <2>. SUFFICES ASSUME Wrong # {} PROVE FALSE
    OBVIOUS
  <2>1. PICK i \in Wrong : \A j \in Wrong : i <= j
    <3>1. Wrong \subseteq Nat
      BY <1>n
    <3>. HIDE DEF Wrong
    <3>. QED  BY <3>1, MaskOf!SmallestNat, Zenon
  <2>2. i # 0
    <3>1. FirstColumns(0) = <<>>
      BY DEF FirstColumns
    <3>. QED  BY <1>9, <3>1
  <2>3. i \in 1..n /\ i \in Nat /\ i - 1 \in 0..n /\ i - 1 \notin Wrong
    BY <1>n, <2>1, <2>2
  <2>4. iter[1..i - 1] = FirstColumns(i - 1)
    BY <2>3
  <2>5. iter[1..i] = Append(FirstColumns(i - 1), i - 1)
    BY <1>1, <1>10, <2>3, <2>4 DEF MaskWith
  <2>6. iter[1..i] = FirstColumns(i)
    BY <2>2, <2>3, <2>5, OneColumnMore
  <2>. QED  BY <2>1, <2>6
<1>12. iter[1..n] = FirstColumns(n)
  BY <1>n, <1>11
<1>. QED  BY <1>8, <1>12 DEF n, output

LEMMA AllOfTable ==
    ASSUME NEW types, IsList(types)
    PROVE  Fields(types, FirstColumns(Len(types))) = types
<1> DEFINE n == Len(types)
           t == Fields(types, FirstColumns(n))
<1>1. n \in Nat /\ types = [k \in 1..n |-> types[k]]
  BY DEF IsList, IsSeq
<1>2. t = [k \in 1..n |-> Field(types, k - 1)]
  BY DEF Fields, FirstColumns
<1>3. ASSUME NEW k \in 1..n
      PROVE  Field(types, k - 1) = types[k]
  BY <1>1 DEF Field
<1>4. t = [k \in 1..n |-> types[k]]
  BY <1>2, <1>3
<1>. QED  BY <1>1, <1>4

WholeGet(types) ==
    [column_ids |-> WholeColumns(types), projection_ids |-> <<>>, table_filters |-> {}]
TableRead(name, types) == Table("memory", "main", name, types)

LEMMA TableIs ==
    ASSUME NEW name, NEW types, IsList(types)
    PROVE  /\ TableRead(name, types)
                  = [rows |-> <<"table", "memory", "main", name>>,
                     cols |-> TableRead(name, types).cols]
           /\ IsList(TableRead(name, types).cols)
           /\ Len(TableRead(name, types).cols) = Len(types)
           /\ IsRelation(TableRead(name, types))
<1> DEFINE cols == [k \in DOMAIN types |-> <<"col", name, k, types[k]>>]
           table == TableRead(name, types)
<1>1. table = [rows |-> <<"table", "memory", "main", name>>, cols |-> cols]
  BY DEF TableRead, Table
<1>2. IsList(cols) /\ Len(cols) = Len(types)
  BY EachIsList
<1>. HIDE DEF cols, table
<1>3. table.cols = cols /\ DOMAIN table = {"rows", "cols"}
  BY <1>1
<1>4. IsRelation(table)
  BY <1>2, <1>3 DEF IsRelation, HasColumns
<1>. QED  BY <1>1, <1>2, <1>3, <1>4 DEF table

LEMMA PickAll ==
    ASSUME NEW name, NEW types, IsList(types)
    PROVE  Pick(TableRead(name, types), FirstColumns(Len(types)))
               = TableRead(name, types)
<1>1. PICK table : table = TableRead(name, types)
  OBVIOUS
<1>2. PICK cols : cols = table.cols
  OBVIOUS
<1>3. PICK n : n = Len(types)
  OBVIOUS
<1>4. /\ table = [rows |-> <<"table", "memory", "main", name>>, cols |-> cols]
      /\ IsList(cols) /\ Len(cols) = n
  BY <1>1, <1>2, <1>3, TableIs
<1>5. Fields(cols, FirstColumns(n)) = cols
  BY <1>4, AllOfTable
<1>6. Pick(table, FirstColumns(n)) = [table EXCEPT !.cols = cols]
  BY <1>2, <1>5 DEF Pick
<1>7. [table EXCEPT !.cols = cols] = table
  BY <1>4
<1>. QED  BY <1>1, <1>3, <1>6, <1>7

LEMMA WholeRead ==
    ASSUME NEW name, NEW types, IsList(types)
    PROVE  LET nodes == Producer!TransformGet(name, WholeGet(types))
               read  == TransformReadOp(Head(nodes), types)
           IN  /\ TransformChain(read, Tail(nodes)) = read
               /\ \E spine : IsList(spine) /\ read = Relation(TableRead(name, types), spine)
<1> DEFINE get == WholeGet(types)
           mask == FirstColumns(Len(types))
           node == [rel |-> "read", names |-> <<name>>, filter |-> {},
                    projection |-> mask]
           nodes == Producer!TransformGet(name, get)
<1>1. /\ get.column_ids = WholeColumns(types) /\ get.projection_ids = <<>>
      /\ get.table_filters = {}
  BY DEF WholeGet
<1>2. ASSUME NEW k \in DOMAIN WholeColumns(types)
      PROVE  WholeColumns(types)[k].part = Producer!Whole
  BY DEF WholeColumns, Part
<1>3. Producer!ReadMask(WholeColumns(types), FALSE) = mask
  BY MaskOfWhole DEF IsList
<1>4. Producer!TransformTableFilters({}) = {}
  BY DEF Producer!TransformTableFilters
<1>. HIDE DEF get, mask
<1>5. nodes = Producer!ReadRel(name, {}, mask)
  BY <1>1, <1>2, <1>3 DEF Producer!TransformGet
<1>6. nodes = <<node>>
  BY <1>4, <1>5 DEF Producer!ReadRel
<1>7. /\ node.names[1] = name /\ node.filter = {} /\ node.projection = mask
  OBVIOUS
<1>. HIDE DEF nodes, node
<1>8. Head(nodes) = node /\ Tail(nodes) = <<>>
  BY <1>6
<1>9. mask # <<>>
  <2>1. Len(types) \in Nat /\ Len(types) # 0
    BY DEF IsList, IsSeq
  <2>2. DOMAIN mask = 1..Len(types) /\ 1 \in 1..Len(types)
    BY <2>1 DEF mask, FirstColumns
  <2>. QED  BY <2>2
<1>10. TransformCondition({}) = {}
  BY DEF TransformCondition
<1> DEFINE spine == ProjectionSpine(<<>>) \o <<>> \o Spine("table")
<1>11. TransformReadOp(node, types)
           = Relation(Pick(Filter(TableRead(name, types), {}), mask), spine)
  BY <1>7, <1>9, <1>10 DEF TransformReadOp, TableRead
<1>12. Filter(TableRead(name, types), {}) = TableRead(name, types)
  BY DEF Filter
<1>13. Pick(TableRead(name, types), mask) = TableRead(name, types)
  BY PickAll DEF mask
<1>14. IsList(spine)
  <2>1. IsList(ProjectionSpine(<<>>)) /\ IsList(Spine("table"))
    BY SingletonIsList DEF ProjectionSpine, Spine
  <2>2. IsSeq(<<>>)
    BY DEF IsSeq
  <2>3. PICK a, b : a = ProjectionSpine(<<>>) /\ b = Spine("table")
    OBVIOUS
  <2>4. IsSeq(a) /\ IsList(a) /\ IsList(b) /\ IsSeq(b)
    BY <2>1, <2>3 DEF IsList
  <2>5. IsList(a \o <<>>)
    BY <2>2, <2>4, ConcatIsList
  <2>6. IsList((a \o <<>>) \o b)
    BY <2>4, <2>5, ConcatIsList DEF IsList
  <2>. QED  BY <2>3, <2>6
<1>. HIDE DEF spine
<1>15. TransformChain(TransformReadOp(Head(nodes), types), Tail(nodes))
           = TransformReadOp(Head(nodes), types)
  BY <1>8, ChainOfNone
<1>16. TransformReadOp(Head(nodes), types) = Relation(TableRead(name, types), spine)
  BY <1>8, <1>11, <1>12, <1>13
<1>. QED  BY <1>14, <1>15, <1>16 DEF nodes, get

LEMMA WholeGets ==
    ASSUME ~Menu.reads, NEW types, NEW get \in Gets(types)
    PROVE  get = WholeGet(types)
BY DEF Gets, WholeGet

\* Scans of whole tables.
LEMMA GetComes ==
    ASSUME NEW name, NEW types, IsList(types), NEW table, table = TableRead(name, types),
           NEW cols, IsList(cols), Len(cols) = Len(types),
           \A k \in 1..Len(types) : cols[k] = Field(table.cols, k - 1),
           NEW nodes, nodes = Producer!TransformGet(name, WholeGet(types))
    PROVE  Comes(TransformChain(TransformReadOp(Head(nodes), types), Tail(nodes)),
                 [table EXCEPT !.cols = cols])
<1>1. PICK spine : /\ IsList(spine)
                   /\ TransformChain(TransformReadOp(Head(nodes), types), Tail(nodes))
                          = Relation(table, spine)
  BY WholeRead
<1>2. PICK n : n = Len(types)
  OBVIOUS
<1>3. PICK old : old = table.cols
  OBVIOUS
<1>4. /\ n \in Nat /\ IsList(old) /\ Len(old) = n /\ IsRelation(table)
      /\ table = [rows |-> <<"table", "memory", "main", name>>, cols |-> old]
  BY <1>2, <1>3, TableIs DEF IsList, IsSeq
<1>5. ASSUME NEW k \in 1..n
      PROVE  cols[k] = old[k]
  BY <1>2, <1>3, <1>4 DEF Field
<1>6. cols = old
  BY <1>2, <1>4, <1>5 DEF IsList, IsSeq
<1>7. [table EXCEPT !.cols = cols] = table
  BY <1>4, <1>6
<1>8. Restored(table, table)
  BY <1>4, SameRestored
<1>. QED  BY <1>1, <1>7, <1>8, RelationComes
=============================================================================
