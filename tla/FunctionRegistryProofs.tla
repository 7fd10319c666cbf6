----------------------- MODULE FunctionRegistryProofs -----------------------
(***************************************************************************)
(* Proofs about FunctionRegistry, for any declarations that satisfy its    *)
(* assumptions, ingested in any order, and plans of any number of calls.   *)
(***************************************************************************)
EXTENDS FunctionRegistry, SequenceTheorems, FiniteSetTheorems, TLAPS

-----------------------------------------------------------------------------
(* Declarations.                                                           *)

\* The types of a declaration are a sequence of the length declared.
LEMMA TypesOf ==
    ASSUME NEW d \in Declarations
    PROVE  /\ d.types \in Seq(DOMAIN Canonical)
           /\ DOMAIN Types[d] = 1..Len(d.types)
           /\ DOMAIN d.types = 1..Len(d.types)
           /\ Len(d.types) \in Nat
           /\ d.types = <<>> <=> Len(d.types) = 0
<1>1. d.types \in Seq(DOMAIN Canonical)
  BY RegistryAssumption DEF RegistryAssumption
<1>2. /\ DOMAIN d.types = 1..Len(d.types) /\ Len(d.types) \in Nat
      /\ d.types = <<>> <=> Len(d.types) = 0
  BY <1>1, LenProperties, EmptySeq
<1>3. DOMAIN Types[d] = DOMAIN d.types
  BY DEF Types
<1> QED
  BY <1>1, <1>2, <1>3

\* The number of placeholders of a declaration is a number.
LEMMA CountIsNat ==
    ASSUME NEW d \in Declarations
    PROVE  CountAnyTypes(Types[d]) \in Nat
<1>1. IsFiniteSet(DOMAIN Types[d])
  BY TypesOf, FS_Interval
<1>2. IsFiniteSet({i \in DOMAIN Types[d] : Types[d][i] \in Placeholders})
  BY <1>1, FS_Subset
<1> QED
  BY <1>2, FS_CardinalityType DEF CountAnyTypes

-----------------------------------------------------------------------------
(* The overload maps, of a fixed sequence s of ingested declarations.      *)

Ahead(s, i, j) ==
    LET ci == CountAnyTypes(Types[s[i]])
        cj == CountAnyTypes(Types[s[j]])
    IN  ci < cj \/ (ci = cj /\ j <= i)

BestIn(s, i, candidates) ==
    i \in candidates /\ \A j \in candidates : Ahead(s, i, j)

Claiming(s, keys, k) == {j \in DOMAIN s : k \in keys[s[j]]}

HoldsBestIn(s, overloads, keys) ==
    /\ DOMAIN overloads = UNION {keys[s[i]] : i \in DOMAIN s}
    /\ \A k \in DOMAIN overloads : \E i \in DOMAIN s :
           BestIn(s, i, Claiming(s, keys, k)) /\ overloads[k] = Entry(s[i])

LEMMA AppendIndexes ==
    ASSUME NEW S, NEW s \in Seq(S), NEW d \in S
    PROVE  /\ Append(s, d) \in Seq(S)
           /\ DOMAIN s = 1..Len(s) /\ Len(s) \in Nat
           /\ DOMAIN Append(s, d) = DOMAIN s \cup {Len(s) + 1}
           /\ \A i \in DOMAIN s : /\ Append(s, d)[i] = s[i]
                                  /\ i \in Nat /\ i < Len(s) + 1
                                  /\ s[i] \in S
           /\ Append(s, d)[Len(s) + 1] = d
           /\ Len(s) + 1 \notin DOMAIN s
           /\ Len(Append(s, d)) = Len(s) + 1
OBVIOUS

\* InsertOverload keeps a map right when its declaration is the latest.
LEMMA InsertKeepsBest ==
    ASSUME NEW s \in Seq(Declarations), NEW d \in Declarations,
           NEW m, NEW keys, HoldsBestIn(s, m, keys)
    PROVE  HoldsBestIn(Append(s, d), InsertOverload(m, keys[d], Entry(d)),
                       keys)
<1> DEFINE t == Append(s, d)
           n == Len(s) + 1
           new == InsertOverload(m, keys[d], Entry(d))
<1>1. /\ DOMAIN t = DOMAIN s \cup {n} /\ t[n] = d /\ n \notin DOMAIN s
      /\ \A i \in DOMAIN s : t[i] = s[i] /\ i \in Nat /\ i < n
                             /\ s[i] \in Declarations
      /\ n \in Nat
  BY AppendIndexes
<1>2. DOMAIN new = DOMAIN m \cup keys[d]
  BY DEF InsertOverload
<1>3. DOMAIN m = UNION {keys[s[i]] : i \in DOMAIN s}
  BY DEF HoldsBestIn
<1>4. DOMAIN new = UNION {keys[t[i]] : i \in DOMAIN t}
  <2> HIDE DEF new, t, n
  <2>1. ASSUME NEW k \in DOMAIN new PROVE \E i \in DOMAIN t : k \in keys[t[i]]
    BY <1>1, <1>2, <1>3
  <2>2. ASSUME NEW i \in DOMAIN t, NEW k \in keys[t[i]] PROVE k \in DOMAIN new
    BY <1>1, <1>2, <1>3
  <2> QED
    BY <2>1, <2>2
<1>5. ASSUME NEW k \in DOMAIN new
      PROVE  \E i \in DOMAIN t :
                 BestIn(t, i, Claiming(t, keys, k)) /\ new[k] = Entry(t[i])
  <2> DEFINE claimed == /\ k \in keys[d]
                        /\ ~(/\ k \in DOMAIN m
                             /\ CountAnyTypes(m[k].types)
                                    < CountAnyTypes(Entry(d).types))
  <2>1. new[k] = IF claimed THEN Entry(d) ELSE m[k]
    BY <1>2, <1>5 DEF InsertOverload
  <2>2. \A i \in DOMAIN t : CountAnyTypes(Types[t[i]]) \in Nat
    BY <1>1, CountIsNat
  <2>3. Entry(d).types = Types[d]
    BY DEF Entry
  <2> HIDE DEF new, t, n
  <2>4. CASE claimed
    <3>1. new[k] = Entry(t[n]) /\ n \in Claiming(t, keys, k)
      BY <1>1, <2>1, <2>4 DEF Claiming
    <3>2. ASSUME NEW j \in Claiming(t, keys, k) PROVE Ahead(t, n, j)
      <4>1. CASE j = n
        BY <4>1, <1>1, <2>2 DEF Ahead
      <4>2. CASE j # n
        <5>1. j \in DOMAIN s /\ k \in keys[s[j]] /\ t[j] = s[j] /\ j < n
          BY <4>2, <1>1 DEF Claiming
        <5>2. k \in DOMAIN m
          BY <5>1, <1>3
        <5>3. PICK i \in DOMAIN s : /\ BestIn(s, i, Claiming(s, keys, k))
                                    /\ m[k] = Entry(s[i])
          BY <5>2 DEF HoldsBestIn
        <5>4. m[k].types = Types[s[i]]
          BY <5>3 DEF Entry
        <5>5. ~(CountAnyTypes(Types[s[i]]) < CountAnyTypes(Types[d]))
          BY <5>2, <5>4, <2>3, <2>4
        <5>6. Ahead(s, i, j)
          BY <5>1, <5>3 DEF BestIn, Claiming
        <5>7. CountAnyTypes(Types[s[i]]) <= CountAnyTypes(Types[s[j]])
          BY <5>1, <5>6, <2>2, <1>1 DEF Ahead
        <5>8. CountAnyTypes(Types[t[n]]) <= CountAnyTypes(Types[t[j]])
          BY <5>1, <5>5, <5>7, <2>2, <1>1
        <5> QED
          BY <5>1, <5>8, <2>2, <1>1 DEF Ahead
      <4> QED
        BY <4>1, <4>2
    <3> QED
      BY <3>1, <3>2, <1>1 DEF BestIn
  <2>5. CASE ~claimed
    <3>1. k \in DOMAIN m
      BY <2>5, <1>2
    <3>2. PICK i \in DOMAIN s : /\ BestIn(s, i, Claiming(s, keys, k))
                                /\ m[k] = Entry(s[i])
      BY <3>1 DEF HoldsBestIn
    <3>3. new[k] = Entry(t[i]) /\ i \in Claiming(t, keys, k) /\ i \in DOMAIN t
      BY <2>1, <2>5, <3>2, <1>1 DEF BestIn, Claiming
    <3>4. ASSUME NEW j \in Claiming(t, keys, k) PROVE Ahead(t, i, j)
      <4>1. CASE j = n
        <5>1. k \in keys[d]
          BY <4>1, <1>1 DEF Claiming
        <5>2. CountAnyTypes(m[k].types) < CountAnyTypes(Types[d])
          BY <5>1, <2>5, <2>3
        <5>3. m[k].types = Types[s[i]]
          BY <3>2 DEF Entry
        <5> QED
          BY <4>1, <5>2, <5>3, <1>1 DEF Ahead
      <4>2. CASE j # n
        <5>1. j \in Claiming(s, keys, k)
          BY <4>2, <1>1 DEF Claiming
        <5>2. Ahead(s, i, j) /\ t[i] = s[i] /\ t[j] = s[j]
          BY <5>1, <3>2, <1>1 DEF BestIn, Claiming
        <5> QED
          BY <5>2 DEF Ahead
      <4> QED
        BY <4>1, <4>2
    <3> QED
      BY <3>3, <3>4 DEF BestIn
  <2> QED
    BY <2>4, <2>5
<1> QED
  BY <1>4, <1>5 DEF HoldsBestIn

-----------------------------------------------------------------------------
(* Lookup, with a fixed sequence s of ingested declarations.               *)

AcceptingIn(s, name, types, variadic) ==
    {i \in DOMAIN s : /\ Accepts(s[i], name, types)
                      /\ (s[i].variadic /\ s[i].types # <<>>) = variadic}

MeantIn(s, name, types) ==
    IF AcceptingIn(s, name, types, FALSE) # {}
    THEN AcceptingIn(s, name, types, FALSE)
    ELSE AcceptingIn(s, name, types, TRUE)

\* entry is what a call should be resolved to.
Resolved(s, name, types, entry) ==
    IF MeantIn(s, name, types) = {} THEN entry = Native(name)
    ELSE \E i \in MeantIn(s, name, types) :
             BestIn(s, i, MeantIn(s, name, types)) /\ entry = Entry(s[i])

\* A call without arguments is accepted by those in any_arg_functions.
LEMMA AnyArgClaims ==
    ASSUME NEW s \in Seq(Declarations), NEW name
    PROVE  /\ AcceptingIn(s, name, <<>>, FALSE) =
                  Claiming(s, AnyArgKeys, <<name, <<>>>>)
           /\ AcceptingIn(s, name, <<>>, TRUE) = {}
<1>1. ASSUME NEW i \in DOMAIN s
      PROVE  /\ s[i] \in Declarations
             /\ s[i].variadic \in BOOLEAN
             /\ Accepts(s[i], name, <<>>) <=>
                    s[i].name = name /\ s[i].types = <<>>
             /\ <<name, <<>>>> \in AnyArgKeys[s[i]] <=>
                    s[i].name = name /\ s[i].types = <<>>
  <2>1. s[i] \in Declarations
    BY ElementOfSeq
  <2>2. s[i].variadic \in BOOLEAN
    BY <2>1, RegistryAssumption DEF RegistryAssumption
  <2>3. Accepts(s[i], name, <<>>) <=> s[i].name = name /\ s[i].types = <<>>
    <3>1. CASE s[i].variadic /\ s[i].types # <<>>
      BY <3>1 DEF Accepts
    <3>2. CASE ~(s[i].variadic /\ s[i].types # <<>>)
      <4>1. Accepts(s[i], name, <<>>) <=>
                /\ s[i].name = name
                /\ Len(<<>>) = Len(s[i].types)
                /\ \A j \in DOMAIN <<>> : <<>>[j] \in Expand(Types[s[i]][j])
        BY <3>2 DEF Accepts
      <4>2. Len(<<>>) = 0 /\ \A j \in DOMAIN <<>> : FALSE
        OBVIOUS
      <4> QED
        BY <4>1, <4>2, <2>1, TypesOf
    <3> QED
      BY <3>1, <3>2
  <2>4. <<name, <<>>>> \in AnyArgKeys[s[i]] <=>
            s[i].name = name /\ s[i].types = <<>>
    BY <2>1 DEF AnyArgKeys
  <2> QED
    BY <2>1, <2>2, <2>3, <2>4
<1> QED
  BY <1>1 DEF AcceptingIn, Claiming

\* A call with arguments is accepted by those that claim it in
\* custom_functions, or in variadic_functions.
LEMMA CustomClaims ==
    ASSUME NEW s \in Seq(Declarations), NEW name,
           NEW types \in Seq(Kinds), types # <<>>
    PROVE  AcceptingIn(s, name, types, FALSE) =
               Claiming(s, CustomKeys, <<name, types>>)
<1> DEFINE n == Len(types)
<1>1. n \in Nat /\ DOMAIN types = 1..n /\ n # 0
  BY LenProperties, EmptySeq
<1>2. ASSUME NEW i \in DOMAIN s
      PROVE  (/\ Accepts(s[i], name, types)
              /\ (s[i].variadic /\ s[i].types # <<>>) = FALSE)
             <=> <<name, types>> \in CustomKeys[s[i]]
  <2> DEFINE d == s[i]
  <2>1. d \in Declarations
    BY ElementOfSeq
  <2>2. d.variadic \in BOOLEAN
    BY <2>1, RegistryAssumption DEF RegistryAssumption
  <2>3. types \in Leaves(Types[d]) <=>
            /\ Len(types) = Len(d.types)
            /\ \A j \in DOMAIN types : types[j] \in Expand(Types[d][j])
    <3>1. /\ DOMAIN Types[d] = 1..Len(d.types) /\ Len(d.types) \in Nat
      BY <2>1, TypesOf
    <3>2. ASSUME types \in Leaves(Types[d])
          PROVE  /\ Len(types) = Len(d.types)
                 /\ \A j \in DOMAIN types : types[j] \in Expand(Types[d][j])
      <4>1. DOMAIN types = DOMAIN Types[d]
        BY <3>2 DEF Leaves
      <4>2. 1..n = 1..Len(d.types)
        BY <4>1, <3>1, <1>1
      <4>3. n = Len(d.types)
        BY <4>2, <3>1, <1>1
      <4> QED
        BY <4>1, <4>3, <3>2 DEF Leaves
    <3>3. ASSUME Len(types) = Len(d.types),
                 \A j \in DOMAIN types : types[j] \in Expand(Types[d][j])
          PROVE  types \in Leaves(Types[d])
      <4>1. DOMAIN types = DOMAIN Types[d]
        BY <3>1, <3>3, <1>1
      <4>2. types = [j \in DOMAIN Types[d] |-> types[j]]
        BY <4>1
      <4>3. \A j \in DOMAIN Types[d] :
                types[j] \in UNION {Expand(Types[d][l]) : l \in DOMAIN Types[d]}
        BY <4>1, <3>3
      <4>4. types \in [DOMAIN Types[d] ->
                       UNION {Expand(Types[d][l]) : l \in DOMAIN Types[d]}]
        BY <4>2, <4>3
      <4> QED
        BY <4>1, <4>4, <3>3 DEF Leaves
    <3> QED
      BY <3>2, <3>3
  <2>4. <<name, types>> \in CustomKeys[d] <=>
            /\ ~d.variadic /\ d.types # <<>>
            /\ d.name = name /\ types \in Leaves(Types[d])
    BY <2>1 DEF CustomKeys
  <2>5. Len(types) = Len(d.types) => d.types # <<>>
    BY <1>1, <2>1, TypesOf
  <2>6. CASE d.variadic /\ d.types # <<>>
    BY <2>6, <2>4
  <2>7. CASE ~(d.variadic /\ d.types # <<>>)
    <3>1. Accepts(d, name, types) <=>
              /\ d.name = name
              /\ Len(types) = Len(d.types)
              /\ \A j \in DOMAIN types : types[j] \in Expand(Types[d][j])
      BY <2>7 DEF Accepts
    <3>2. ((d.variadic /\ d.types # <<>>) = FALSE) <=> TRUE
      BY <2>7
    <3> QED
      BY <3>1, <3>2, <2>2, <2>3, <2>4, <2>5, <2>7
  <2> QED
    BY <2>6, <2>7
<1> QED
  BY <1>2 DEF AcceptingIn, Claiming

\* Whoever claims the one type of a call accepts it if it is long enough.
LEMMA VariadicClaims ==
    ASSUME NEW s \in Seq(Declarations), NEW name,
           NEW types \in Seq(Kinds), types # <<>>
    PROVE  AcceptingIn(s, name, types, TRUE) =
               {i \in Claiming(s, VariadicKeys, <<name, <<types[1]>>>>) :
                   /\ PossiblyVariadic(types)
                   /\ Len(types) >= MinArguments(s[i])}
<1>1. ASSUME NEW i \in DOMAIN s
      PROVE  (/\ Accepts(s[i], name, types)
              /\ (s[i].variadic /\ s[i].types # <<>>) = TRUE)
             <=> /\ <<name, <<types[1]>>>> \in VariadicKeys[s[i]]
                 /\ PossiblyVariadic(types)
                 /\ Len(types) >= MinArguments(s[i])
  <2> DEFINE d == s[i]
  <2>1. d \in Declarations
    BY ElementOfSeq
  <2>2. d.variadic \in BOOLEAN
    BY <2>1, RegistryAssumption DEF RegistryAssumption
  <2>3. <<name, <<types[1]>>>> \in VariadicKeys[d] <=>
            /\ d.variadic /\ d.types # <<>>
            /\ d.name = name /\ types[1] \in Expand(Last(Types[d]))
    BY <2>1 DEF VariadicKeys
  <2>4. CASE d.variadic /\ d.types # <<>>
    <3>1. Accepts(d, name, types) <=>
              /\ d.name = name
              /\ PossiblyVariadic(types)
              /\ types[1] \in Expand(Last(Types[d]))
              /\ Len(types) >= MinArguments(d)
      BY <2>4 DEF Accepts
    <3> QED
      BY <3>1, <2>3, <2>4
  <2>5. CASE ~(d.variadic /\ d.types # <<>>)
    BY <2>5, <2>3
  <2> QED
    BY <2>4, <2>5
<1> QED
  BY <1>1 DEF AcceptingIn, Claiming

\* Get resolves a call as the declarations demand.
LEMMA GetResolves ==
    ASSUME ingested \in Seq(Declarations), OverloadsAreMostSpecific,
           NEW name, NEW types \in Seq(Kinds)
    PROVE  Resolved(ingested, name, types, Get(name, types))
<1> DEFINE fixed == AcceptingIn(ingested, name, types, FALSE)
           variadic == AcceptingIn(ingested, name, types, TRUE)
<1>4. ASSUME NEW k
      PROVE  /\ k \in DOMAIN any_arg_functions <=>
                    Claiming(ingested, AnyArgKeys, k) # {}
             /\ k \in DOMAIN any_arg_functions =>
                    \E i \in Claiming(ingested, AnyArgKeys, k) :
                        /\ BestIn(ingested, i, Claiming(ingested, AnyArgKeys, k))
                        /\ any_arg_functions[k] = Entry(ingested[i])
  <2>1. HoldsBestIn(ingested, any_arg_functions, AnyArgKeys)
    BY DEF OverloadsAreMostSpecific, HoldsBest, HoldsBestIn, Best, BestIn,
           AtLeastAsSpecific, Ahead, Claiming
  <2>2. k \in DOMAIN any_arg_functions <=> Claiming(ingested, AnyArgKeys, k) # {}
    BY <2>1 DEF HoldsBestIn, Claiming
  <2>3. ASSUME k \in DOMAIN any_arg_functions
        PROVE  \E i \in Claiming(ingested, AnyArgKeys, k) :
                   /\ BestIn(ingested, i, Claiming(ingested, AnyArgKeys, k))
                   /\ any_arg_functions[k] = Entry(ingested[i])
    BY <2>1, <2>3 DEF HoldsBestIn, BestIn
  <2> QED
    BY <2>2, <2>3
<1>5. ASSUME NEW k
      PROVE  /\ k \in DOMAIN variadic_functions <=>
                    Claiming(ingested, VariadicKeys, k) # {}
             /\ k \in DOMAIN variadic_functions =>
                    \E i \in Claiming(ingested, VariadicKeys, k) :
                        /\ BestIn(ingested, i, Claiming(ingested, VariadicKeys, k))
                        /\ variadic_functions[k] = Entry(ingested[i])
  <2>1. HoldsBestIn(ingested, variadic_functions, VariadicKeys)
    BY DEF OverloadsAreMostSpecific, HoldsBest, HoldsBestIn, Best, BestIn,
           AtLeastAsSpecific, Ahead, Claiming
  <2>2. k \in DOMAIN variadic_functions <=> Claiming(ingested, VariadicKeys, k) # {}
    BY <2>1 DEF HoldsBestIn, Claiming
  <2>3. ASSUME k \in DOMAIN variadic_functions
        PROVE  \E i \in Claiming(ingested, VariadicKeys, k) :
                   /\ BestIn(ingested, i, Claiming(ingested, VariadicKeys, k))
                   /\ variadic_functions[k] = Entry(ingested[i])
    BY <2>1, <2>3 DEF HoldsBestIn, BestIn
  <2> QED
    BY <2>2, <2>3
<1>6. ASSUME NEW k
      PROVE  /\ k \in DOMAIN custom_functions <=>
                    Claiming(ingested, CustomKeys, k) # {}
             /\ k \in DOMAIN custom_functions =>
                    \E i \in Claiming(ingested, CustomKeys, k) :
                        /\ BestIn(ingested, i, Claiming(ingested, CustomKeys, k))
                        /\ custom_functions[k] = Entry(ingested[i])
  <2>1. HoldsBestIn(ingested, custom_functions, CustomKeys)
    BY DEF OverloadsAreMostSpecific, HoldsBest, HoldsBestIn, Best, BestIn,
           AtLeastAsSpecific, Ahead, Claiming
  <2>2. k \in DOMAIN custom_functions <=> Claiming(ingested, CustomKeys, k) # {}
    BY <2>1 DEF HoldsBestIn, Claiming
  <2>3. ASSUME k \in DOMAIN custom_functions
        PROVE  \E i \in Claiming(ingested, CustomKeys, k) :
                   /\ BestIn(ingested, i, Claiming(ingested, CustomKeys, k))
                   /\ custom_functions[k] = Entry(ingested[i])
    BY <2>1, <2>3 DEF HoldsBestIn, BestIn
  <2> QED
    BY <2>2, <2>3
<1>2. CASE types = <<>>
  <2> DEFINE k == <<name, <<>>>>
  <2>1. fixed = Claiming(ingested, AnyArgKeys, k) /\ variadic = {}
    BY <1>2, AnyArgClaims
  <2>2. Get(name, types) = IF k \in DOMAIN any_arg_functions
                           THEN any_arg_functions[k] ELSE Native(name)
    BY <1>2 DEF Get
  <2>3. /\ k \in DOMAIN any_arg_functions <=> fixed # {}
        /\ k \in DOMAIN any_arg_functions =>
               \E i \in fixed : /\ BestIn(ingested, i, fixed)
                                /\ any_arg_functions[k] = Entry(ingested[i])
    BY <1>4, <2>1
  <2> HIDE DEF k
  <2> QED
    BY <2>1, <2>2, <2>3 DEF Resolved, MeantIn
<1>3. CASE types # <<>>
  <2> DEFINE k == <<name, types>>
             v == <<name, <<types[1]>>>>
             claiming == Claiming(ingested, VariadicKeys, v)
             long == /\ PossiblyVariadic(types)
                     /\ v \in DOMAIN variadic_functions
                     /\ Len(types) >= variadic_functions[v].min_arguments
  <2>1. fixed = Claiming(ingested, CustomKeys, k)
    BY <1>3, CustomClaims
  <2>2. variadic = {i \in claiming : /\ PossiblyVariadic(types)
                                     /\ Len(types) >= MinArguments(ingested[i])}
    BY <1>3, VariadicClaims
  <2>3. /\ k \in DOMAIN custom_functions <=> fixed # {}
        /\ k \in DOMAIN custom_functions =>
               \E i \in fixed : /\ BestIn(ingested, i, fixed)
                                /\ custom_functions[k] = Entry(ingested[i])
    BY <1>6, <2>1
  <2>4. /\ v \in DOMAIN variadic_functions <=> claiming # {}
        /\ v \in DOMAIN variadic_functions =>
               \E i \in claiming : /\ BestIn(ingested, i, claiming)
                                   /\ variadic_functions[v] = Entry(ingested[i])
    BY <1>5
  <2>5. Get(name, types) =
            IF k \in DOMAIN custom_functions THEN custom_functions[k]
            ELSE IF long THEN variadic_functions[v] ELSE Native(name)
    BY <1>3 DEF Get
  <2>6. \A i, j \in claiming : MinArguments(ingested[i]) = MinArguments(ingested[j])
    <3> SUFFICES ASSUME NEW i \in claiming, NEW j \in claiming
                 PROVE  MinArguments(ingested[i]) = MinArguments(ingested[j])
      OBVIOUS
    <3>1. ingested[i] \in Declarations /\ ingested[j] \in Declarations
      BY ElementOfSeq DEF Claiming
    <3>2. \A l \in claiming :
              /\ ingested[l].variadic /\ ingested[l].types # <<>> /\ ingested[l].name = name
              /\ types[1] \in Expand(Last(Types[ingested[l]]))
      <4> SUFFICES ASSUME NEW l \in claiming
                   PROVE  /\ ingested[l].variadic /\ ingested[l].types # <<>>
                          /\ ingested[l].name = name
                          /\ types[1] \in Expand(Last(Types[ingested[l]]))
        OBVIOUS
      <4>1. ingested[l] \in Declarations /\ v \in VariadicKeys[ingested[l]]
        BY ElementOfSeq DEF Claiming
      <4> QED
        BY <4>1 DEF VariadicKeys
    <3> QED
      BY <3>1, <3>2, DeclarationAssumption DEF DeclarationAssumption
  <2>7. CASE k \in DOMAIN custom_functions
    <3> HIDE DEF k
    <3> QED
      BY <2>3, <2>5, <2>7 DEF Resolved, MeantIn
  <2>8. CASE k \notin DOMAIN custom_functions /\ long
    <3>1. PICK i \in claiming : /\ BestIn(ingested, i, claiming)
                                /\ variadic_functions[v] = Entry(ingested[i])
      BY <2>4, <2>8
    <3>2. Entry(ingested[i]).min_arguments = MinArguments(ingested[i])
      BY DEF Entry
    <3>3. Len(types) >= MinArguments(ingested[i])
      BY <2>8, <3>1, <3>2
    <3>4. variadic = claiming
      BY <2>2, <2>6, <2>8, <3>3
    <3>5. fixed = {} /\ Get(name, types) = Entry(ingested[i])
      BY <2>3, <2>5, <2>8, <3>1
    <3> HIDE DEF fixed, variadic, claiming
    <3>6. MeantIn(ingested, name, types) = claiming
      BY <3>4, <3>5 DEF MeantIn, fixed, variadic
    <3> QED
      BY <3>1, <3>5, <3>6 DEF Resolved
  <2>9. CASE k \notin DOMAIN custom_functions /\ ~long
    <3>1. variadic = {}
      <4> SUFFICES ASSUME NEW i \in variadic PROVE FALSE
        OBVIOUS
      <4>1. i \in claiming /\ PossiblyVariadic(types)
            /\ Len(types) >= MinArguments(ingested[i])
        BY <2>2
      <4>2. PICK j \in claiming : variadic_functions[v] = Entry(ingested[j])
        BY <2>4, <4>1
      <4>3. Entry(ingested[j]).min_arguments = MinArguments(ingested[j])
        BY DEF Entry
      <4>4. variadic_functions[v].min_arguments = MinArguments(ingested[i])
        BY <2>6, <4>1, <4>2, <4>3
      <4>5. v \in DOMAIN variadic_functions
        BY <2>4, <4>1
      <4> QED
        BY <2>9, <4>1, <4>4, <4>5
    <3>2. fixed = {} /\ Get(name, types) = Native(name)
      BY <2>3, <2>5, <2>9
    <3> QED
      BY <3>1, <3>2 DEF Resolved, MeantIn
  <2> QED
    BY <2>7, <2>8, <2>9
<1> QED
  BY <1>2, <1>3

-----------------------------------------------------------------------------
(* The inductive invariant.  References and anchors are positions in the   *)
(* plan's lists, every declaration in the plan is that of some entry, and  *)
(* every call refers to the declaration of the entry it resolves to.       *)

CallNames == {c.name : c \in Calls}
Entries == {Entry(d) : d \in Declarations} \cup {Native(n) : n \in CallNames}
DeclaredNames == {GetName(e) : e \in Entries}
Urns == {d.urn : d \in Declarations}

Extensions == [function_anchor : Nat, name : DeclaredNames,
               extension_urn_reference : Nat]
ExtensionUrns == [urn : Urns, extension_urn_anchor : Nat]
CallRecords == [name : CallNames, types : Seq(Kinds), function_reference : Nat]

\* The reference ref is that of entry's extension.
UrnRight(entry, ref, urns) ==
    IF IsNative(entry) THEN ref = 0
    ELSE ref \in DOMAIN urns /\ urns[ref].urn = entry.urn

\* ext declares entry.
Declares(ext, entry, urns) ==
    /\ ext.name = GetName(entry)
    /\ UrnRight(entry, ext.extension_urn_reference, urns)

UrnsInv ==
    /\ extension_urns \in Seq(ExtensionUrns)
    /\ last_urn_id = Len(extension_urns) + 1
    /\ \A i \in DOMAIN extension_urns :
           extension_urns[i].extension_urn_anchor = i
    /\ \A u \in DOMAIN extension_urn_map :
           /\ extension_urn_map[u] \in DOMAIN extension_urns
           /\ extension_urns[extension_urn_map[u]].urn = u

ExtensionsInv ==
    /\ extensions \in Seq(Extensions)
    /\ last_function_id = Len(extensions) + 1
    /\ \A i \in DOMAIN extensions :
           /\ extensions[i].function_anchor = i
           /\ \E e \in Entries : Declares(extensions[i], e, extension_urns)
    /\ \A n \in DOMAIN functions_map :
           /\ functions_map[n] \in DOMAIN extensions
           /\ extensions[functions_map[n]].name = n

CallsInv ==
    /\ calls \in Seq(CallRecords)
    /\ \A c \in DOMAIN calls :
           /\ calls[c].function_reference \in DOMAIN extensions
           /\ \E e \in Entries :
                  /\ Resolved(ingested, calls[c].name, calls[c].types, e)
                  /\ Declares(extensions[calls[c].function_reference], e,
                              extension_urns)
    /\ \A i \in DOMAIN extensions : \E c \in DOMAIN calls :
           calls[c].function_reference = i

\* Errors are there in strict mode for a native function, and only then.
ErrorsInv ==
    /\ strict \in BOOLEAN
    /\ errors # {} <=>
           strict /\ \E i \in DOMAIN extensions :
                         extensions[i].extension_urn_reference = 0

PhaseInv ==
    /\ phase \in {"ingest", "transform", "done", "failed", "read"}
    /\ phase = "ingest" => calls = <<>> /\ extensions = <<>>
    /\ phase = "failed" => strict /\ errors # {}
    /\ phase \in {"done", "read"} => ~(strict /\ errors # {})
    /\ phase = "read" => \A i \in DOMAIN extensions :
           /\ i \in DOMAIN function_names
           /\ function_names[i] = extensions[i].name

IInv ==
    /\ ingested \in Seq(Declarations)
    /\ OverloadsAreMostSpecific
    /\ UrnsInv /\ ExtensionsInv /\ CallsInv /\ ErrorsInv /\ PhaseInv

-----------------------------------------------------------------------------
(* Entries and names.                                                      *)

\* What Get returns is an entry, and it has the name of the call.
LEMMA ResolvedIsEntry ==
    ASSUME NEW s \in Seq(Declarations), NEW name \in CallNames, NEW types,
           NEW e, Resolved(s, name, types, e)
    PROVE  e \in Entries /\ e.name = name
<1>1. CASE MeantIn(s, name, types) = {}
  BY <1>1 DEF Resolved, Entries, Native
<1>2. CASE MeantIn(s, name, types) # {}
  <2>1. PICK i \in MeantIn(s, name, types) : e = Entry(s[i])
    BY <1>2 DEF Resolved
  <2>2. i \in DOMAIN s /\ Accepts(s[i], name, types)
    BY DEF MeantIn, AcceptingIn
  <2>3. s[i] \in Declarations
    BY <2>2, ElementOfSeq
  <2>4. s[i].name = name
    BY <2>2 DEF Accepts
  <2> QED
    BY <2>1, <2>3, <2>4 DEF Entries, Entry
<1> QED
  BY <1>1, <1>2

\* Entries of declarations are not native.
LEMMA EntryKinds ==
    ASSUME NEW e \in Entries
    PROVE  /\ IsNative(e) => GetName(e) = BareName(e.name)
           /\ ~IsNative(e) => \E d \in Declarations :
                  /\ e = Entry(d) /\ e.urn = d.urn /\ e.urn \in Urns
                  /\ GetName(e) = CompoundName(d.name, Types[d])
<1>1. IsNative(e) => GetName(e) = BareName(e.name)
  BY DEF GetName
<1>2. ASSUME ~IsNative(e)
      PROVE  \E d \in Declarations :
                  /\ e = Entry(d) /\ e.urn = d.urn /\ e.urn \in Urns
                  /\ GetName(e) = CompoundName(d.name, Types[d])
  <2>1. PICK d \in Declarations : e = Entry(d)
    BY <1>2 DEF Entries, Native, IsNative
  <2>2. e.urn = d.urn /\ e.name = d.name /\ e.types = Types[d]
    BY <2>1 DEF Entry
  <2>3. GetName(e) = CompoundName(d.name, Types[d])
    BY <1>2, <2>2 DEF GetName
  <2> QED
    BY <2>1, <2>2, <2>3 DEF Urns
<1> QED
  BY <1>1, <1>2

LEMMA DeclarationNotNative ==
    ASSUME NEW d \in Declarations
    PROVE  ~IsNative(Entry(d)) /\ IsNative(Native(d.name))
<1>1. d.urn # "native"
  BY RegistryAssumption DEF RegistryAssumption
<1> QED
  BY <1>1 DEF Entry, Native, IsNative

\* A bare name is not a compound one.
LEMMA BareIsNotCompound ==
    ASSUME NEW n, NEW m, NEW types
    PROVE  BareName(n) # CompoundName(m, types)
<1>1. Len(BareName(n)) = 1
  BY DEF BareName
<1>2. Len(CompoundName(m, types)) = 2
  BY DEF CompoundName
<1> QED
  BY <1>1, <1>2

\* Entries of one declared name have one extension.
LEMMA NameDeterminesUrn ==
    ASSUME NEW e \in Entries, NEW f \in Entries, GetName(e) = GetName(f)
    PROVE  /\ IsNative(e) <=> IsNative(f)
           /\ ~IsNative(e) => e.urn = f.urn
<1>1. IsNative(e) <=> IsNative(f)
  BY EntryKinds, BareIsNotCompound
<1>2. ASSUME ~IsNative(e) PROVE e.urn = f.urn
  <2>1. PICK d \in Declarations : e.urn = d.urn
                     /\ GetName(e) = CompoundName(d.name, Types[d])
    BY <1>2, EntryKinds
  <2>2. PICK c \in Declarations : f.urn = c.urn
                     /\ GetName(f) = CompoundName(c.name, Types[c])
    BY <1>1, <1>2, EntryKinds
  <2> QED
    BY <2>1, <2>2, DeclarationAssumption DEF DeclarationAssumption
<1> QED
  BY <1>1, <1>2

\* A declared name begins with the function's name.
LEMMA NameOfEntry ==
    ASSUME NEW e
    PROVE  RemoveExtension(GetName(e)) = e.name
BY DEF RemoveExtension, GetName, BareName, CompoundName

LEMMA SameNameSameDeclaration ==
    ASSUME NEW e \in Entries, NEW f \in Entries, NEW ext, NEW urns,
           Declares(ext, f, urns), ext.name = GetName(e)
    PROVE  Declares(ext, e, urns)
<1>1. GetName(e) = GetName(f)
  BY DEF Declares
<1>2. /\ IsNative(e) <=> IsNative(f)
      /\ ~IsNative(e) => e.urn = f.urn
  BY <1>1, NameDeterminesUrn
<1> QED
  BY <1>1, <1>2 DEF Declares, UrnRight

-----------------------------------------------------------------------------
(* The steps of a call.                                                    *)

LEMMA UrnsStep ==
    ASSUME UrnsInv, NEW entry \in Entries, AddExtensionUrn(entry)
    PROVE  /\ UrnsInv'
           /\ \A f, ref : UrnRight(f, ref, extension_urns)
                              => UrnRight(f, ref, extension_urns')
           /\ ~IsNative(entry) =>
                  UrnRight(entry, extension_urn_map'[entry.urn],
                           extension_urns')
<1>1. CASE IsNative(entry) \/ entry.urn \in DOMAIN extension_urn_map
  <2>1. UNCHANGED <<extension_urns, extension_urn_map, last_urn_id>>
    BY <1>1 DEF AddExtensionUrn
  <2>2. UrnsInv'
    BY <2>1 DEF UrnsInv
  <2>3. ~IsNative(entry) => entry.urn \in DOMAIN extension_urn_map
    BY <1>1
  <2> QED
    BY <2>1, <2>2, <2>3 DEF UrnRight, UrnsInv
<1>2. CASE ~(IsNative(entry) \/ entry.urn \in DOMAIN extension_urn_map)
  <2> DEFINE n == Len(extension_urns) + 1
             new == [urn |-> entry.urn, extension_urn_anchor |-> last_urn_id]
  <2>1. /\ extension_urns' = Append(extension_urns, new)
        /\ extension_urn_map' =
               [u \in DOMAIN extension_urn_map \cup {entry.urn} |->
                   IF u = entry.urn THEN last_urn_id
                   ELSE extension_urn_map[u]]
        /\ last_urn_id' = last_urn_id + 1
    BY <1>2 DEF AddExtensionUrn
  <2>2. extension_urns \in Seq(ExtensionUrns) /\ last_urn_id = n
    BY DEF UrnsInv
  <2>3. n \in Nat
    BY <2>2, LenProperties
  <2>4. new \in ExtensionUrns
    BY <1>2, <2>2, <2>3, EntryKinds DEF ExtensionUrns
  <2>5. /\ extension_urns' \in Seq(ExtensionUrns)
        /\ DOMAIN extension_urns' = DOMAIN extension_urns \cup {n}
        /\ \A i \in DOMAIN extension_urns :
               extension_urns'[i] = extension_urns[i]
        /\ extension_urns'[n] = new
        /\ Len(extension_urns') = n
    <3> HIDE DEF new
    <3> QED
      BY <2>1, <2>2, <2>4, AppendIndexes
  <2>6. \A i \in DOMAIN extension_urns' :
            extension_urns'[i].extension_urn_anchor = i
    BY <2>2, <2>5 DEF UrnsInv
  <2>7. ASSUME NEW u \in DOMAIN extension_urn_map'
        PROVE  /\ extension_urn_map'[u] \in DOMAIN extension_urns'
               /\ extension_urns'[extension_urn_map'[u]].urn = u
    <3>1. CASE u = entry.urn
      BY <3>1, <2>1, <2>2, <2>5
    <3>2. CASE u # entry.urn
      <4>1. u \in DOMAIN extension_urn_map
            /\ extension_urn_map'[u] = extension_urn_map[u]
        BY <3>2, <2>1
      <4> QED
        BY <4>1, <2>5 DEF UrnsInv
    <3> QED
      BY <3>1, <3>2
  <2>8. UrnsInv'
    BY <2>1, <2>2, <2>3, <2>5, <2>6, <2>7 DEF UrnsInv
  <2>9. entry.urn \in DOMAIN extension_urn_map'
    BY <2>1
  <2> QED
    BY <2>5, <2>7, <2>8, <2>9 DEF UrnRight
<1> QED
  BY <1>1, <1>2

\* Adding the declaration of entry: it is there afterwards, what was there
\* stays, and only a new declaration may be an error.
LEMMA ExtensionsStep ==
    ASSUME UrnsInv, ExtensionsInv, NEW entry \in Entries,
           AddExtensionUrn(entry), AddExtension(entry)
    PROVE  /\ ExtensionsInv'
           /\ DOMAIN extensions \subseteq DOMAIN extensions'
           /\ \A i \in DOMAIN extensions : extensions'[i] = extensions[i]
           /\ functions_map'[GetName(entry)] \in DOMAIN extensions'
           /\ Declares(extensions'[functions_map'[GetName(entry)]], entry,
                       extension_urns')
           /\ \/ extensions' = extensions /\ errors' = errors
              \/ /\ DOMAIN extensions' = DOMAIN extensions \cup
                                             {functions_map'[GetName(entry)]}
                 /\ errors' = errors \cup
                        (IF strict /\ IsNative(entry)
                         THEN {GetName(entry)} ELSE {})
<1> DEFINE name == GetName(entry)
<1>1. /\ \A f, ref : UrnRight(f, ref, extension_urns)
                         => UrnRight(f, ref, extension_urns')
      /\ ~IsNative(entry) => UrnRight(entry, extension_urn_map'[entry.urn],
                                      extension_urns')
      /\ UrnsInv'
  BY UrnsStep
<1>2. \A ext, f : Declares(ext, f, extension_urns)
                      => Declares(ext, f, extension_urns')
  BY <1>1 DEF Declares
<1>3. CASE name \in DOMAIN functions_map
  <2>1. UNCHANGED <<extensions, functions_map, last_function_id, errors>>
    BY <1>3 DEF AddExtension
  <2>2. ExtensionsInv'
    <3>1. \A i \in DOMAIN extensions :
              \E e \in Entries : Declares(extensions[i], e, extension_urns')
      BY <1>2 DEF ExtensionsInv
    <3> QED
      BY <2>1, <3>1 DEF ExtensionsInv
  <2>3. /\ functions_map[name] \in DOMAIN extensions
        /\ extensions[functions_map[name]].name = name
    BY <1>3 DEF ExtensionsInv
  <2>4. PICK f \in Entries :
            Declares(extensions[functions_map[name]], f, extension_urns')
    BY <2>1, <2>2, <2>3 DEF ExtensionsInv
  <2>5. Declares(extensions[functions_map[name]], entry, extension_urns')
    BY <2>3, <2>4, SameNameSameDeclaration
  <2> QED
    BY <2>1, <2>2, <2>3, <2>5
<1>4. CASE name \notin DOMAIN functions_map
  <2> DEFINE n == Len(extensions) + 1
             ref == IF IsNative(entry) THEN 0
                    ELSE extension_urn_map'[entry.urn]
             new == [function_anchor |-> last_function_id, name |-> name,
                     extension_urn_reference |-> ref]
  <2>1. /\ extensions' = Append(extensions, new)
        /\ functions_map' = [m \in DOMAIN functions_map \cup {name} |->
                                IF m = name THEN last_function_id
                                ELSE functions_map[m]]
        /\ last_function_id' = last_function_id + 1
        /\ errors' = errors \cup
               (IF strict /\ IsNative(entry) THEN {name} ELSE {})
    BY <1>4 DEF AddExtension
  <2>2. extensions \in Seq(Extensions) /\ last_function_id = n
    BY DEF ExtensionsInv
  <2>3. n \in Nat
    BY <2>2, LenProperties
  <2>4. UrnRight(entry, ref, extension_urns')
    BY <1>1 DEF UrnRight
  <2>5. ref \in Nat
    <3>1. extension_urns' \in Seq(ExtensionUrns)
      BY <1>1 DEF UrnsInv
    <3>2. DOMAIN extension_urns' \subseteq Nat
      BY <3>1
    <3>3. CASE IsNative(entry)
      BY <3>3
    <3>4. CASE ~IsNative(entry)
      BY <3>4, <3>2, <2>4 DEF UrnRight
    <3> QED
      BY <3>3, <3>4
  <2>6. new \in Extensions
    BY <2>2, <2>3, <2>5 DEF Extensions, DeclaredNames
  <2>7. Declares(new, entry, extension_urns')
    BY <2>4 DEF Declares
  <2>8. new.function_anchor = n /\ new.name = name
    BY <2>2
  <2> HIDE DEF new, ref
  <2>9. /\ extensions' \in Seq(Extensions)
        /\ DOMAIN extensions' = DOMAIN extensions \cup {n}
        /\ \A i \in DOMAIN extensions : extensions'[i] = extensions[i]
        /\ extensions'[n] = new
        /\ Len(extensions') = n
    BY <2>1, <2>2, <2>6, AppendIndexes
  <2>10. ASSUME NEW i \in DOMAIN extensions'
         PROVE  /\ extensions'[i].function_anchor = i
                /\ \E e \in Entries :
                       Declares(extensions'[i], e, extension_urns')
    <3>1. CASE i \in DOMAIN extensions
      <4>1. PICK e \in Entries : Declares(extensions[i], e, extension_urns)
        BY <3>1 DEF ExtensionsInv
      <4>2. Declares(extensions'[i], e, extension_urns')
        BY <4>1, <3>1, <2>9, <1>2
      <4> QED
        BY <4>2, <3>1, <2>9 DEF ExtensionsInv
    <3>2. CASE i = n
      BY <3>2, <2>7, <2>8, <2>9
    <3> QED
      BY <3>1, <3>2, <2>9
  <2>11. ASSUME NEW m \in DOMAIN functions_map'
         PROVE  /\ functions_map'[m] \in DOMAIN extensions'
                /\ extensions'[functions_map'[m]].name = m
    <3>1. CASE m = name
      BY <3>1, <2>1, <2>2, <2>8, <2>9
    <3>2. CASE m # name
      <4>1. m \in DOMAIN functions_map
            /\ functions_map'[m] = functions_map[m]
        BY <3>2, <2>1
      <4> QED
        BY <4>1, <2>9 DEF ExtensionsInv
    <3> QED
      BY <3>1, <3>2
  <2>12. ExtensionsInv'
    BY <2>1, <2>2, <2>3, <2>9, <2>10, <2>11 DEF ExtensionsInv
  <2>13. functions_map'[name] = n
    BY <2>1, <2>2
  <2> QED
    BY <2>1, <2>7, <2>9, <2>12, <2>13
<1> QED
  BY <1>3, <1>4

-----------------------------------------------------------------------------
(* The invariant is inductive.                                             *)

LEMMA InitInv == Init => IInv
<1> SUFFICES ASSUME Init PROVE IInv
  OBVIOUS
<1>1. ingested \in Seq(Declarations) /\ DOMAIN ingested = {}
  BY EmptySeq DEF Init
<1>2. OverloadsAreMostSpecific
  <2>1. \A m, keys : DOMAIN m = {} => HoldsBest(m, keys)
    BY <1>1 DEF HoldsBest
  <2>2. DOMAIN Empty = {}
    BY DEF Empty
  <2> QED
    BY <2>1, <2>2 DEF Init, OverloadsAreMostSpecific
<1>3. DOMAIN Empty = {}
  BY DEF Empty
<1>4. UrnsInv
  BY <1>3 DEF Init, UrnsInv
<1>5. ExtensionsInv
  BY <1>3 DEF Init, ExtensionsInv
<1>6. CallsInv
  BY DEF Init, CallsInv
<1>7. ErrorsInv
  BY DEF Init, ErrorsInv
<1>8. PhaseInv
  BY DEF Init, PhaseInv
<1> QED
  BY <1>1, <1>2, <1>4, <1>5, <1>6, <1>7, <1>8 DEF IInv

LEMMA InsertInv ==
    ASSUME IInv, NEW d \in Declarations, InsertFunction(d)
    PROVE  IInv'
<1>1. ingested' = Append(ingested, d) /\ ingested \in Seq(Declarations)
  BY DEF IInv, InsertFunction
<1>2. ingested' \in Seq(Declarations)
  BY <1>1, AppendProperties
<1>3. HoldsBest(any_arg_functions, AnyArgKeys)'
  <2>1. HoldsBestIn(ingested, any_arg_functions, AnyArgKeys)
    BY DEF IInv, OverloadsAreMostSpecific, HoldsBest, HoldsBestIn, Best,
           BestIn, AtLeastAsSpecific, Ahead, Claiming
  <2>2. any_arg_functions' =
            InsertOverload(any_arg_functions, AnyArgKeys[d], Entry(d))
    BY DEF InsertFunction
  <2>3. HoldsBestIn(ingested', any_arg_functions', AnyArgKeys)
    BY <1>1, <2>1, <2>2, InsertKeepsBest
  <2> QED
    BY <2>3 DEF HoldsBest, HoldsBestIn, Best, BestIn, AtLeastAsSpecific,
                Ahead, Claiming
<1>4. HoldsBest(variadic_functions, VariadicKeys)'
  <2>1. HoldsBestIn(ingested, variadic_functions, VariadicKeys)
    BY DEF IInv, OverloadsAreMostSpecific, HoldsBest, HoldsBestIn, Best,
           BestIn, AtLeastAsSpecific, Ahead, Claiming
  <2>2. variadic_functions' =
            InsertOverload(variadic_functions, VariadicKeys[d], Entry(d))
    BY DEF InsertFunction
  <2>3. HoldsBestIn(ingested', variadic_functions', VariadicKeys)
    BY <1>1, <2>1, <2>2, InsertKeepsBest
  <2> QED
    BY <2>3 DEF HoldsBest, HoldsBestIn, Best, BestIn, AtLeastAsSpecific,
                Ahead, Claiming
<1>5. HoldsBest(custom_functions, CustomKeys)'
  <2>1. HoldsBestIn(ingested, custom_functions, CustomKeys)
    BY DEF IInv, OverloadsAreMostSpecific, HoldsBest, HoldsBestIn, Best,
           BestIn, AtLeastAsSpecific, Ahead, Claiming
  <2>2. custom_functions' =
            InsertOverload(custom_functions, CustomKeys[d], Entry(d))
    BY DEF InsertFunction
  <2>3. HoldsBestIn(ingested', custom_functions', CustomKeys)
    BY <1>1, <2>1, <2>2, InsertKeepsBest
  <2> QED
    BY <2>3 DEF HoldsBest, HoldsBestIn, Best, BestIn, AtLeastAsSpecific,
                Ahead, Claiming
<1>6. OverloadsAreMostSpecific'
  BY <1>3, <1>4, <1>5 DEF OverloadsAreMostSpecific
<1>7. /\ phase = "ingest"
      /\ UNCHANGED <<phase, strict, extension_urns, extensions,
                     extension_urn_map, functions_map, last_urn_id,
                     last_function_id, errors, calls, function_names>>
  BY DEF InsertFunction, plan
<1>8. UrnsInv'
  BY <1>7 DEF IInv, UrnsInv
<1>9. ExtensionsInv'
  BY <1>7 DEF IInv, ExtensionsInv
<1>10. calls' = <<>> /\ extensions' = <<>>
  BY <1>7 DEF IInv, PhaseInv
<1>11. CallsInv'
  BY <1>10 DEF CallsInv
<1>12. ErrorsInv'
  BY <1>7 DEF IInv, ErrorsInv
<1>13. PhaseInv'
  BY <1>7, <1>10 DEF IInv, PhaseInv
<1> QED
  BY <1>2, <1>6, <1>8, <1>9, <1>11, <1>12, <1>13 DEF IInv

LEMMA RegistryUnchanged ==
    ASSUME OverloadsAreMostSpecific,
           UNCHANGED <<ingested, custom_functions, any_arg_functions,
                       variadic_functions>>
    PROVE  OverloadsAreMostSpecific'
<1>1. HoldsBest(any_arg_functions, AnyArgKeys)'
  <2>1. HoldsBestIn(ingested, any_arg_functions, AnyArgKeys)
    BY DEF OverloadsAreMostSpecific, HoldsBest, HoldsBestIn, Best, BestIn,
           AtLeastAsSpecific, Ahead, Claiming
  <2>2. HoldsBestIn(ingested', any_arg_functions', AnyArgKeys)
    BY <2>1
  <2> QED
    BY <2>2 DEF HoldsBest, HoldsBestIn, Best, BestIn, AtLeastAsSpecific,
                Ahead, Claiming
<1>2. HoldsBest(variadic_functions, VariadicKeys)'
  <2>1. HoldsBestIn(ingested, variadic_functions, VariadicKeys)
    BY DEF OverloadsAreMostSpecific, HoldsBest, HoldsBestIn, Best, BestIn,
           AtLeastAsSpecific, Ahead, Claiming
  <2>2. HoldsBestIn(ingested', variadic_functions', VariadicKeys)
    BY <2>1
  <2> QED
    BY <2>2 DEF HoldsBest, HoldsBestIn, Best, BestIn, AtLeastAsSpecific,
                Ahead, Claiming
<1>3. HoldsBest(custom_functions, CustomKeys)'
  <2>1. HoldsBestIn(ingested, custom_functions, CustomKeys)
    BY DEF OverloadsAreMostSpecific, HoldsBest, HoldsBestIn, Best, BestIn,
           AtLeastAsSpecific, Ahead, Claiming
  <2>2. HoldsBestIn(ingested', custom_functions', CustomKeys)
    BY <2>1
  <2> QED
    BY <2>2 DEF HoldsBest, HoldsBestIn, Best, BestIn, AtLeastAsSpecific,
                Ahead, Claiming
<1> QED
  BY <1>1, <1>2, <1>3 DEF OverloadsAreMostSpecific

\* What neither ingestion nor a call changes.
LEMMA RestInv ==
    ASSUME IInv, UNCHANGED <<ingested, registry, strict, plan>>
    PROVE  /\ (ingested \in Seq(Declarations))'
           /\ OverloadsAreMostSpecific'
           /\ UrnsInv' /\ ExtensionsInv' /\ CallsInv' /\ ErrorsInv'
<1> USE DEF registry, plan
<1>1. OverloadsAreMostSpecific'
  BY RegistryUnchanged DEF IInv
<1>2. UrnsInv'
  BY DEF IInv, UrnsInv
<1>3. ExtensionsInv'
  BY DEF IInv, ExtensionsInv
<1>4. CallsInv'
  BY DEF IInv, CallsInv
<1>5. ErrorsInv'
  BY DEF IInv, ErrorsInv
<1> QED
  BY <1>1, <1>2, <1>3, <1>4, <1>5 DEF IInv

LEMMA CallInv ==
    ASSUME IInv, NEW c \in Calls, RegisterFunction(c.name, c.types)
    PROVE  IInv'
<1> DEFINE name == c.name
           types == c.types
           entry == Get(name, types)
           ref == functions_map'[GetName(entry)]
           new == [name |-> name, types |-> types, function_reference |-> ref]
           n == Len(calls) + 1
<1>1. name \in CallNames /\ types \in Seq(Kinds)
  BY RegistryAssumption DEF RegistryAssumption, CallNames
<1>2. Resolved(ingested, name, types, entry)
  BY <1>1, GetResolves DEF IInv
<1>3. entry \in Entries
  <2>1. ingested \in Seq(Declarations)
    BY DEF IInv
  <2> HIDE DEF entry
  <2> QED
    BY <1>1, <1>2, <2>1, ResolvedIsEntry
<1>4. /\ phase = "transform"
      /\ AddExtensionUrn(entry) /\ AddExtension(entry)
      /\ calls' = Append(calls, new)
      /\ UNCHANGED <<ingested, custom_functions, any_arg_functions,
                     variadic_functions, phase, strict, function_names>>
  BY DEF RegisterFunction, registry
<1> HIDE DEF entry, name, types
<1>5. UrnsInv' /\ \A f, r : UrnRight(f, r, extension_urns)
                                => UrnRight(f, r, extension_urns')
  BY <1>3, <1>4, UrnsStep DEF IInv
<1>6. /\ ExtensionsInv'
      /\ DOMAIN extensions \subseteq DOMAIN extensions'
      /\ \A i \in DOMAIN extensions : extensions'[i] = extensions[i]
      /\ ref \in DOMAIN extensions'
      /\ Declares(extensions'[ref], entry, extension_urns')
      /\ \/ extensions' = extensions /\ errors' = errors
         \/ /\ DOMAIN extensions' = DOMAIN extensions \cup {ref}
            /\ errors' = errors \cup
                   (IF strict /\ IsNative(entry) THEN {GetName(entry)} ELSE {})
  BY <1>3, <1>4, ExtensionsStep DEF IInv
<1> HIDE DEF ref
<1>7. new \in CallRecords
  <2>1. extensions' \in Seq(Extensions)
    BY <1>6 DEF ExtensionsInv
  <2>2. ref \in Nat
    BY <1>6, <2>1
  <2> QED
    BY <1>1, <2>2 DEF CallRecords
<1>8. new.name = name /\ new.types = types /\ new.function_reference = ref
  OBVIOUS
<1> HIDE DEF new
<1>9. /\ calls' \in Seq(CallRecords)
      /\ DOMAIN calls' = DOMAIN calls \cup {n}
      /\ \A i \in DOMAIN calls : calls'[i] = calls[i]
      /\ calls'[n] = new
  BY <1>4, <1>7, AppendIndexes DEF IInv, CallsInv
<1>10. CallsInv'
  <2>1. ASSUME NEW k \in DOMAIN calls'
        PROVE  /\ calls'[k].function_reference \in DOMAIN extensions'
               /\ \E e \in Entries :
                      /\ Resolved(ingested, calls'[k].name, calls'[k].types, e)
                      /\ Declares(extensions'[calls'[k].function_reference],
                                  e, extension_urns')
    <3>1. CASE k \in DOMAIN calls
      <4> DEFINE r == calls[k].function_reference
      <4>1. r \in DOMAIN extensions
        BY <3>1 DEF IInv, CallsInv
      <4>2. PICK e \in Entries :
                /\ Resolved(ingested, calls[k].name, calls[k].types, e)
                /\ Declares(extensions[r], e, extension_urns)
        BY <3>1 DEF IInv, CallsInv
      <4>3. Declares(extensions'[r], e, extension_urns')
        BY <4>1, <4>2, <1>5, <1>6 DEF Declares
      <4> QED
        BY <3>1, <4>1, <4>2, <4>3, <1>6, <1>9
    <3>2. CASE k = n
      BY <3>2, <1>2, <1>3, <1>6, <1>8, <1>9
    <3> QED
      BY <3>1, <3>2, <1>9
  <2>2. ASSUME NEW i \in DOMAIN extensions'
        PROVE  \E k \in DOMAIN calls' : calls'[k].function_reference = i
    <3>1. CASE i \in DOMAIN extensions
      <4>1. PICK k \in DOMAIN calls : calls[k].function_reference = i
        BY <3>1 DEF IInv, CallsInv
      <4> QED
        BY <4>1, <1>9
    <3>2. CASE i \notin DOMAIN extensions
      <4>1. i = ref
        BY <3>2, <1>6
      <4> QED
        BY <4>1, <1>8, <1>9
    <3> QED
      BY <3>1, <3>2
  <2>3. ingested' = ingested
    BY <1>4
  <2> QED
    BY <1>9, <2>1, <2>2, <2>3 DEF CallsInv
<1>11. ErrorsInv'
  <2>1. strict' = strict /\ strict \in BOOLEAN
    BY <1>4 DEF IInv, ErrorsInv
  <2>2. errors # {} <=>
            strict /\ \E i \in DOMAIN extensions :
                          extensions[i].extension_urn_reference = 0
    BY DEF IInv, ErrorsInv
  <2>3. CASE extensions' = extensions /\ errors' = errors
    BY <2>1, <2>2, <2>3 DEF ErrorsInv
  <2>4. CASE /\ DOMAIN extensions' = DOMAIN extensions \cup {ref}
             /\ errors' = errors \cup
                    (IF strict /\ IsNative(entry)
                     THEN {GetName(entry)} ELSE {})
             /\ ref \notin DOMAIN extensions
    <3>1. extensions'[ref].extension_urn_reference = 0 <=> IsNative(entry)
      <4>1. extension_urns' \in Seq(ExtensionUrns)
        BY <1>5 DEF UrnsInv
      <4>2. 0 \notin DOMAIN extension_urns'
        BY <4>1
      <4> QED
        BY <1>6, <4>2 DEF Declares, UrnRight
    <3>2. (\E i \in DOMAIN extensions' :
               extensions'[i].extension_urn_reference = 0)
          <=> \/ \E i \in DOMAIN extensions :
                     extensions[i].extension_urn_reference = 0
              \/ IsNative(entry)
      BY <1>6, <2>4, <3>1
    <3>3. errors' # {} <=> errors # {} \/ (strict /\ IsNative(entry))
      BY <2>4
    <3> QED
      BY <2>1, <2>2, <3>2, <3>3 DEF ErrorsInv
  <2>5. CASE /\ DOMAIN extensions' = DOMAIN extensions \cup {ref}
             /\ errors' = errors \cup
                    (IF strict /\ IsNative(entry)
                     THEN {GetName(entry)} ELSE {})
             /\ ref \in DOMAIN extensions
    <3>1. DOMAIN extensions' = DOMAIN extensions
      BY <2>5
    <3>2. extensions'[ref].extension_urn_reference = 0 <=> IsNative(entry)
      <4>1. extension_urns' \in Seq(ExtensionUrns)
        BY <1>5 DEF UrnsInv
      <4>2. 0 \notin DOMAIN extension_urns'
        BY <4>1
      <4> QED
        BY <1>6, <4>2 DEF Declares, UrnRight
    <3>3. errors' # {} <=> errors # {} \/ (strict /\ IsNative(entry))
      BY <2>5
    <3> QED
      BY <1>6, <2>1, <2>2, <2>5, <3>1, <3>2, <3>3 DEF ErrorsInv
  <2> QED
    BY <1>6, <2>3, <2>4, <2>5
<1>12. PhaseInv'
  BY <1>4 DEF PhaseInv
<1>13. OverloadsAreMostSpecific'
  BY <1>4, RegistryUnchanged DEF IInv
<1>14. (ingested \in Seq(Declarations))'
  BY <1>4 DEF IInv
<1> QED
  BY <1>5, <1>6, <1>10, <1>11, <1>12, <1>13, <1>14 DEF IInv

LEMMA ReadInv == ASSUME IInv, ReadExtensions PROVE IInv'
<1>1. UNCHANGED <<ingested, registry, strict, plan>>
  BY DEF ReadExtensions
<1>2. phase = "done" /\ phase' = "read" /\ extensions' = extensions
      /\ errors' = errors /\ strict' = strict
  BY <1>1 DEF ReadExtensions, plan
<1>3. ASSUME NEW i \in DOMAIN extensions
      PROVE  i \in DOMAIN function_names'
             /\ function_names'[i] = extensions[i].name
  <2> DEFINE At(a) == {j \in DOMAIN extensions :
                           extensions[j].function_anchor = a}
             anchors == {e.function_anchor : e \in ToSet(extensions)}
             last(a) == CHOOSE j \in At(a) : \A l \in At(a) : l <= j
  <2>1. function_names' = [a \in anchors |-> extensions[last(a)].name]
    BY DEF ReadExtensions
  <2>2. At(i) = {i}
    BY DEF IInv, ExtensionsInv
  <2>3. i \in Nat
    BY DEF IInv, ExtensionsInv
  <2>4. i \in anchors
    <3>1. extensions[i] \in ToSet(extensions)
      BY DEF ToSet
    <3>2. extensions[i].function_anchor = i
      BY DEF IInv, ExtensionsInv
    <3> QED
      BY <3>1, <3>2
  <2>5. last(i) = i
    BY <2>2, <2>3
  <2> QED
    BY <2>1, <2>4, <2>5
<1>4. PhaseInv'
  BY <1>2, <1>3 DEF IInv, PhaseInv
<1> QED
  BY <1>1, <1>4, RestInv DEF IInv

LEMMA Inductive == IInv /\ [Next]_vars => IInv'
<1> SUFFICES ASSUME IInv, [Next]_vars PROVE IInv'
  OBVIOUS
<1>1. ASSUME NEW d \in Declarations, InsertFunction(d) PROVE IInv'
  BY <1>1, InsertInv
<1>2. CASE InitializeReturns
  <2>1. UNCHANGED <<ingested, registry, strict, plan>>
        /\ phase' = "transform"
    BY <1>2 DEF InitializeReturns
  <2>2. PhaseInv'
    BY <2>1 DEF PhaseInv
  <2> QED
    BY <2>1, <2>2, RestInv DEF IInv
<1>3. ASSUME NEW c \in Calls, RegisterFunction(c.name, c.types) PROVE IInv'
  BY <1>3, CallInv
<1>4. CASE TransformPlanReturns
  <2>1. UNCHANGED <<ingested, registry, strict, plan>>
        /\ phase' = IF strict /\ errors # {} THEN "failed" ELSE "done"
    BY <1>4 DEF TransformPlanReturns
  <2>2. PhaseInv'
    BY <2>1 DEF PhaseInv, plan
  <2> QED
    BY <2>1, <2>2, RestInv DEF IInv
<1>5. CASE ReadExtensions
  BY <1>5, ReadInv
<1>6. CASE UNCHANGED vars
  <2>1. UNCHANGED <<ingested, registry, strict, plan>>
        /\ phase' = phase /\ function_names' = function_names
    BY <1>6 DEF vars
  <2>2. PhaseInv'
    BY <2>1 DEF IInv, PhaseInv, plan
  <2> QED
    BY <2>1, <2>2, RestInv DEF IInv
<1> QED
  BY <1>1, <1>2, <1>3, <1>4, <1>5, <1>6 DEF Next

LEMMA Invariance == Spec => []IInv
BY InitInv, Inductive, PTL DEF Spec

-----------------------------------------------------------------------------
(* The properties.                                                         *)

\* The overload maps of SubstraitCustomFunctions hold the most specific,
\* latest declaration for exactly the arguments that are covered, in any
\* order of ingestion.
THEOREM MapsAreMostSpecific == Spec => []OverloadsAreMostSpecific
<1>1. IInv => OverloadsAreMostSpecific
  BY DEF IInv
<1> QED
  BY <1>1, Invariance, PTL

\* The meaning of a call, stated with the variable and with a fixed sequence.
LEMMA MeantIsMeant ==
    ASSUME NEW name, NEW types
    PROVE  /\ Meant(name, types) = MeantIn(ingested, name, types)
           /\ \A i, C : Best(i, C) <=> BestIn(ingested, i, C)
<1>1. Meant(name, types) = MeantIn(ingested, name, types)
  BY DEF Meant, MeantIn, Accepting, AcceptingIn
<1>2. \A i, C : Best(i, C) <=> BestIn(ingested, i, C)
  BY DEF Best, BestIn, AtLeastAsSpecific, Ahead
<1> QED
  BY <1>1, <1>2

\* The declaration of an entry is reached through its reference.
LEMMA ReachesDeclaration ==
    ASSUME UrnsInv, ExtensionsInv, NEW call, NEW e \in Entries,
           call.function_reference \in DOMAIN extensions,
           Declares(extensions[call.function_reference], e, extension_urns)
    PROVE  /\ IsNative(e) => RefersTo(call, GetName(e), "native")
           /\ ~IsNative(e) => RefersTo(call, GetName(e), e.urn)
<1> DEFINE i == call.function_reference
           r == extensions[i].extension_urn_reference
<1>1. /\ i \in DOMAIN extensions
      /\ \A j \in DOMAIN extensions :
             extensions[j].function_anchor = i <=> i = j
      /\ extensions[i].name = GetName(e)
  BY DEF ExtensionsInv, Declares
<1>2. IsNative(e) => RefersTo(call, GetName(e), "native")
  <2>1. IsNative(e) => r = 0
    BY DEF Declares, UrnRight
  <2> QED
    BY <1>1, <2>1 DEF RefersTo
<1>3. ASSUME ~IsNative(e) PROVE RefersTo(call, GetName(e), e.urn)
  <2>1. r \in DOMAIN extension_urns /\ extension_urns[r].urn = e.urn
    BY <1>3 DEF Declares, UrnRight
  <2>2. \A v \in DOMAIN extension_urns :
            extension_urns[v].extension_urn_anchor = r <=> r = v
    BY <2>1 DEF UrnsInv
  <2>3. e.urn # "native"
    BY <1>3 DEF IsNative
  <2> QED
    BY <1>1, <2>1, <2>2, <2>3 DEF RefersTo
<1> QED
  BY <1>2, <1>3

\* Every call in a plan refers to one declaration, that of the most specific
\* function accepting its arguments, under its extension's URN, or to a
\* native function if none accepts them.
THEOREM EveryCallResolves == Spec => []CallsResolve
<1>1. IInv => CallsResolve
  <2> SUFFICES ASSUME IInv, NEW c \in DOMAIN calls
               PROVE  LET call == calls[c]
                          meant == Meant(call.name, call.types)
                      IN  IF meant = {}
                          THEN RefersTo(call, BareName(call.name), "native")
                          ELSE \E i \in meant :
                              /\ Best(i, meant)
                              /\ RefersTo(call, CompoundName(call.name,
                                              Types[ingested[i]]),
                                          ingested[i].urn)
    BY DEF CallsResolve
  <2> DEFINE call == calls[c]
             meant == MeantIn(ingested, call.name, call.types)
  <2>1. PICK e \in Entries :
            /\ Resolved(ingested, call.name, call.types, e)
            /\ Declares(extensions[call.function_reference], e,
                        extension_urns)
    BY DEF IInv, CallsInv
  <2>2. call.function_reference \in DOMAIN extensions
    BY DEF IInv, CallsInv
  <2>3. /\ IsNative(e) => RefersTo(call, GetName(e), "native")
        /\ ~IsNative(e) => RefersTo(call, GetName(e), e.urn)
    <3> HIDE DEF call
    <3> QED
      BY <2>1, <2>2, ReachesDeclaration DEF IInv
  <2>4. Meant(call.name, call.types) = meant
        /\ \A i, C : Best(i, C) <=> BestIn(ingested, i, C)
    BY MeantIsMeant
  <2>5. CASE meant = {}
    <3>1. e = Native(call.name)
      BY <2>1, <2>5 DEF Resolved
    <3>2. IsNative(e) /\ GetName(e) = BareName(call.name)
      BY <3>1 DEF Native, IsNative, GetName
    <3> QED
      BY <2>3, <2>4, <2>5, <3>2
  <2>6. CASE meant # {}
    <3>1. PICK i \in meant : BestIn(ingested, i, meant)
                             /\ e = Entry(ingested[i])
      BY <2>1, <2>6 DEF Resolved
    <3>2. i \in DOMAIN ingested
          /\ Accepts(ingested[i], call.name, call.types)
      BY DEF MeantIn, AcceptingIn
    <3>3. ingested[i] \in Declarations /\ ingested[i].name = call.name
      BY <3>2, ElementOfSeq DEF IInv, Accepts
    <3>4. ~IsNative(e)
      BY <3>1, <3>3, DeclarationNotNative
    <3>5. e.urn = ingested[i].urn
          /\ e.name = call.name /\ e.types = Types[ingested[i]]
      BY <3>1, <3>3 DEF Entry
    <3>6. GetName(e) = CompoundName(call.name, Types[ingested[i]])
      BY <3>4, <3>5 DEF GetName
    <3> QED
      BY <2>3, <2>4, <2>6, <3>1, <3>4, <3>5, <3>6
  <2> QED
    BY <2>5, <2>6
<1> QED
  BY <1>1, Invariance, PTL

\* A call is resolved to a native entry if and only if nothing accepts it.
LEMMA NativeIffMeantByNone ==
    ASSUME NEW s \in Seq(Declarations), NEW name, NEW types, NEW e,
           Resolved(s, name, types, e)
    PROVE  IsNative(e) <=> MeantIn(s, name, types) = {}
<1>1. CASE MeantIn(s, name, types) = {}
  BY <1>1 DEF Resolved, Native, IsNative
<1>2. CASE MeantIn(s, name, types) # {}
  <2>1. PICK i \in MeantIn(s, name, types) : e = Entry(s[i])
    BY <1>2 DEF Resolved
  <2>2. s[i] \in Declarations
    BY ElementOfSeq DEF MeantIn, AcceptingIn
  <2> QED
    BY <1>2, <2>1, <2>2, DeclarationNotNative
<1> QED
  BY <1>1, <1>2

\* Strict mode fails exactly the plans with a call that nothing declares.
THEOREM StrictModeIsExact == Spec => []StrictIsExact
<1>1. IInv => StrictIsExact
  <2> SUFFICES ASSUME IInv, phase \in {"done", "failed", "read"}
               PROVE  phase = "failed" <=>
                          strict /\ \E c \in DOMAIN calls :
                              Meant(calls[c].name, calls[c].types) = {}
    BY DEF StrictIsExact
  <2>1. phase = "failed" <=> strict /\ errors # {}
    BY DEF IInv, PhaseInv
  <2>2. ASSUME NEW c \in DOMAIN calls
        PROVE  extensions[calls[c].function_reference].extension_urn_reference
                   = 0 <=> Meant(calls[c].name, calls[c].types) = {}
    <3>1. PICK e \in Entries :
              /\ Resolved(ingested, calls[c].name, calls[c].types, e)
              /\ Declares(extensions[calls[c].function_reference], e,
                          extension_urns)
      BY DEF IInv, CallsInv
    <3>2. IsNative(e) <=>
              MeantIn(ingested, calls[c].name, calls[c].types) = {}
      BY <3>1, NativeIffMeantByNone DEF IInv
    <3>3. 0 \notin DOMAIN extension_urns
      BY DEF IInv, UrnsInv
    <3>4. extensions[calls[c].function_reference].extension_urn_reference = 0
              <=> IsNative(e)
      BY <3>1, <3>3 DEF Declares, UrnRight
    <3> QED
      BY <3>2, <3>4, MeantIsMeant
  <2>3. (\E i \in DOMAIN extensions :
             extensions[i].extension_urn_reference = 0)
        <=> \E c \in DOMAIN calls :
                Meant(calls[c].name, calls[c].types) = {}
    <3>1. ASSUME NEW i \in DOMAIN extensions
          PROVE  \E c \in DOMAIN calls : calls[c].function_reference = i
      BY DEF IInv, CallsInv
    <3>2. ASSUME NEW c \in DOMAIN calls
          PROVE  calls[c].function_reference \in DOMAIN extensions
      BY DEF IInv, CallsInv
    <3> QED
      BY <2>2, <3>1, <3>2
  <2> QED
    BY <2>1, <2>3 DEF IInv, ErrorsInv
<1> QED
  BY <1>1, Invariance, PTL

\* The consumer finds every called function, by the name it was called by.
THEOREM NamesAreReadBack == Spec => []NamesComeBack
<1>1. IInv => NamesComeBack
  <2> SUFFICES ASSUME IInv, phase = "read", NEW c \in DOMAIN calls
               PROVE  /\ calls[c].function_reference \in DOMAIN function_names
                      /\ FindFunction(calls[c].function_reference)
                             = calls[c].name
    BY DEF NamesComeBack
  <2> DEFINE r == calls[c].function_reference
  <2>1. PICK e \in Entries :
            /\ Resolved(ingested, calls[c].name, calls[c].types, e)
            /\ Declares(extensions[r], e, extension_urns)
    BY DEF IInv, CallsInv
  <2>2. r \in DOMAIN extensions
    BY DEF IInv, CallsInv
  <2>3. r \in DOMAIN function_names /\ function_names[r] = extensions[r].name
    BY <2>2 DEF IInv, PhaseInv
  <2>4. extensions[r].name = GetName(e)
    BY <2>1 DEF Declares
  <2>5. calls[c].name \in CallNames /\ ingested \in Seq(Declarations)
    <3>1. calls \in Seq(CallRecords)
      BY DEF IInv, CallsInv
    <3>2. calls[c] \in CallRecords
      BY <3>1, ElementOfSeq
    <3> QED
      BY <3>2 DEF IInv, CallRecords
  <2>6. e.name = calls[c].name
    BY <2>1, <2>5, ResolvedIsEntry
  <2> QED
    BY <2>3, <2>4, <2>6, NameOfEntry DEF FindFunction
<1> QED
  BY <1>1, Invariance, PTL
=============================================================================
