--------------------------- MODULE SubPlansProofs ---------------------------
(***************************************************************************)
(* Proofs about SubPlans, for any plans at all: no assumption is made on   *)
(* the shape of a logical operator beyond the fields the actions read; and *)
(* about SubPlansRoundTrip, for every set of queries whose places are      *)
(* finite (PlacesAssumption, HeightAssumption).                            *)
(***************************************************************************)
EXTENDS SubPlansRoundTrip, SequenceTheorems, FiniteSetTheorems, TLAPS

IsSeq(s) == Len(s) \in Nat /\ s = [i \in 1..Len(s) |-> s[i]]

-----------------------------------------------------------------------------
(* Sequences whose elements have no type.                                  *)

LEMMA IsSeqIsSeq ==
    ASSUME NEW s, IsSeq(s)
    PROVE  s \in Seq({s[i] : i \in 1..Len(s)})
BY DEF IsSeq

LEMMA SeqIsSeq ==
    ASSUME NEW S, NEW s \in Seq(S)
    PROVE  IsSeq(s)
BY DEF IsSeq

LEMMA EmptyIsSeq == IsSeq(<<>>) /\ Len(<<>>) = 0
BY DEF IsSeq

LEMMA AppendIsSeq ==
    ASSUME NEW s, IsSeq(s), NEW e
    PROVE  /\ IsSeq(Append(s, e))
           /\ Len(Append(s, e)) = Len(s) + 1
           /\ Append(s, e)[Len(s) + 1] = e
           /\ \A i \in 1..Len(s) : Append(s, e)[i] = s[i]
           /\ Front(Append(s, e)) = s
           /\ Last(Append(s, e)) = e
<1> DEFINE S == {s[i] : i \in 1..Len(s)} \cup {e}
<1>1. s \in Seq(S)
  BY DEF IsSeq
<1>2. Append(s, e) \in Seq(S)
  BY <1>1
<1>3. /\ Len(Append(s, e)) = Len(s) + 1
      /\ Append(s, e)[Len(s) + 1] = e
      /\ \A i \in 1..Len(s) : Append(s, e)[i] = s[i]
  BY <1>1
<1>4. Front(Append(s, e)) = s
  <2>1. Front(Append(s, e)) = SubSeq(Append(s, e), 1, Len(s))
    BY <1>1, <1>3 DEF Front
  <2>. QED  BY <2>1, <1>1, <1>3
<1>. QED  BY <1>2, <1>3, <1>4, SeqIsSeq DEF Last

LEMMA FrontIsSeq ==
    ASSUME NEW s, IsSeq(s), s # <<>>
    PROVE  /\ IsSeq(Front(s))
           /\ Len(Front(s)) = Len(s) - 1
           /\ Len(s) \in Nat \ {0}
           /\ \A i \in 1..Len(s) - 1 : Front(s)[i] = s[i]
           /\ Append(Front(s), Last(s)) = s
<1> DEFINE S == {s[i] : i \in 1..Len(s)}
<1>1. s \in Seq(S)
  BY DEF IsSeq
<1>2. Len(s) \in Nat /\ Len(s) > 0
  BY <1>1
<1>3. /\ Front(s) \in Seq(S)
      /\ Len(Front(s)) = Len(s) - 1
      /\ \A i \in 1..Len(s) - 1 : Front(s)[i] = s[i]
  <2>1. \A i \in 1..Len(s) - 1 : s[i] \in S
    BY <1>2
  <2>. HIDE DEF S
  <2>2. /\ SubSeq(s, 1, Len(s) - 1) \in Seq(S)
        /\ Len(SubSeq(s, 1, Len(s) - 1)) =
               IF 1 <= Len(s) - 1 THEN Len(s) - 1 - 1 + 1 ELSE 0
        /\ \A i \in 1..Len(s) - 1 - 1 + 1 :
               SubSeq(s, 1, Len(s) - 1)[i] = s[1 + i - 1]
    BY <2>1, <1>2, SubSeqProperties
  <2>3. Front(s) = SubSeq(s, 1, Len(s) - 1)
    BY DEF Front
  <2>4. /\ Front(s) \in Seq(S)
        /\ Len(Front(s)) = IF 1 <= Len(s) - 1 THEN Len(s) - 1 - 1 + 1 ELSE 0
        /\ \A i \in 1..Len(s) - 1 - 1 + 1 : Front(s)[i] = s[1 + i - 1]
    BY <2>2, <2>3, Zenon
  <2>5. ASSUME NEW i \in 1..Len(s) - 1
        PROVE  Front(s)[i] = s[i]
    <3>1. i \in 1..Len(s) - 1 - 1 + 1 /\ 1 + i - 1 = i
      BY <1>2
    <3>2. Front(s)[i] = s[1 + i - 1]
      BY <2>4, <3>1
    <3>. QED  BY <3>1, <3>2
  <2>6. Len(Front(s)) = Len(s) - 1
    <3>1. Len(Front(s)) = IF 1 <= Len(s) - 1 THEN Len(s) - 1 - 1 + 1 ELSE 0
      BY <2>4, Zenon
    <3>2. \A n \in Nat :
              n > 0 => (IF 1 <= n - 1 THEN n - 1 - 1 + 1 ELSE 0) = n - 1
      OBVIOUS
    <3>. QED  BY <3>1, <3>2, <1>2, Zenon
  <2>. QED  BY <2>4, <2>5, <2>6
<1>4. Append(Front(s), Last(s)) = s
  <2>1. Last(s) \in S
    BY <1>2 DEF Last
  <2>. HIDE DEF S
  <2>2. /\ Append(Front(s), Last(s)) \in Seq(S)
        /\ Len(Append(Front(s), Last(s))) = Len(s)
        /\ \A i \in 1..Len(s) : Append(Front(s), Last(s))[i] = s[i]
    BY <2>1, <1>1, <1>2, <1>3 DEF Last
  <2>. QED  BY <2>2, <1>1, <1>2
<1>. QED  BY <1>2, <1>3, <1>4, SeqIsSeq

-----------------------------------------------------------------------------
(* The invariant: each call's scope is the one its caller gives it, and    *)
(* the sources are the scope of the latest call.                           *)

IsFrame(f) ==
    /\ f = [node |-> f.node, scope |-> f.scope, done |-> f.done,
            id |-> f.id, source |-> f.source]
    /\ IsSeq(f.scope)

\* The scope of what the caller f transforms.
Inner(f) == IF f.node.op = "delim_get" THEN Front(f.scope)
            ELSE IF AtScanSide(f) THEN Append(f.scope, Source(f))
            ELSE f.scope

\* A delim get that waits for its copy keeps the source it has hidden.
KeepsSource(f) ==
    f.node.op = "delim_get" => f.scope # <<>> /\ f.source = Last(f.scope)

StackOK(fs) ==
    /\ IsSeq(fs)
    /\ \A k \in 1..Len(fs) : IsFrame(fs[k])
    /\ fs # <<>> => fs[1].scope = <<>>
    /\ \A k \in 1..Len(fs) - 1 :
           fs[k + 1].scope = Inner(fs[k]) /\ KeepsSource(fs[k])

SourcesMatch == sources = IF frames = <<>> THEN <<>> ELSE Top.scope

IInv == StackOK(frames) /\ SourcesMatch

\* A call keeps the stack right.
LEMMA PushKeepsStack ==
    ASSUME NEW fs, StackOK(fs), NEW e, IsFrame(e),
           fs = <<>> => e.scope = <<>>,
           fs # <<>> => e.scope = Inner(fs[Len(fs)])
                            /\ KeepsSource(fs[Len(fs)])
    PROVE  StackOK(Append(fs, e)) /\ Append(fs, e) # <<>>
<1> DEFINE new == Append(fs, e)
<1>1. /\ IsSeq(fs) /\ IsSeq(new) /\ Len(new) = Len(fs) + 1
      /\ new[Len(fs) + 1] = e /\ \A i \in 1..Len(fs) : new[i] = fs[i]
  BY AppendIsSeq DEF StackOK
<1>2. Len(fs) \in Nat /\ (fs = <<>> <=> Len(fs) = 0) /\ new # <<>>
  BY <1>1, EmptyIsSeq DEF IsSeq
<1>. HIDE DEF new
<1>3. \A k \in 1..Len(new) : IsFrame(new[k])
  BY <1>1, <1>2 DEF StackOK
<1>4. new[1].scope = <<>>
  BY <1>1, <1>2 DEF StackOK
<1>5. ASSUME NEW k \in 1..Len(new) - 1
      PROVE  new[k + 1].scope = Inner(new[k]) /\ KeepsSource(new[k])
  <2>1. CASE k = Len(fs)
    BY <2>1, <1>1, <1>2
  <2>2. CASE k < Len(fs)
    BY <2>2, <1>1, <1>2 DEF StackOK
  <2>. QED  BY <2>1, <2>2, <1>1, <1>2
<1>. QED  BY <1>1, <1>2, <1>3, <1>4, <1>5 DEF StackOK, new

\* So does a return.
LEMMA PopKeepsStack ==
    ASSUME NEW fs, StackOK(fs), fs # <<>>
    PROVE  /\ StackOK(Front(fs))
           /\ Len(fs) \in Nat \ {0}
           /\ Len(Front(fs)) = Len(fs) - 1
           /\ \A i \in 1..Len(fs) - 1 : Front(fs)[i] = fs[i]
<1>1. /\ IsSeq(Front(fs)) /\ Len(Front(fs)) = Len(fs) - 1
      /\ Len(fs) \in Nat \ {0}
      /\ \A i \in 1..Len(fs) - 1 : Front(fs)[i] = fs[i]
  BY FrontIsSeq DEF StackOK
<1>2. Front(fs) # <<>> => Len(fs) > 1
  BY <1>1, EmptyIsSeq DEF IsSeq
<1>. QED  BY <1>1, <1>2 DEF StackOK

\* The latest call may change anything but its scope.
LEMMA ReplaceKeepsStack ==
    ASSUME NEW fs, StackOK(fs), fs # <<>>, NEW e, IsFrame(e),
           e.scope = fs[Len(fs)].scope
    PROVE  StackOK(Append(Front(fs), e)) /\ Append(Front(fs), e) # <<>>
<1>1. /\ StackOK(Front(fs)) /\ Len(fs) \in Nat \ {0}
      /\ Len(Front(fs)) = Len(fs) - 1
      /\ \A i \in 1..Len(fs) - 1 : Front(fs)[i] = fs[i]
  BY PopKeepsStack
<1>2. CASE Front(fs) = <<>>
  <2>1. Len(fs) = 1
    BY <1>1, <1>2, EmptyIsSeq
  <2>2. e.scope = <<>>
    BY <2>1 DEF StackOK
  <2>. QED  BY <2>2, <1>1, <1>2, PushKeepsStack
<1>3. CASE Front(fs) # <<>>
  <2>1. Len(fs) > 1
    BY <1>1, <1>3, EmptyIsSeq DEF StackOK, IsSeq
  <2>2. fs[Len(fs)].scope = Inner(fs[Len(fs) - 1])
            /\ KeepsSource(fs[Len(fs) - 1])
    BY <2>1, <1>1 DEF StackOK
  <2>. QED  BY <2>1, <2>2, <1>1, <1>3, PushKeepsStack
<1>. QED  BY <1>2, <1>3

-----------------------------------------------------------------------------
(* The steps.                                                              *)

LEMMA NewFrame ==
    ASSUME NEW node, NEW scope, IsSeq(scope)
    PROVE  IsFrame(Frame(node, scope)) /\ Frame(node, scope).scope = scope
BY DEF IsFrame, Frame

LEMMA TopIsFrame ==
    ASSUME StackOK(frames), frames # <<>>
    PROVE  /\ IsFrame(Top) /\ Len(frames) \in Nat \ {0}
           /\ Under = Front(frames)
           /\ Len(frames) = 1 => Top.scope = <<>>
<1>1. Len(frames) \in Nat \ {0}
  BY PopKeepsStack
<1>. QED  BY <1>1 DEF StackOK, Top, Under, Front

LEMMA InvInit == Init => IInv
BY EmptyIsSeq DEF Init, IInv, StackOK, SourcesMatch

\* The outermost call of a relation finds no source.
LEMMA FirstCall ==
    ASSUME IInv, frames = <<>>, NEW node, Call(<<>>, node, <<>>),
           UNCHANGED sources
    PROVE  IInv'
<1>1. IsFrame(Frame(node, <<>>)) /\ Frame(node, <<>>).scope = <<>>
  BY NewFrame, EmptyIsSeq
<1>2. StackOK(<<>>)
  BY DEF IInv
<1>3. StackOK(frames') /\ frames' # <<>>
  BY <1>1, <1>2, PushKeepsStack DEF Call
<1>4. Len(frames') = 1 /\ frames'[1].scope = <<>>
  BY <1>1, EmptyIsSeq, AppendIsSeq DEF Call
<1>5. StackOK(frames)'
  BY <1>3 DEF StackOK, IsFrame, Inner, AtScanSide, IsDelimJoin, ChildIndex,
     DataSide, Source, KeepsSource, IsSeq
<1>6. SourcesMatch'
  BY <1>3, <1>4 DEF IInv, SourcesMatch, Top
<1>. QED  BY <1>5, <1>6 DEF IInv

LEMMA TransformCTEKeepsInv == IInv /\ TransformCTE => IInv'
<1>. SUFFICES ASSUME IInv, TransformCTE PROVE IInv'
  OBVIOUS
<1>. QED  BY FirstCall DEF TransformCTE

LEMMA TransformRootOpKeepsInv == IInv /\ TransformRootOp => IInv'
<1>. SUFFICES ASSUME IInv, TransformRootOp PROVE IInv'
  OBVIOUS
<1>. QED  BY FirstCall DEF TransformRootOp

\* What a step leaves of the stack is judged by its operators alone.
LEMMA StackIsState ==
    StackOK(frames') /\ frames' # <<>> /\ sources' = frames'[Len(frames')].scope
        => IInv'
BY DEF IInv, SourcesMatch, Top, StackOK, IsFrame, Inner, AtScanSide,
   IsDelimJoin, ChildIndex, DataSide, Source, KeepsSource, IsSeq

\* The scan side's scope has the join in addition, as do the sources.
LEMMA TransformChildKeepsInv == IInv /\ TransformChild => IInv'
<1>. SUFFICES ASSUME IInv, TransformChild PROVE IInv'
  OBVIOUS
<1>1. /\ StackOK(frames) /\ frames # <<>> /\ sources = Top.scope
      /\ Top.node.op = "join" /\ Top = frames[Len(frames)]
  BY DEF IInv, SourcesMatch, TransformChild, Calling, Top
<1> DEFINE scope == IF AtScanSide(Top) THEN Append(Top.scope, Source(Top))
                    ELSE Top.scope
           new == Frame(Top.node.children[ChildIndex(Top)], scope)
<1>2. frames' = Append(frames, new)
  BY DEF TransformChild, Call
<1>3. sources' = scope
  BY <1>1 DEF TransformChild, PushSource
<1>4. scope = Inner(Top) /\ KeepsSource(Top)
  BY <1>1 DEF Inner, KeepsSource
<1>5. IsSeq(scope)
  BY <1>1, TopIsFrame, AppendIsSeq DEF IsFrame
<1>6. IsFrame(new) /\ new.scope = scope
  BY <1>5, NewFrame
<1>. HIDE DEF scope, new
<1>7. StackOK(frames') /\ frames' # <<>>
  BY <1>1, <1>2, <1>4, <1>6, PushKeepsStack
<1>8. frames'[Len(frames')] = new
  BY <1>1, <1>2, AppendIsSeq DEF StackOK
<1>. QED  BY <1>3, <1>6, <1>7, <1>8, StackIsState

\* The copy is outside the join its delim get belongs to.
LEMMA TransformCopyKeepsInv == IInv /\ TransformCopy => IInv'
<1>. SUFFICES ASSUME IInv, TransformCopy PROVE IInv'
  OBVIOUS
<1>1. /\ StackOK(frames) /\ frames # <<>> /\ sources = Top.scope
      /\ Top.node.op = "delim_get" /\ Top = frames[Len(frames)]
  BY DEF IInv, SourcesMatch, TransformCopy, Calling, Top
<1>2. CASE UNCHANGED <<frames, sources>>
  BY <1>2 DEF IInv, SourcesMatch, StackOK, IsFrame, Inner, AtScanSide,
     IsDelimJoin, ChildIndex, DataSide, Source, KeepsSource, IsSeq, Top
<1>3. ASSUME sources # <<>>, sources' = HideSource,
             Call(Append(Under, [Top EXCEPT !.source = Last(sources)]),
                  Last(sources).data_side, Front(Top.scope))
      PROVE  IInv'
  <2> DEFINE get == [Top EXCEPT !.source = Last(sources)]
             new == Frame(Last(sources).data_side, Front(Top.scope))
             old == Append(Front(frames), get)
  <2>1. IsFrame(Top) /\ Under = Front(frames)
    BY <1>1, TopIsFrame
  <2>2. /\ IsFrame(get) /\ get.scope = Top.scope /\ get.node = Top.node
        /\ get.source = Last(Top.scope)
    BY <1>1, <2>1 DEF IsFrame
  <2>3. StackOK(old) /\ old # <<>>
    BY <1>1, <2>2, ReplaceKeepsStack
  <2>4. IsSeq(Front(Top.scope))
    BY <1>1, <1>3, <2>1, FrontIsSeq DEF IsFrame
  <2>5. IsFrame(new) /\ new.scope = Front(Top.scope)
    BY <2>4, NewFrame
  <2>6. frames' = Append(old, new)
    BY <1>3, <2>1 DEF Call
  <2>7. IsSeq(old) /\ IsSeq(Front(frames)) /\ old[Len(old)] = get
    BY <1>1, <2>3, PopKeepsStack, AppendIsSeq DEF StackOK
  <2>. HIDE DEF get, new, old
  <2>8. new.scope = Inner(get) /\ KeepsSource(get)
    BY <1>1, <1>3, <2>2, <2>5 DEF Inner, KeepsSource
  <2>9. StackOK(frames') /\ frames' # <<>>
    BY <2>3, <2>5, <2>6, <2>7, <2>8, PushKeepsStack
  <2>10. frames'[Len(frames')] = new
    BY <2>6, <2>7, AppendIsSeq
  <2>11. sources' = new.scope
    BY <1>1, <1>3, <2>5 DEF HideSource
  <2>. QED  BY <2>9, <2>10, <2>11, StackIsState
<1>. QED  BY <1>2, <1>3 DEF TransformCopy, Throw

\* The caller is in its own scope again.
LEMMA ReturnKeepsInv == IInv /\ Return => IInv'
<1>. SUFFICES ASSUME IInv, Return PROVE IInv'
  OBVIOUS
<1> DEFINE caller == Last(Under)
           after == [caller EXCEPT !.done = Append(@, Len(rels) + 1)]
<1>1. /\ StackOK(frames) /\ frames # <<>> /\ sources = Top.scope
      /\ Len(frames) > 1
  BY DEF IInv, SourcesMatch, Return, Calling
<1>2. /\ Len(frames) \in Nat \ {0} /\ Under = Front(frames)
      /\ Top = frames[Len(frames)]
  BY <1>1, TopIsFrame DEF Top
<1>3. /\ StackOK(Under) /\ Len(Under) = Len(frames) - 1
      /\ caller = frames[Len(frames) - 1]
  BY <1>1, <1>2, PopKeepsStack DEF Last
<1>4. Under # <<>>
  BY <1>1, <1>2, <1>3, EmptyIsSeq
<1>5. IsFrame(caller) /\ Top.scope = Inner(caller) /\ KeepsSource(caller)
  BY <1>1, <1>2, <1>3 DEF StackOK
<1>6. frames' = Append(Front(Under), after) /\ sources' = RestoreSources(caller)
  BY DEF Return
<1>. HIDE DEF caller
<1>7. IsFrame(after) /\ after.scope = caller.scope
  BY <1>5 DEF IsFrame
<1>8. RestoreSources(caller) = caller.scope
  <2>1. CASE caller.node.op = "delim_get"
    BY <2>1, <1>1, <1>5, FrontIsSeq
       DEF RestoreSources, Inner, KeepsSource, IsFrame
  <2>2. CASE caller.node.op # "delim_get" /\ AtScanSide(caller)
    BY <2>2, <1>1, <1>5, AppendIsSeq DEF RestoreSources, Inner, IsFrame
  <2>3. CASE caller.node.op # "delim_get" /\ ~AtScanSide(caller)
    BY <2>3, <1>1, <1>5 DEF RestoreSources, Inner
  <2>. QED  BY <2>1, <2>2, <2>3
<1>. HIDE DEF after
<1>9. caller = Under[Len(Under)]
  BY DEF caller, Last
<1>10. StackOK(frames') /\ frames' # <<>>
  BY <1>3, <1>4, <1>6, <1>7, <1>9, ReplaceKeepsStack
<1>11. frames'[Len(frames')] = after
  BY <1>3, <1>4, <1>6, PopKeepsStack, AppendIsSeq DEF StackOK
<1>. QED  BY <1>6, <1>7, <1>8, <1>10, <1>11, StackIsState

LEMMA AddRelationKeepsInv == IInv /\ AddRelation => IInv'
<1>. SUFFICES ASSUME IInv, AddRelation PROVE IInv'
  OBVIOUS
<1>1. sources = <<>> /\ sources' = <<>> /\ frames' = <<>>
  BY TopIsFrame DEF IInv, SourcesMatch, AddRelation, Calling
<1>. QED  BY <1>1, EmptyIsSeq DEF IInv, StackOK, SourcesMatch

LEMMA InvInductive == IInv /\ [Next]_vars => IInv'
<1>. SUFFICES ASSUME IInv, [Next]_vars PROVE IInv'
  OBVIOUS
<1>1. CASE UNCHANGED <<frames, sources>>
  BY <1>1 DEF IInv, SourcesMatch, StackOK, IsFrame, Inner, AtScanSide,
     IsDelimJoin, ChildIndex, DataSide, Source, KeepsSource, IsSeq, Top
<1>2. CASE TransformThrows \/ Finish \/ UNCHANGED vars
  BY <1>1, <1>2 DEF TransformThrows, Throw, Finish, vars
<1>. QED
  BY <1>2, TransformCTEKeepsInv, TransformRootOpKeepsInv,
     TransformChildKeepsInv, TransformCopyKeepsInv, ReturnKeepsInv,
     AddRelationKeepsInv DEF Next

-----------------------------------------------------------------------------
\* Whatever the query, a delim get is matched with the join it belongs to,
\* also in a copy: the sources are always the enclosing joins.
THEOREM SourcesAreTheEnclosingJoins == Spec => []SourcesAreLexical
<1>1. IInv => SourcesAreLexical
  BY DEF IInv, SourcesMatch, SourcesAreLexical, Calling
<1>. QED  BY <1>1, InvInit, InvInductive, PTL DEF Spec

\* Between two relations of a plan duplicate_elimination_sources is empty.
THEOREM NoSourceIsLeft == Spec => []SourcesAreEmptied
<1>1. IInv => SourcesAreEmptied
  BY DEF IInv, SourcesMatch, SourcesAreEmptied
<1>. QED  BY <1>1, InvInit, InvInductive, PTL DEF Spec

-----------------------------------------------------------------------------
(* The places of the calls under way, if known are the CTEs that the       *)
(* relation being made may refer to.                                       *)

\* A scope without what the query does not say.
Outer(scope) ==
    [k \in 1..Len(scope) |-> [data_side |-> scope[k].data_side,
                              columns |-> scope[k].column_indices]]
PlaceOf(known, f) == Place(known, f.node, Outer(f.scope))

\* How many calls a call makes, and the place of the k-th one.
Arity(node) == IF node.op = "join" THEN 2
               ELSE IF node.op = "delim_get" THEN 1 ELSE 0
PartOf(known, f, k) ==
    IF f.node.op = "delim_get" THEN Copy(PlaceOf(known, f))
    ELSE Side(PlaceOf(known, f), IF f.node.swapped THEN 3 - k ELSE k)

LEMMA SeqsAreEqual ==
    ASSUME NEW s, IsSeq(s), NEW t, IsSeq(t), Len(s) = Len(t),
           \A i \in 1..Len(s) : s[i] = t[i]
    PROVE  s = t
BY DEF IsSeq

LEMMA OuterIsSeq ==
    ASSUME NEW scope, IsSeq(scope)
    PROVE  /\ IsSeq(Outer(scope)) /\ Len(Outer(scope)) = Len(scope)
           /\ Outer(<<>>) = <<>>
           /\ \A f : Outer(Append(scope, Source(f))) =
                         Append(Outer(scope), Enclosing(f.node))
           /\ scope # <<>> =>
                  /\ Outer(scope) # <<>>
                  /\ Outer(Front(scope)) = Front(Outer(scope))
                  /\ Last(Outer(scope)) =
                         [data_side |-> Last(scope).data_side,
                          columns |-> Last(scope).column_indices]
<1>1. IsSeq(Outer(scope)) /\ Len(Outer(scope)) = Len(scope)
  BY DEF Outer, IsSeq
<1>2. Outer(<<>>) = <<>>
  BY DEF Outer
<1>3. ASSUME NEW f
      PROVE  Outer(Append(scope, Source(f))) =
                 Append(Outer(scope), Enclosing(f.node))
  <2> DEFINE a == Append(scope, Source(f))
             b == Append(Outer(scope), Enclosing(f.node))
  <2>1. /\ IsSeq(a) /\ Len(a) = Len(scope) + 1 /\ a[Len(scope) + 1] = Source(f)
        /\ \A i \in 1..Len(scope) : a[i] = scope[i]
    BY AppendIsSeq
  <2>2. /\ IsSeq(b) /\ Len(b) = Len(scope) + 1
        /\ b[Len(scope) + 1] = Enclosing(f.node)
        /\ \A i \in 1..Len(scope) : b[i] = Outer(scope)[i]
    BY <1>1, AppendIsSeq
  <2>. HIDE DEF a, b
  <2>3. IsSeq(Outer(a)) /\ Len(Outer(a)) = Len(scope) + 1
    BY <2>1 DEF Outer, IsSeq
  <2>4. ASSUME NEW i \in 1..Len(scope) + 1
        PROVE  Outer(a)[i] = b[i]
    <3>1. Outer(a)[i] = [data_side |-> a[i].data_side,
                         columns |-> a[i].column_indices]
      BY <2>1 DEF Outer
    <3>2. CASE i = Len(scope) + 1
      BY <2>1, <2>2, <3>1, <3>2 DEF Source, Enclosing
    <3>3. CASE i \in 1..Len(scope)
      BY <2>1, <2>2, <3>1, <3>3 DEF Outer
    <3>. QED  BY <3>2, <3>3, <1>1 DEF IsSeq
  <2>5. Outer(a) = b
    BY <2>1, <2>2, <2>3, <2>4, SeqsAreEqual
  <2>. QED  BY <2>5 DEF a, b
<1>4. ASSUME scope # <<>>
      PROVE  /\ Outer(scope) # <<>>
             /\ Outer(Front(scope)) = Front(Outer(scope))
             /\ Last(Outer(scope)) = [data_side |-> Last(scope).data_side,
                                      columns |-> Last(scope).column_indices]
  <2>1. /\ IsSeq(Front(scope)) /\ Len(Front(scope)) = Len(scope) - 1
        /\ Len(scope) \in Nat \ {0}
        /\ \A i \in 1..Len(scope) - 1 : Front(scope)[i] = scope[i]
    BY <1>4, FrontIsSeq
  <2>2. Outer(scope) # <<>>
    BY <1>1, <2>1, EmptyIsSeq
  <2>3. /\ IsSeq(Front(Outer(scope)))
        /\ Len(Front(Outer(scope))) = Len(scope) - 1
        /\ \A i \in 1..Len(scope) - 1 : Front(Outer(scope))[i] = Outer(scope)[i]
    BY <1>1, <2>2, FrontIsSeq
  <2>4. Outer(Front(scope)) = Front(Outer(scope))
    <3>1. /\ IsSeq(Outer(Front(scope)))
          /\ Len(Outer(Front(scope))) = Len(scope) - 1
      BY <2>1 DEF Outer, IsSeq
    <3>2. ASSUME NEW i \in 1..Len(scope) - 1
          PROVE  Outer(Front(scope))[i] = Front(Outer(scope))[i]
      <4>1. /\ i \in 1..Len(scope) /\ i \in 1..Len(Front(scope))
            /\ Front(scope)[i] = scope[i]
            /\ Front(Outer(scope))[i] = Outer(scope)[i]
        BY <2>1, <2>3
      <4>. QED  BY <4>1 DEF Outer
    <3>. QED  BY <2>3, <3>1, <3>2, SeqsAreEqual
  <2>5. Last(Outer(scope)) = [data_side |-> Last(scope).data_side,
                              columns |-> Last(scope).column_indices]
    BY <1>1, <2>1 DEF Last, Outer
  <2>. QED  BY <2>2, <2>4, <2>5
<1>. QED  BY <1>1, <1>2, <1>3, <1>4

\* A call is given the place its caller means.
LEMMA CalleePlace ==
    ASSUME NEW known, NEW f, IsFrame(f)
    PROVE  /\ f.node.op = "delim_get" /\ f.scope # <<>> =>
                  Place(known, Last(f.scope).data_side, Outer(Front(f.scope)))
                      = PartOf(known, f, Len(f.done) + 1)
           /\ f.node.op = "join" =>
                  Place(known, f.node.children[ChildIndex(f)], Outer(Inner(f)))
                      = PartOf(known, f, Len(f.done) + 1)
<1>1. IsSeq(f.scope)
  BY DEF IsFrame
<1>2. ASSUME f.node.op = "delim_get", f.scope # <<>>
      PROVE  Place(known, Last(f.scope).data_side, Outer(Front(f.scope)))
                 = PartOf(known, f, Len(f.done) + 1)
  <2>1. PartOf(known, f, Len(f.done) + 1) = Copy(PlaceOf(known, f))
    BY <1>2 DEF PartOf
  <2>2. Copy(PlaceOf(known, f)) =
            Place(known, Last(Outer(f.scope)).data_side, Front(Outer(f.scope)))
    BY DEF Copy, PlaceOf, Place
  <2>3. /\ Last(Outer(f.scope)) = [data_side |-> Last(f.scope).data_side,
                                   columns |-> Last(f.scope).column_indices]
        /\ Outer(Front(f.scope)) = Front(Outer(f.scope))
    BY <1>1, <1>2, OuterIsSeq, Zenon
  <2>. QED  BY <2>1, <2>2, <2>3
<1>3. ASSUME f.node.op = "join"
      PROVE  Place(known, f.node.children[ChildIndex(f)], Outer(Inner(f)))
                 = PartOf(known, f, Len(f.done) + 1)
  <2> DEFINE k == ChildIndex(f)
  <2>1. PartOf(known, f, Len(f.done) + 1) = Side(PlaceOf(known, f), k)
    BY <1>3 DEF PartOf, ChildIndex
  <2>. HIDE DEF k
  <2>2. Outer(Inner(f)) = IF IsDelimJoin(f.node) /\ k # DataSide(f.node)
                          THEN Append(Outer(f.scope), Enclosing(f.node))
                          ELSE Outer(f.scope)
    BY <1>1, <1>3, OuterIsSeq DEF Inner, AtScanSide, k
  <2>. QED  BY <2>1, <2>2 DEF Side, PlaceOf, Place, k
<1>. QED  BY <1>2, <1>3

\* g is the call that f has made for its next part.
IsCallee(known, f, g) ==
    /\ Len(f.done) < Arity(f.node)
    /\ PlaceOf(known, g) = PartOf(known, f, Len(f.done) + 1)

\* The scope of the first m joins of a scope.
OuterTo(scope, m) == [k \in 1..m |-> Outer(scope)[k]]

LEMMA OuterToIsSame ==
    ASSUME NEW s, IsSeq(s), NEW t, IsSeq(t), NEW m \in Nat,
           m <= Len(s), m <= Len(t), \A k \in 1..m : s[k] = t[k]
    PROVE  OuterTo(s, m) = OuterTo(t, m)
<1>1. Len(s) \in Nat /\ Len(t) \in Nat
  BY DEF IsSeq
<1>2. ASSUME NEW k \in 1..m
      PROVE  Outer(s)[k] = Outer(t)[k]
  <2>1. k \in 1..Len(s) /\ k \in 1..Len(t) /\ s[k] = t[k]
    BY <1>1
  <2>. QED  BY <2>1 DEF Outer
<1>. QED  BY <1>2 DEF OuterTo

LEMMA OuterToAll ==
    ASSUME NEW s, IsSeq(s)
    PROVE  OuterTo(s, Len(s)) = Outer(s)
BY DEF OuterTo, Outer

Extended(f, n, value) ==
    [i \in 1..n + 1 |-> IF i = n + 1 THEN value ELSE f[i]]

-----------------------------------------------------------------------------
(* The invariant for the hints: every relation is made at a place of the   *)
(* query (origin), and so is the data side of every join that has been     *)
(* given an id (data).  Which CTEs are known makes no difference here.     *)

At(f) == PlaceOf(NoCTEs, f)

\* The side that is made as the k-th one.
Turn(node, k) == IF node.swapped THEN 3 - k ELSE k

IsOrdinal(indices, o, index) ==
    /\ o \in Nat /\ o < Len(indices)
    /\ indices[o + 1] = index
    /\ \A j \in 1..o : indices[j] # index

MadeAt(origin, rs, indices, i) ==
    LET place == origin[i]
        node == place.node
        inputs == rs[i].inputs
    IN  /\ IsSeq(inputs) /\ Len(inputs) = Arity(node)
        /\ \A k \in 1..Len(inputs) :
               /\ inputs[k] \in 1..i - 1
               /\ origin[inputs[k]] = IF node.op = "delim_get" THEN Copy(place)
                                      ELSE Side(place, Turn(node, k))
        /\ \/ node.op = "get" /\ rs[i].rel = <<"read", node.table>>
           \/ node.op = "cte_ref" /\ \E o : /\ IsOrdinal(indices, o, node.index)
                                            /\ rs[i].rel = <<"reference", o>>
           \/ /\ node.op = "delim_get"
              /\ rs[i].rel = <<"aggregate", Last(place.scope).columns>>
           \/ node.op = "join" /\ rs[i].rel = <<"join", node.type>>

\* Only copies of the data side of a join carry its id.
HintsMean(origin, data, rs, last, i) ==
    \A kind, id : <<kind, id>> \in rs[i].hints =>
        /\ id \in 1..last /\ origin[i] = data[id]
        /\ origin[i].node.op # "cte_ref"

ScopeIds(data, last, scope) ==
    \A m \in 1..Len(scope) :
        LET id == scope[m].computation_id
        IN  /\ id \in 1..last
            /\ data[id] = Place(NoCTEs, scope[m].data_side, OuterTo(scope, m - 1))

FrameIds(origin, data, n, last, f) ==
    /\ IsSeq(f.done) /\ Len(f.done) <= Arity(f.node)
    /\ \A k \in 1..Len(f.done) :
           f.done[k] \in 1..n /\ origin[f.done[k]] = PartOf(NoCTEs, f, k)
    /\ f.done # <<>> => KeepsSource(f)
    /\ IsDelimJoin(f.node) =>
           f.id \in 1..last /\ data[f.id] = Side(At(f), DataSide(f.node))
    /\ ScopeIds(data, last, f.scope)

StackIds(origin, data, n, last, fs) ==
    /\ IsSeq(fs)
    /\ \A k \in 1..Len(fs) : FrameIds(origin, data, n, last, fs[k])
    /\ \A k \in 1..Len(fs) - 1 : IsCallee(NoCTEs, fs[k], fs[k + 1])
    /\ \A j, k \in 1..Len(fs) :
           j < k /\ IsDelimJoin(fs[j].node) /\ IsDelimJoin(fs[k].node)
               => fs[j].id # fs[k].id

\* The join with that id does not have its data side yet.
HasData(f) == \E k \in 1..Len(f.done) : Turn(f.node, k) = DataSide(f.node)
Awaits(f, id) == IsDelimJoin(f.node) /\ f.id = id /\ ~HasData(f)
IsAwaited(fs, id) == \E k \in 1..Len(fs) : Awaits(fs[k], id)

\* A relation is saved once, unless it is a reference.
IsSaved(rs, id) == \E i \in 1..Len(rs) : <<"saved", id>> \in rs[i].hints
IsSavedOnce(rs, id) ==
    \A i, j \in 1..Len(rs) :
        <<"saved", id>> \in rs[i].hints /\ <<"saved", id>> \in rs[j].hints
            => i = j
SaveMeans(data, rs, fs, id) ==
    /\ IsSavedOnce(rs, id)
    /\ IsAwaited(fs, id) => ~IsSaved(rs, id)
    /\ ~IsAwaited(fs, id) => data[id].node.op = "cte_ref" \/ IsSaved(rs, id)
SavesMean(data, rs, last, fs) ==
    \A id \in 1..last : SaveMeans(data, rs, fs, id)

\* All the relations made so far.
MarksMean(origin, data, rs, indices, last) ==
    /\ IsSeq(rs)
    /\ \A i \in 1..Len(rs) : /\ MadeAt(origin, rs, indices, i)
                             /\ HintsMean(origin, data, rs, last, i)

HintsInv(origin, data) ==
    /\ IsSeq(cte_indices) /\ last_computation_id \in Nat
    /\ MarksMean(origin, data, rels, cte_indices, last_computation_id)
    /\ StackIds(origin, data, Len(rels), last_computation_id, frames)
    /\ SavesMean(data, rels, last_computation_id, frames)
    /\ status = "done" => frames = <<>>

-----------------------------------------------------------------------------
\* There are more relations and more ids, and what was known still holds.
Outlive(origin, data, n, last, origin2, data2, n2, last2) ==
    /\ n \in Nat /\ n2 \in Nat /\ n <= n2
    /\ \A i \in 1..n : origin2[i] = origin[i]
    /\ last \in Nat /\ last2 \in Nat /\ last <= last2
    /\ \A id \in 1..last : data2[id] = data[id]

LEMMA FrameIdsOutlive ==
    ASSUME NEW origin, NEW data, NEW n, NEW last,
           NEW origin2, NEW data2, NEW n2, NEW last2,
           Outlive(origin, data, n, last, origin2, data2, n2, last2),
           NEW f, FrameIds(origin, data, n, last, f)
    PROVE  FrameIds(origin2, data2, n2, last2, f)
<1>1. ASSUME NEW k \in 1..Len(f.done)
      PROVE  f.done[k] \in 1..n2 /\ origin2[f.done[k]] = PartOf(NoCTEs, f, k)
  <2>1. f.done[k] \in 1..n /\ origin[f.done[k]] = PartOf(NoCTEs, f, k)
    BY DEF FrameIds
  <2>. QED  BY <2>1 DEF Outlive
<1>2. ASSUME IsDelimJoin(f.node)
      PROVE  f.id \in 1..last2 /\ data2[f.id] = Side(At(f), DataSide(f.node))
  <2>1. f.id \in 1..last /\ data[f.id] = Side(At(f), DataSide(f.node))
    BY <1>2 DEF FrameIds
  <2>. QED  BY <2>1 DEF Outlive
<1>3. ASSUME NEW m \in 1..Len(f.scope)
      PROVE  LET id == f.scope[m].computation_id
             IN  /\ id \in 1..last2
                 /\ data2[id] = Place(NoCTEs, f.scope[m].data_side,
                                      OuterTo(f.scope, m - 1))
  <2> DEFINE id == f.scope[m].computation_id
  <2>1. /\ id \in 1..last
        /\ data[id] = Place(NoCTEs, f.scope[m].data_side, OuterTo(f.scope, m - 1))
    BY DEF FrameIds, ScopeIds
  <2>. HIDE DEF id
  <2>2. id \in 1..last2 /\ data2[id] = data[id]
    BY <2>1 DEF Outlive
  <2>. QED  BY <2>1, <2>2 DEF id
<1>4. ScopeIds(data2, last2, f.scope)
  BY <1>3 DEF ScopeIds
<1>. QED  BY <1>1, <1>2, <1>4 DEF FrameIds

LEMMA StackIdsOutlive ==
    ASSUME NEW origin, NEW data, NEW n, NEW last,
           NEW origin2, NEW data2, NEW n2, NEW last2,
           Outlive(origin, data, n, last, origin2, data2, n2, last2),
           NEW fs, StackIds(origin, data, n, last, fs)
    PROVE  StackIds(origin2, data2, n2, last2, fs)
<1>1. ASSUME NEW k \in 1..Len(fs)
      PROVE  FrameIds(origin2, data2, n2, last2, fs[k])
  <2>1. FrameIds(origin, data, n, last, fs[k])
    BY DEF StackIds
  <2>. QED  BY <2>1, FrameIdsOutlive
<1>. QED  BY <1>1 DEF StackIds

LEMMA PushIds ==
    ASSUME NEW origin, NEW data, NEW n, NEW last,
           NEW fs, StackIds(origin, data, n, last, fs),
           NEW e, FrameIds(origin, data, n, last, e),
           fs # <<>> => IsCallee(NoCTEs, fs[Len(fs)], e),
           \A k \in 1..Len(fs) :
               IsDelimJoin(fs[k].node) /\ IsDelimJoin(e.node) => fs[k].id # e.id
    PROVE  StackIds(origin, data, n, last, Append(fs, e))
<1> DEFINE new == Append(fs, e)
<1>1. /\ IsSeq(fs) /\ IsSeq(new) /\ Len(new) = Len(fs) + 1
      /\ new[Len(fs) + 1] = e /\ \A i \in 1..Len(fs) : new[i] = fs[i]
  BY AppendIsSeq DEF StackIds
<1>2. Len(fs) \in Nat /\ (fs = <<>> <=> Len(fs) = 0)
  BY <1>1, EmptyIsSeq DEF IsSeq
<1>. HIDE DEF new
<1>3. \A k \in 1..Len(new) : k \in 1..Len(fs) \/ k = Len(fs) + 1
  BY <1>1, <1>2
<1>4. \A k \in 1..Len(new) : FrameIds(origin, data, n, last, new[k])
  BY <1>1, <1>3 DEF StackIds
<1>5. ASSUME NEW k \in 1..Len(new) - 1
      PROVE  IsCallee(NoCTEs, new[k], new[k + 1])
  <2>1. CASE k = Len(fs)
    <3>1. k \in 1..Len(fs) /\ fs # <<>>
      BY <2>1, <1>1, <1>2
    <3>2. new[k] = fs[Len(fs)] /\ new[k + 1] = e
      BY <2>1, <3>1, <1>1
    <3>. QED  BY <3>1, <3>2
  <2>2. CASE k < Len(fs)
    <3>1. k \in 1..Len(fs) - 1 /\ k \in 1..Len(fs) /\ k + 1 \in 1..Len(fs)
      BY <2>2, <1>1, <1>2
    <3>2. new[k] = fs[k] /\ new[k + 1] = fs[k + 1]
      BY <3>1, <1>1
    <3>. QED  BY <3>1, <3>2 DEF StackIds
  <2>. QED  BY <2>1, <2>2, <1>1, <1>2
<1>6. ASSUME NEW j \in 1..Len(new), NEW k \in 1..Len(new), j < k,
             IsDelimJoin(new[j].node), IsDelimJoin(new[k].node)
      PROVE  new[j].id # new[k].id
  <2>1. j \in 1..Len(fs) /\ new[j] = fs[j]
    BY <1>1, <1>2, <1>6
  <2>2. CASE k = Len(fs) + 1
    BY <1>1, <1>6, <2>1, <2>2
  <2>3. CASE k \in 1..Len(fs)
    BY <1>1, <1>6, <2>1, <2>3 DEF StackIds
  <2>. QED  BY <1>3, <2>2, <2>3
<1>. QED  BY <1>1, <1>4, <1>5, <1>6 DEF StackIds, new

LEMMA PopIds ==
    ASSUME NEW origin, NEW data, NEW n, NEW last,
           NEW fs, StackIds(origin, data, n, last, fs), fs # <<>>
    PROVE  /\ StackIds(origin, data, n, last, Front(fs))
           /\ FrameIds(origin, data, n, last, fs[Len(fs)])
           /\ Front(fs) # <<>> =>
                  /\ Len(Front(fs)) = Len(fs) - 1 /\ Len(fs) > 1
                  /\ Front(fs)[Len(Front(fs))] = fs[Len(fs) - 1]
                  /\ IsCallee(NoCTEs, fs[Len(fs) - 1], fs[Len(fs)])
<1>1. /\ IsSeq(fs) /\ IsSeq(Front(fs)) /\ Len(Front(fs)) = Len(fs) - 1
      /\ Len(fs) \in Nat \ {0} /\ \A i \in 1..Len(fs) - 1 : Front(fs)[i] = fs[i]
  BY FrontIsSeq DEF StackIds
<1>2. Front(fs) # <<>> => Len(fs) > 1
  BY <1>1, EmptyIsSeq DEF IsSeq
<1>3. ASSUME NEW k \in 1..Len(Front(fs)) - 1
      PROVE  IsCallee(NoCTEs, Front(fs)[k], Front(fs)[k + 1])
  <2>1. k \in 1..Len(fs) - 1 /\ k + 1 \in 1..Len(fs) - 1
    BY <1>1
  <2>2. Front(fs)[k] = fs[k] /\ Front(fs)[k + 1] = fs[k + 1]
    BY <1>1, <2>1
  <2>. QED  BY <2>1, <2>2 DEF StackIds
<1>4. ASSUME NEW k \in 1..Len(Front(fs))
      PROVE  /\ Front(fs)[k] = fs[k] /\ k \in 1..Len(fs) /\ k < Len(fs)
             /\ FrameIds(origin, data, n, last, fs[k])
  BY <1>1 DEF StackIds
<1>5. ASSUME NEW j \in 1..Len(Front(fs)), NEW k \in 1..Len(Front(fs)), j < k,
             IsDelimJoin(fs[j].node), IsDelimJoin(fs[k].node)
      PROVE  fs[j].id # fs[k].id
  BY <1>4, <1>5 DEF StackIds
<1>6. StackIds(origin, data, n, last, Front(fs))
  BY <1>1, <1>3, <1>4, <1>5 DEF StackIds
<1>7. Len(fs) \in 1..Len(fs) /\ (Len(fs) > 1 =>
          /\ Len(fs) - 1 \in 1..Len(fs) - 1 /\ Len(fs) - 1 + 1 = Len(fs))
  BY <1>1
<1>8. Len(fs) > 1 => IsCallee(NoCTEs, fs[Len(fs) - 1], fs[Len(fs)])
  <2>1. Len(fs) > 1 => IsCallee(NoCTEs, fs[Len(fs) - 1], fs[Len(fs) - 1 + 1])
    BY <1>7 DEF StackIds
  <2>. QED  BY <1>7, <2>1
<1>. QED  BY <1>1, <1>2, <1>6, <1>7, <1>8 DEF StackIds

LEMMA TopIdDiffers ==
    ASSUME NEW origin, NEW data, NEW n, NEW last,
           NEW fs, StackIds(origin, data, n, last, fs), fs # <<>>,
           NEW k \in 1..Len(Front(fs)),
           IsDelimJoin(Front(fs)[k].node), IsDelimJoin(fs[Len(fs)].node)
    PROVE  Front(fs)[k].id # fs[Len(fs)].id
<1>1. /\ Len(Front(fs)) = Len(fs) - 1 /\ Len(fs) \in Nat \ {0}
      /\ \A i \in 1..Len(fs) - 1 : Front(fs)[i] = fs[i]
  BY FrontIsSeq DEF StackIds
<1>2. /\ k \in 1..Len(fs) /\ Len(fs) \in 1..Len(fs) /\ k < Len(fs)
      /\ Front(fs)[k] = fs[k]
  BY <1>1
<1>. QED  BY <1>2 DEF StackIds

LEMMA ReplaceIds ==
    ASSUME NEW origin, NEW data, NEW n, NEW last,
           NEW fs, StackIds(origin, data, n, last, fs), fs # <<>>,
           NEW e, FrameIds(origin, data, n, last, e),
           e.node = fs[Len(fs)].node, e.id = fs[Len(fs)].id,
           At(e) = At(fs[Len(fs)])
    PROVE  StackIds(origin, data, n, last, Append(Front(fs), e))
<1>1. Front(fs) # <<>> =>
          /\ Front(fs)[Len(Front(fs))] = fs[Len(fs) - 1]
          /\ IsCallee(NoCTEs, fs[Len(fs) - 1], fs[Len(fs)])
  BY PopIds
<1>2. Front(fs) # <<>> => IsCallee(NoCTEs, Front(fs)[Len(Front(fs))], e)
  BY <1>1 DEF IsCallee, At
<1>3. ASSUME NEW k \in 1..Len(Front(fs)), IsDelimJoin(Front(fs)[k].node),
             IsDelimJoin(e.node)
      PROVE  Front(fs)[k].id # e.id
  <2>1. IsDelimJoin(fs[Len(fs)].node)
    BY <1>3
  <2>. QED  BY <1>3, <2>1, TopIdDiffers
<1>4. StackIds(origin, data, n, last, Front(fs))
  BY PopIds
<1>. QED  BY <1>2, <1>3, <1>4, PushIds

\* The scope that a call passes on.
LEMMA InnerIds ==
    ASSUME NEW origin, NEW data, NEW n, NEW last,
           NEW f, IsFrame(f), FrameIds(origin, data, n, last, f),
           f.node.op = "delim_get" => f.scope # <<>>
    PROVE  ScopeIds(data, last, Inner(f))
<1>1. /\ ScopeIds(data, last, f.scope) /\ IsSeq(f.scope)
      /\ Len(f.scope) \in Nat
  BY DEF FrameIds, IsFrame, IsSeq
<1>2. CASE f.node.op = "delim_get"
  <2> DEFINE front == Front(f.scope)
             m == Len(f.scope)
  <2>1. /\ IsSeq(front) /\ Len(front) = m - 1 /\ m \in Nat \ {0}
        /\ \A i \in 1..m - 1 : front[i] = f.scope[i]
        /\ Inner(f) = front
    BY <1>1, <1>2, FrontIsSeq DEF Inner
  <2>. HIDE DEF front
  <2>2. ASSUME NEW i \in 1..Len(front)
        PROVE  LET id == front[i].computation_id
               IN  /\ id \in 1..last
                   /\ data[id] = Place(NoCTEs, front[i].data_side,
                                       OuterTo(front, i - 1))
    <3>1. i \in 1..m /\ front[i] = f.scope[i]
      BY <2>1
    <3>2. /\ i - 1 \in Nat /\ i - 1 <= Len(front) /\ i - 1 <= m
          /\ \A j \in 1..i - 1 : front[j] = f.scope[j]
      BY <2>1
    <3>3. OuterTo(front, i - 1) = OuterTo(f.scope, i - 1)
      BY <1>1, <2>1, <3>2, OuterToIsSame
    <3>. QED  BY <1>1, <3>1, <3>3 DEF ScopeIds
  <2>. QED  BY <2>1, <2>2 DEF ScopeIds
<1>3. CASE f.node.op # "delim_get" /\ ~AtScanSide(f)
  BY <1>1, <1>3 DEF Inner
<1>4. CASE f.node.op # "delim_get" /\ AtScanSide(f)
  <2> DEFINE new == Append(f.scope, Source(f))
             m == Len(f.scope)
  <2>1. /\ IsSeq(new) /\ Len(new) = m + 1 /\ new[m + 1] = Source(f)
        /\ \A i \in 1..m : new[i] = f.scope[i]
        /\ Inner(f) = new
    BY <1>1, <1>4, AppendIsSeq DEF Inner
  <2>. HIDE DEF new
  <2>2. ASSUME NEW i \in 1..m
        PROVE  LET id == new[i].computation_id
               IN  /\ id \in 1..last
                   /\ data[id] = Place(NoCTEs, new[i].data_side,
                                       OuterTo(new, i - 1))
    <3>1. /\ i - 1 \in Nat /\ i - 1 <= Len(new) /\ i - 1 <= m
          /\ \A j \in 1..i - 1 : new[j] = f.scope[j]
      BY <1>1, <2>1
    <3>2. OuterTo(new, i - 1) = OuterTo(f.scope, i - 1)
      BY <1>1, <2>1, <3>1, OuterToIsSame
    <3>. QED  BY <1>1, <2>1, <3>2 DEF ScopeIds
  <2>3. LET id == new[m + 1].computation_id
        IN  /\ id \in 1..last
            /\ data[id] = Place(NoCTEs, new[m + 1].data_side, OuterTo(new, m))
    <3>1. IsDelimJoin(f.node)
      BY <1>4 DEF AtScanSide
    <3>2. f.id \in 1..last /\ data[f.id] = Side(At(f), DataSide(f.node))
      BY <3>1 DEF FrameIds
    <3>3. OuterTo(new, m) = Outer(f.scope)
      <4>1. m <= Len(new) /\ m <= Len(f.scope)
        BY <1>1, <2>1
      <4>2. OuterTo(new, m) = OuterTo(f.scope, m)
        BY <1>1, <2>1, <4>1, OuterToIsSame
      <4>. QED  BY <1>1, <4>2, OuterToAll
    <3>4. /\ new[m + 1].computation_id = f.id
          /\ new[m + 1].data_side = f.node.children[DataSide(f.node)]
      BY <2>1 DEF Source
    <3>5. Side(At(f), DataSide(f.node)) =
              Place(NoCTEs, new[m + 1].data_side, OuterTo(new, m))
      BY <3>3, <3>4 DEF Side, At, PlaceOf, Place
    <3>. QED  BY <3>2, <3>4, <3>5
  <2>4. \A i \in 1..Len(new) : i \in 1..m \/ (i = m + 1 /\ i - 1 = m)
    BY <1>1, <2>1
  <2>. QED  BY <2>1, <2>2, <2>3, <2>4 DEF ScopeIds
<1>. QED  BY <1>2, <1>3, <1>4

LEMMA AwaitedAfterAppend ==
    ASSUME NEW fs, IsSeq(fs), NEW e, NEW id
    PROVE  IsAwaited(Append(fs, e), id) <=> IsAwaited(fs, id) \/ Awaits(e, id)
<1> DEFINE new == Append(fs, e)
<1>1. /\ Len(new) = Len(fs) + 1 /\ Len(fs) \in Nat
      /\ new[Len(fs) + 1] = e /\ \A i \in 1..Len(fs) : new[i] = fs[i]
  BY AppendIsSeq DEF IsSeq
<1>. HIDE DEF new
<1>2. \A k : k \in 1..Len(new) <=> k \in 1..Len(fs) \/ k = Len(fs) + 1
  BY <1>1
<1>3. IsAwaited(new, id) <=> IsAwaited(fs, id) \/ Awaits(e, id)
  BY <1>1, <1>2 DEF IsAwaited
<1>. QED  BY <1>3 DEF new

\* A call gives a delim join the next id, which no relation carries yet.
LEMMA CallIds ==
    ASSUME NEW origin, NEW data, NEW rs, IsSeq(rs), NEW last \in Nat,
           NEW fs, StackIds(origin, data, Len(rs), last, fs),
           SavesMean(data, rs, last, fs),
           \A i \in 1..Len(rs) : HintsMean(origin, data, rs, last, i),
           NEW g, g.done = <<>>, IsDelimJoin(g.node) => g.id = last + 1,
           ScopeIds(data, last, g.scope),
           fs # <<>> => IsCallee(NoCTEs, fs[Len(fs)], g),
           NEW last2, last2 = last + (IF IsDelimJoin(g.node) THEN 1 ELSE 0),
           NEW data2, data2 = Extended(data, last, Side(At(g), DataSide(g.node)))
    PROVE  /\ StackIds(origin, data2, Len(rs), last2, Append(fs, g))
           /\ SavesMean(data2, rs, last2, Append(fs, g))
           /\ \A i \in 1..Len(rs) : HintsMean(origin, data2, rs, last2, i)
<1> DEFINE new == Append(fs, g)
           n == Len(rs)
<1>1. /\ last2 \in Nat /\ last <= last2 /\ n \in Nat
      /\ \A id \in 1..last : data2[id] = data[id]
      /\ data2[last + 1] = Side(At(g), DataSide(g.node))
      /\ \A id \in 1..last2 : id \in 1..last \/ (id = last + 1 /\ IsDelimJoin(g.node))
      /\ IsDelimJoin(g.node) => last + 1 \in 1..last2
  BY DEF Extended, IsSeq
<1>2. StackIds(origin, data2, n, last2, fs)
  <2>1. Outlive(origin, data, n, last, origin, data2, n, last2)
    BY <1>1 DEF Outlive
  <2>. HIDE DEF n
  <2>. QED  BY <2>1, StackIdsOutlive DEF n
<1>3. FrameIds(origin, data2, n, last2, g)
  <2>1. ScopeIds(data2, last2, g.scope)
    <3>1. ASSUME NEW m \in 1..Len(g.scope)
          PROVE  LET id == g.scope[m].computation_id
                 IN  /\ id \in 1..last2
                     /\ data2[id] = Place(NoCTEs, g.scope[m].data_side,
                                          OuterTo(g.scope, m - 1))
      <4> DEFINE id == g.scope[m].computation_id
      <4>1. /\ id \in 1..last
            /\ data[id] = Place(NoCTEs, g.scope[m].data_side,
                                OuterTo(g.scope, m - 1))
        BY DEF ScopeIds
      <4>. HIDE DEF id
      <4>2. id \in 1..last2 /\ data2[id] = data[id]
        BY <1>1, <4>1
      <4>. QED  BY <4>1, <4>2 DEF id
    <3>. QED  BY <3>1 DEF ScopeIds
  <2>2. Len(g.done) = 0 /\ IsSeq(g.done) /\ 0 <= Arity(g.node)
    BY EmptyIsSeq DEF Arity
  <2>3. \A k \in 1..Len(g.done) : FALSE
    BY <2>2
  <2>4. IsDelimJoin(g.node) =>
            g.id \in 1..last2 /\ data2[g.id] = Side(At(g), DataSide(g.node))
    BY <1>1
  <2>. QED  BY <2>1, <2>2, <2>3, <2>4 DEF FrameIds
<1>4. ASSUME NEW k \in 1..Len(fs), IsDelimJoin(fs[k].node), IsDelimJoin(g.node)
      PROVE  fs[k].id # g.id
  <2>1. fs[k].id \in 1..last
    BY <1>4 DEF StackIds, FrameIds
  <2>. QED  BY <1>4, <2>1
<1>5. StackIds(origin, data2, n, last2, new)
  BY <1>2, <1>3, <1>4, PushIds
<1>6. ASSUME NEW i \in 1..n
      PROVE  HintsMean(origin, data2, rs, last2, i)
  <2>1. ASSUME NEW kind, NEW id, <<kind, id>> \in rs[i].hints
        PROVE  /\ id \in 1..last2 /\ origin[i] = data2[id]
               /\ origin[i].node.op # "cte_ref"
    <3>1. /\ id \in 1..last /\ origin[i] = data[id]
          /\ origin[i].node.op # "cte_ref"
      BY <2>1 DEF HintsMean
    <3>. QED  BY <1>1, <3>1
  <2>. QED  BY <2>1 DEF HintsMean
<1>. HIDE DEF n, new
<1>7. IsSeq(fs)
  BY DEF StackIds
<1>8. SavesMean(data2, rs, last2, new)
  <2>. SUFFICES ASSUME NEW id \in 1..last2
       PROVE  SaveMeans(data2, rs, new, id)
    BY DEF SavesMean
  <2>1. IsAwaited(new, id) <=> IsAwaited(fs, id) \/ Awaits(g, id)
    BY <1>7, AwaitedAfterAppend DEF new
  <2>2. CASE id \in 1..last
    <3>1. ~Awaits(g, id)
      BY <1>1, <2>2 DEF Awaits
    <3>2. SaveMeans(data, rs, fs, id)
      BY <2>2 DEF SavesMean
    <3>3. data2[id] = data[id]
      BY <1>1, <2>2
    <3>. QED  BY <2>1, <3>1, <3>2, <3>3, Zenon DEF SaveMeans
  <2>3. CASE id = last + 1 /\ IsDelimJoin(g.node)
    <3>1. Awaits(g, id)
      <4>1. \A k \in 1..Len(g.done) : FALSE
        BY EmptyIsSeq
      <4>. QED  BY <2>3, <4>1 DEF Awaits, HasData
    <3>2. \A i \in 1..n : <<"saved", id>> \notin rs[i].hints
      <4>1. id \notin 1..last
        BY <2>3
      <4>. QED  BY <4>1 DEF HintsMean, n
    <3>. QED  BY <2>1, <3>1, <3>2 DEF SaveMeans, IsSaved, IsSavedOnce, n
  <2>. QED  BY <1>1, <2>2, <2>3
<1>. QED  BY <1>5, <1>6, <1>8 DEF n, new

-----------------------------------------------------------------------------
(* One more relation.                                                      *)

\* Claims that no datum needs to be told of.
Always(x) == TRUE
Depth(i) == i
InputsOf(i) == {rels[i].inputs[k] : k \in DOMAIN rels[i].inputs}
PlainBy(plain, i) ==
    <<rels[i].rel,
      [k \in DOMAIN rels[i].inputs |-> plain[rels[i].inputs[k]]]>>
PlainOf == INSTANCE Recursion WITH Height <- Depth, Parts <- InputsOf,
                                   Step <- PlainBy, Claim <- Always

LEMMA OrdinalStays ==
    ASSUME NEW indices, IsSeq(indices), NEW o, NEW index,
           IsOrdinal(indices, o, index), NEW x
    PROVE  IsOrdinal(Append(indices, x), o, index)
<1> DEFINE new == Append(indices, x)
<1>1. /\ Len(indices) \in Nat /\ Len(new) = Len(indices) + 1
      /\ \A i \in 1..Len(indices) : new[i] = indices[i]
  BY AppendIsSeq DEF IsSeq
<1>. HIDE DEF new
<1>2. new[o + 1] = indices[o + 1] /\ \A j \in 1..o : new[j] = indices[j]
  BY <1>1 DEF IsOrdinal
<1>3. IsOrdinal(new, o, index)
  BY <1>1, <1>2 DEF IsOrdinal
<1>. QED  BY <1>3 DEF new

\* A relation stays where it was made.
LEMMA MadeOutlives ==
    ASSUME NEW origin, NEW rs, NEW indices, NEW n \in Nat, NEW i \in 1..n,
           MadeAt(origin, rs, indices, i),
           NEW origin2, \A j \in 1..n : origin2[j] = origin[j],
           NEW rs2, rs2[i] = rs[i],
           NEW indices2,
           \A o, index : IsOrdinal(indices, o, index)
                             => IsOrdinal(indices2, o, index)
    PROVE  MadeAt(origin2, rs2, indices2, i)
<1> DEFINE place == origin[i]
           node == place.node
           inputs == rs[i].inputs
<1>1. origin2[i] = place /\ rs2[i] = rs[i] /\ i - 1 \in Nat /\ i - 1 < n
  OBVIOUS
<1>2. IsSeq(inputs) /\ Len(inputs) = Arity(node)
  BY DEF MadeAt
<1>3. ASSUME NEW k \in 1..Len(inputs)
      PROVE  /\ inputs[k] \in 1..i - 1
             /\ origin2[inputs[k]] = IF node.op = "delim_get" THEN Copy(place)
                                     ELSE Side(place, Turn(node, k))
  <2>1. /\ inputs[k] \in 1..i - 1
        /\ origin[inputs[k]] = IF node.op = "delim_get" THEN Copy(place)
                               ELSE Side(place, Turn(node, k))
    BY DEF MadeAt
  <2>2. inputs[k] \in 1..n
    BY <1>1, <2>1
  <2>. QED  BY <2>1, <2>2
<1>4. \/ node.op = "get" /\ rs[i].rel = <<"read", node.table>>
      \/ node.op = "cte_ref" /\ \E o : /\ IsOrdinal(indices2, o, node.index)
                                       /\ rs[i].rel = <<"reference", o>>
      \/ /\ node.op = "delim_get"
         /\ rs[i].rel = <<"aggregate", Last(place.scope).columns>>
      \/ node.op = "join" /\ rs[i].rel = <<"join", node.type>>
  BY DEF MadeAt
<1>. HIDE DEF place, node, inputs
<1>5. origin2[i] = place /\ rs2[i].inputs = inputs /\ rs2[i].rel = rs[i].rel
      /\ origin2[i].node = node
  BY <1>1 DEF inputs, node, place
<1>. QED  BY <1>2, <1>3, <1>4, <1>5 DEF MadeAt

\* A reference that is made has the position of the first equal index.
LEMMA OrdinalIsFirst ==
    ASSUME IsSeq(cte_indices), NEW index, IsKnownCTE(index)
    PROVE  IsOrdinal(cte_indices, Ordinal(index), index)
<1> DEFINE T == {k \in 1..Len(cte_indices) : cte_indices[k] = index}
           P(k) == /\ cte_indices[k] = index
                   /\ \A j \in 1..k - 1 : cte_indices[j] # index
<1>1. DOMAIN cte_indices = 1..Len(cte_indices) /\ Len(cte_indices) \in Nat
  BY DEF IsSeq
<1>2. T # {} /\ T \subseteq Nat
  BY <1>1 DEF IsKnownCTE
<1>3. PICK n \in T : \A m \in T : n <= m
  <2>. HIDE DEF T
  <2>. QED  BY <1>2, PlainOf!SmallestNat, Zenon
<1>4. n \in DOMAIN cte_indices /\ P(n)
  <2>1. ASSUME NEW j \in 1..n - 1
        PROVE  cte_indices[j] # index
    <3>1. j \in 1..Len(cte_indices) /\ ~(n <= j)
      BY <1>1
    <3>. QED  BY <1>3, <3>1
  <2>. QED  BY <1>1, <2>1
<1>5. PICK first : first = CHOOSE k \in DOMAIN cte_indices : P(k)
  OBVIOUS
<1>6. first \in DOMAIN cte_indices /\ P(first)
  <2>. HIDE DEF P
  <2>. QED  BY <1>4, <1>5, Zenon
<1>7. Ordinal(index) = first - 1
  BY <1>5, Zenon DEF Ordinal
<1>8. first \in 1..Len(cte_indices) /\ first - 1 + 1 = first
      /\ first - 1 \in Nat /\ first - 1 < Len(cte_indices)
  BY <1>1, <1>6
<1>. QED  BY <1>6, <1>7, <1>8 DEF IsOrdinal

\* What a complete call builds is made at its place.
LEMMA BuiltMadeAt ==
    ASSUME NEW origin, NEW data, NEW n \in Nat, NEW last,
           NEW f, FrameIds(origin, data, n, last, f), IsComplete(f),
           IsFrame(f), IsSeq(cte_indices),
           NEW rs, rs[n + 1].rel = Built(f).rel,
           rs[n + 1].inputs = Built(f).inputs,
           NEW origin2, origin2[n + 1] = At(f),
           \A i \in 1..n : origin2[i] = origin[i]
    PROVE  MadeAt(origin2, rs, cte_indices, n + 1)
<1>1. /\ At(f).node = f.node /\ At(f).scope = Outer(f.scope)
      /\ n + 1 - 1 = n
  BY DEF At, PlaceOf, Place
<1>2. CASE f.node.op = "get"
  <2>1. /\ rs[n + 1].rel = <<"read", f.node.table>>
        /\ rs[n + 1].inputs = <<>> /\ Arity(f.node) = 0
    BY <1>2 DEF Built, Read, Rel, Arity
  <2>. QED  BY <1>1, <1>2, <2>1, EmptyIsSeq DEF MadeAt
<1>3. CASE f.node.op = "cte_ref"
  <2>1. /\ rs[n + 1].rel = <<"reference", Ordinal(f.node.index)>>
        /\ rs[n + 1].inputs = <<>> /\ Arity(f.node) = 0
    BY <1>3 DEF Built, Reference, Rel, Arity
  <2>2. IsOrdinal(cte_indices, Ordinal(f.node.index), f.node.index)
    BY <1>3, OrdinalIsFirst DEF IsComplete
  <2>. QED  BY <1>1, <1>3, <2>1, <2>2, EmptyIsSeq DEF MadeAt
<1>4. ASSUME NEW k \in 1..Len(f.done)
      PROVE  f.done[k] \in 1..n /\ origin2[f.done[k]] = PartOf(NoCTEs, f, k)
  <2>1. f.done[k] \in 1..n /\ origin[f.done[k]] = PartOf(NoCTEs, f, k)
    BY DEF FrameIds
  <2>. QED  BY <2>1
<1>5. CASE f.node.op = "delim_get"
  <2>1. Len(f.done) = 1 /\ Arity(f.node) = 1 /\ IsSeq(f.done)
    BY <1>5 DEF IsComplete, Arity, FrameIds
  <2>2. KeepsSource(f)
    BY <2>1, EmptyIsSeq DEF FrameIds
  <2>3. /\ rs[n + 1].rel = <<"aggregate", f.source.column_indices>>
        /\ rs[n + 1].inputs = f.done
    BY <1>5 DEF Built, Rel
  <2>4. f.scope # <<>> /\ f.source = Last(f.scope) /\ IsSeq(f.scope)
    BY <1>5, <2>2 DEF KeepsSource, IsFrame
  <2>5. Last(At(f).scope).columns = f.source.column_indices
    <3>1. Last(Outer(f.scope)) = [data_side |-> Last(f.scope).data_side,
                                  columns |-> Last(f.scope).column_indices]
      BY <2>4, OuterIsSeq, Zenon
    <3>. QED  BY <1>1, <2>4, <3>1
  <2>6. \A k \in 1..Len(f.done) : PartOf(NoCTEs, f, k) = Copy(At(f))
    BY <1>5 DEF PartOf, At
  <2>. QED  BY <1>1, <1>4, <1>5, <2>1, <2>3, <2>5, <2>6 DEF MadeAt
<1>6. CASE f.node.op = "join"
  <2>1. Len(f.done) = 2 /\ Arity(f.node) = 2 /\ IsSeq(f.done)
    BY <1>6 DEF IsComplete, Arity, FrameIds
  <2>2. /\ rs[n + 1].rel = <<"join", f.node.type>>
        /\ rs[n + 1].inputs = f.done
    BY <1>6 DEF Built, Rel
  <2>3. \A k : PartOf(NoCTEs, f, k) = Side(At(f), Turn(f.node, k))
    BY <1>6 DEF PartOf, At, Turn
  <2>. QED  BY <1>1, <1>4, <1>6, <2>1, <2>2, <2>3 DEF MadeAt
<1>. QED  BY <1>2, <1>3, <1>5, <1>6 DEF IsComplete

\* A complete call does not wait for a data side any more.
LEMMA CompleteAwaitsNothing ==
    ASSUME NEW origin, NEW data, NEW n, NEW last,
           NEW f, FrameIds(origin, data, n, last, f), IsComplete(f), NEW id
    PROVE  ~Awaits(f, id)
<1>. SUFFICES ASSUME IsDelimJoin(f.node) PROVE HasData(f)
  BY DEF Awaits
<1>1. Len(f.done) = 2
  BY DEF IsComplete, IsDelimJoin
<1>2. 1 \in 1..Len(f.done) /\ 2 \in 1..Len(f.done)
  BY <1>1
<1>3. Turn(f.node, 1) = DataSide(f.node) \/ Turn(f.node, 2) = DataSide(f.node)
  BY DEF Turn, DataSide
<1>. QED  BY <1>2, <1>3 DEF HasData

\* The hints of a relation that is handed to its caller.
LEMMA ReceivedHints ==
    ASSUME NEW f, NEW caller
    PROVE  /\ Received(caller, Built(f)).rel = Built(f).rel
           /\ Received(caller, Built(f)).inputs = Built(f).inputs
           /\ Built(f).hints = {}
           /\ Received(caller, Built(f)).hints =
                  IF IsReference(Built(f)) THEN {}
                  ELSE IF caller.node.op = "delim_get"
                  THEN {<<"loaded", caller.source.computation_id>>}
                  ELSE IF AtDataSide(caller) THEN {<<"saved", caller.id>>} ELSE {}
<1>1. Built(f) = [rel |-> Built(f).rel, inputs |-> Built(f).inputs,
                  hints |-> {}]
  BY DEF Built, Read, Reference, Rel
<1>2. ASSUME NEW r, r = [rel |-> r.rel, inputs |-> r.inputs, hints |-> {}],
             NEW kind, NEW id
      PROVE  /\ Hint(r, kind, id).rel = r.rel /\ Hint(r, kind, id).inputs = r.inputs
             /\ Hint(r, kind, id).hints =
                    IF IsReference(r) THEN {} ELSE {<<kind, id>>}
  BY <1>2 DEF Hint
<1>3. Built(f).hints = {}
  BY <1>1
<1>4. CASE caller.node.op = "delim_get"
  <2>1. Received(caller, Built(f)) =
            Hint(Built(f), "loaded", caller.source.computation_id)
    BY <1>4 DEF Received
  <2>. QED  BY <1>1, <1>2, <1>3, <1>4, <2>1
<1>5. CASE caller.node.op # "delim_get" /\ AtDataSide(caller)
  <2>1. Received(caller, Built(f)) = Hint(Built(f), "saved", caller.id)
    BY <1>5 DEF Received
  <2>. QED  BY <1>1, <1>2, <1>3, <1>5, <2>1
<1>6. CASE caller.node.op # "delim_get" /\ ~AtDataSide(caller)
  BY <1>3, <1>6 DEF Received
<1>. QED  BY <1>4, <1>5, <1>6

\* A relation that is a reference is made at one.
LEMMA ReferenceIsCTERef ==
    ASSUME NEW f, f.node.op = "cte_ref"
    PROVE  IsReference(Built(f))
BY DEF Built, Reference, Rel, IsReference

LEMMA OtherIsNoReference ==
    ASSUME NEW f, f.node.op # "cte_ref"
    PROVE  ~IsReference(Built(f))
BY DEF Built, Read, Rel, IsReference

\* A relation that is not saved for an id makes no difference to it.
LEMMA NotSaved ==
    ASSUME NEW rs, IsSeq(rs), NEW r, NEW id, <<"saved", id>> \notin r.hints
    PROVE  /\ IsSaved(Append(rs, r), id) <=> IsSaved(rs, id)
           /\ IsSavedOnce(rs, id) => IsSavedOnce(Append(rs, r), id)
<1> DEFINE new == Append(rs, r)
<1>1. /\ Len(new) = Len(rs) + 1 /\ Len(rs) \in Nat
      /\ new[Len(rs) + 1] = r /\ \A i \in 1..Len(rs) : new[i] = rs[i]
  BY AppendIsSeq DEF IsSeq
<1>. HIDE DEF new
<1>2. \A k : k \in 1..Len(new) <=> k \in 1..Len(rs) \/ k = Len(rs) + 1
  BY <1>1
<1>3. IsSaved(new, id) <=> IsSaved(rs, id)
  BY <1>1, <1>2 DEF IsSaved
<1>4. IsSavedOnce(rs, id) => IsSavedOnce(new, id)
  BY <1>1, <1>2 DEF IsSavedOnce
<1>. QED  BY <1>3, <1>4 DEF new

LEMMA FirstSaved ==
    ASSUME NEW rs, IsSeq(rs), NEW r, NEW id, <<"saved", id>> \in r.hints,
           ~IsSaved(rs, id)
    PROVE  IsSaved(Append(rs, r), id) /\ IsSavedOnce(Append(rs, r), id)
<1> DEFINE new == Append(rs, r)
<1>1. /\ Len(new) = Len(rs) + 1 /\ Len(rs) \in Nat
      /\ new[Len(rs) + 1] = r /\ \A i \in 1..Len(rs) : new[i] = rs[i]
  BY AppendIsSeq DEF IsSeq
<1>. HIDE DEF new
<1>2. \A k : k \in 1..Len(new) <=> k \in 1..Len(rs) \/ k = Len(rs) + 1
  BY <1>1
<1>3. IsSaved(new, id)
  BY <1>1, <1>2 DEF IsSaved
<1>4. IsSavedOnce(new, id)
  BY <1>1, <1>2 DEF IsSavedOnce, IsSaved
<1>. QED  BY <1>3, <1>4 DEF new

\* The relations stay right when one is added.
LEMMA OneMoreMark ==
    ASSUME NEW origin, NEW data, NEW rs, NEW indices, NEW last,
           MarksMean(origin, data, rs, indices, last),
           NEW origin2, \A i \in 1..Len(rs) : origin2[i] = origin[i],
           NEW r,
           MadeAt(origin2, Append(rs, r), indices, Len(rs) + 1),
           HintsMean(origin2, data, Append(rs, r), last, Len(rs) + 1)
    PROVE  MarksMean(origin2, data, Append(rs, r), indices, last)
<1> DEFINE new == Append(rs, r)
           n == Len(rs)
<1>1. /\ IsSeq(new) /\ Len(new) = n + 1 /\ n \in Nat
      /\ \A i \in 1..n : new[i] = rs[i]
  BY AppendIsSeq DEF MarksMean, IsSeq
<1>2. /\ MadeAt(origin2, new, indices, n + 1)
      /\ HintsMean(origin2, data, new, last, n + 1)
      /\ \A i \in 1..n : origin2[i] = origin[i]
  OBVIOUS
<1>. HIDE DEF new
<1>3. ASSUME NEW i \in 1..n
      PROVE  /\ MadeAt(origin2, new, indices, i)
             /\ HintsMean(origin2, data, new, last, i)
  <2>1. /\ MadeAt(origin, rs, indices, i)
        /\ HintsMean(origin, data, rs, last, i)
    BY DEF MarksMean
  <2>2. new[i] = rs[i] /\ origin2[i] = origin[i]
    BY <1>1, <1>2
  <2>3. HintsMean(origin2, data, new, last, i)
    BY <2>1, <2>2 DEF HintsMean
  <2>. HIDE DEF n
  <2>4. MadeAt(origin2, new, indices, i)
    BY <1>1, <1>2, <2>1, <2>2, MadeOutlives
  <2>. QED  BY <2>3, <2>4
<1>4. \A i \in 1..n + 1 : i \in 1..n \/ i = n + 1
  BY <1>1
<1>5. MarksMean(origin2, data, new, indices, last)
  BY <1>1, <1>2, <1>3, <1>4 DEF MarksMean
<1>. QED  BY <1>5 DEF new

\* And when ids or CTEs are.
LEMMA MarksOutlive ==
    ASSUME NEW origin, NEW data, NEW rs, NEW indices, NEW last \in Nat,
           MarksMean(origin, data, rs, indices, last),
           NEW data2, NEW last2 \in Nat, last <= last2,
           \A id \in 1..last : data2[id] = data[id],
           NEW indices2,
           \A o, index : IsOrdinal(indices, o, index)
                             => IsOrdinal(indices2, o, index)
    PROVE  MarksMean(origin, data2, rs, indices2, last2)
<1> DEFINE n == Len(rs)
<1>1. IsSeq(rs) /\ n \in Nat
  BY DEF MarksMean, IsSeq
<1>2. ASSUME NEW i \in 1..n
      PROVE  /\ MadeAt(origin, rs, indices2, i)
             /\ HintsMean(origin, data2, rs, last2, i)
  <2>1. /\ MadeAt(origin, rs, indices, i)
        /\ HintsMean(origin, data, rs, last, i)
    BY DEF MarksMean
  <2>. HIDE DEF n
  <2>2. \A j \in 1..n : origin[j] = origin[j]
    OBVIOUS
  <2>3. MadeAt(origin, rs, indices2, i)
    BY <1>1, <2>1, <2>2, MadeOutlives
  <2>4. ASSUME NEW kind, NEW id, <<kind, id>> \in rs[i].hints
        PROVE  /\ id \in 1..last2 /\ origin[i] = data2[id]
               /\ origin[i].node.op # "cte_ref"
    <3>1. /\ id \in 1..last /\ origin[i] = data[id]
          /\ origin[i].node.op # "cte_ref"
      BY <2>1, <2>4 DEF HintsMean
    <3>. QED  BY <3>1
  <2>. QED  BY <2>3, <2>4 DEF HintsMean
<1>. QED  BY <1>1, <1>2 DEF MarksMean

-----------------------------------------------------------------------------
(* The steps, for the hints.                                               *)

LEMMA HintsInit ==
    Init => \E origin, data : HintsInv(origin, data)
<1>. SUFFICES ASSUME Init PROVE HintsInv(<<>>, <<>>)
  BY Zenon
<1>1. /\ frames = <<>> /\ last_computation_id = 0 /\ cte_indices = <<>>
      /\ rels = <<>> /\ status = "running"
  BY DEF Init
<1>2. MarksMean(<<>>, <<>>, <<>>, <<>>, 0)
  BY EmptyIsSeq DEF MarksMean
<1>3. StackIds(<<>>, <<>>, 0, 0, <<>>)
  BY EmptyIsSeq DEF StackIds
<1>4. SavesMean(<<>>, <<>>, 0, <<>>)
  BY DEF SavesMean
<1>. QED  BY <1>1, <1>2, <1>3, <1>4, EmptyIsSeq DEF HintsInv

\* A call, when under is what the stack is by then.
LEMMA CallKeepsHints ==
    ASSUME NEW origin, NEW data, HintsInv(origin, data), status = "running",
           NEW under,
           StackIds(origin, data, Len(rels), last_computation_id, under),
           SavesMean(data, rels, last_computation_id, under),
           NEW node, NEW scope, ScopeIds(data, last_computation_id, scope),
           under # <<>> =>
               IsCallee(NoCTEs, under[Len(under)], Frame(node, scope)),
           Call(under, node, scope), rels' = rels, status' = status,
           IsSeq(cte_indices'),
           \A o, index : IsOrdinal(cte_indices, o, index)
                             => IsOrdinal(cte_indices', o, index)
    PROVE  \E later : HintsInv(origin, later)'
<1> DEFINE g == Frame(node, scope)
<1>1. PICK rs, last, indices : /\ rs = rels /\ last = last_computation_id
                               /\ indices = cte_indices
  OBVIOUS
<1>2. PICK call : call = g
  OBVIOUS
<1>3. /\ call.done = <<>> /\ call.scope = scope /\ call.node = node
      /\ IsDelimJoin(call.node) => call.id = last + 1
  BY <1>1, <1>2 DEF Frame
<1>4. PICK later : later = Extended(data, last, Side(At(call), DataSide(node)))
  OBVIOUS
<1>5. PICK last2 : last2 = last + (IF IsDelimJoin(node) THEN 1 ELSE 0)
  OBVIOUS
<1>6. /\ last \in Nat /\ last2 \in Nat /\ last <= last2 /\ IsSeq(rs)
      /\ MarksMean(origin, data, rs, indices, last)
      /\ \A i \in 1..Len(rs) : HintsMean(origin, data, rs, last, i)
  BY <1>1, <1>5 DEF HintsInv, MarksMean
<1>7. /\ StackIds(origin, later, Len(rs), last2, Append(under, call))
      /\ SavesMean(later, rs, last2, Append(under, call))
  BY <1>1, <1>2, <1>3, <1>4, <1>5, <1>6, CallIds
<1>8. \A id \in 1..last : later[id] = data[id]
  BY <1>4, <1>6 DEF Extended
<1>9. PICK indices2 : indices2 = cte_indices'
  OBVIOUS
<1>10. MarksMean(origin, later, rs, indices2, last2)
  BY <1>1, <1>6, <1>8, <1>9, MarksOutlive
<1>11. /\ rels' = rs /\ last_computation_id' = last2
       /\ frames' = Append(under, call) /\ status' = "running"
  BY <1>1, <1>2, <1>5 DEF Call
<1>12. HintsInv(origin, later)'
  BY <1>6, <1>7, <1>9, <1>10, <1>11 DEF HintsInv
<1>. QED  BY <1>12

LEMMA TransformCTEHints ==
    ASSUME NEW origin, NEW data, HintsInv(origin, data), TransformCTE
    PROVE  \E later : HintsInv(origin, later)'
<1>1. /\ StackIds(origin, data, Len(rels), last_computation_id, <<>>)
      /\ SavesMean(data, rels, last_computation_id, <<>>)
      /\ status = "running" /\ rels' = rels /\ status' = status
      /\ Call(<<>>, todo.children[1], <<>>)
  BY DEF HintsInv, TransformCTE, Running
<1>2. ScopeIds(data, last_computation_id, <<>>)
  BY EmptyIsSeq DEF ScopeIds
<1>3. /\ IsSeq(cte_indices')
      /\ \A o, index : IsOrdinal(cte_indices, o, index)
                           => IsOrdinal(cte_indices', o, index)
  BY AppendIsSeq, OrdinalStays DEF HintsInv, TransformCTE
<1>. QED  BY <1>1, <1>2, <1>3, CallKeepsHints

LEMMA TransformRootOpHints ==
    ASSUME NEW origin, NEW data, HintsInv(origin, data), TransformRootOp
    PROVE  \E later : HintsInv(origin, later)'
<1>1. /\ StackIds(origin, data, Len(rels), last_computation_id, <<>>)
      /\ SavesMean(data, rels, last_computation_id, <<>>)
      /\ status = "running" /\ rels' = rels /\ status' = status
      /\ Call(<<>>, todo, <<>>)
  BY DEF HintsInv, TransformRootOp, Running
<1>2. ScopeIds(data, last_computation_id, <<>>)
  BY EmptyIsSeq DEF ScopeIds
<1>3. /\ IsSeq(cte_indices')
      /\ \A o, index : IsOrdinal(cte_indices, o, index)
                           => IsOrdinal(cte_indices', o, index)
  BY DEF HintsInv, TransformRootOp
<1>. QED  BY <1>1, <1>2, <1>3, CallKeepsHints

LEMMA TransformChildHints ==
    ASSUME NEW origin, NEW data, IInv, HintsInv(origin, data), TransformChild
    PROVE  \E later : HintsInv(origin, later)'
<1> DEFINE f == Top
           node == f.node.children[ChildIndex(f)]
           g == Frame(node, Inner(f))
<1>1. /\ frames # <<>> /\ f.node.op = "join" /\ Len(f.done) < 2
      /\ Call(frames, node, Inner(f)) /\ status = "running"
      /\ UNCHANGED <<cte_indices, rels, status>>
  BY DEF TransformChild, Calling, Running, Inner
<1>2. IsFrame(f) /\ Len(frames) \in Nat \ {0} /\ f = frames[Len(frames)]
  BY <1>1, TopIsFrame DEF IInv, Top
<1>3. /\ StackIds(origin, data, Len(rels), last_computation_id, frames)
      /\ SavesMean(data, rels, last_computation_id, frames)
      /\ FrameIds(origin, data, Len(rels), last_computation_id, f)
  <2>1. Len(frames) \in 1..Len(frames)
    BY <1>2
  <2>. QED  BY <1>2, <2>1 DEF HintsInv, StackIds
<1>4. IsCallee(NoCTEs, f, g)
  <2>1. g.scope = Inner(f) /\ g.node = f.node.children[ChildIndex(f)]
    BY DEF Frame
  <2>2. PlaceOf(NoCTEs, g) = Place(NoCTEs, f.node.children[ChildIndex(f)],
                                   Outer(Inner(f)))
    BY <2>1 DEF PlaceOf
  <2>3. PlaceOf(NoCTEs, g) = PartOf(NoCTEs, f, Len(f.done) + 1)
    BY <1>1, <1>2, <2>2, CalleePlace
  <2>. QED  BY <1>1, <2>3 DEF IsCallee, Arity
<1>5. ScopeIds(data, last_computation_id, Inner(f))
  BY <1>1, <1>2, <1>3, InnerIds
<1>6. /\ IsSeq(cte_indices')
      /\ \A o, index : IsOrdinal(cte_indices, o, index)
                           => IsOrdinal(cte_indices', o, index)
  BY <1>1 DEF HintsInv
<1>. HIDE DEF f, node
<1>. QED  BY <1>1, <1>2, <1>3, <1>4, <1>5, <1>6, CallKeepsHints

\* A delim get that notes its source waits for as much as before.
LEMMA SameAwaited ==
    ASSUME NEW fs, IsSeq(fs), fs # <<>>, NEW e, NEW id,
           Awaits(e, id) <=> Awaits(fs[Len(fs)], id)
    PROVE  IsAwaited(Append(Front(fs), e), id) <=> IsAwaited(fs, id)
<1> DEFINE front == Front(fs)
           top == fs[Len(fs)]
<1>1. IsSeq(front) /\ Append(front, top) = fs
  BY FrontIsSeq DEF Last
<1>. HIDE DEF front, top
<1>2. IsAwaited(Append(front, top), id) <=> IsAwaited(front, id) \/ Awaits(top, id)
  BY <1>1, AwaitedAfterAppend
<1>3. IsAwaited(Append(front, e), id) <=> IsAwaited(front, id) \/ Awaits(e, id)
  BY <1>1, AwaitedAfterAppend
<1>. QED  BY <1>1, <1>2, <1>3 DEF front, top

LEMMA TransformCopyHints ==
    ASSUME NEW origin, NEW data, IInv, HintsInv(origin, data), TransformCopy
    PROVE  \E later : HintsInv(origin, later)'
<1>1. /\ StackOK(frames) /\ frames # <<>> /\ sources = Top.scope
      /\ Top.node.op = "delim_get" /\ Top = frames[Len(frames)]
      /\ Top.done = <<>> /\ status = "running"
  BY DEF IInv, SourcesMatch, TransformCopy, Calling, Running, Top
<1>2. IsFrame(Top) /\ Under = Front(frames) /\ Len(frames) \in Nat \ {0}
  BY <1>1, TopIsFrame
<1>3. CASE /\ status' \in {"not_implemented", "internal_error"}
           /\ UNCHANGED <<frames, last_computation_id, cte_indices, rels>>
  BY <1>3 DEF HintsInv
<1>4. ASSUME sources # <<>>,
             Call(Append(Under, [Top EXCEPT !.source = Last(sources)]),
                  Last(sources).data_side, Front(Top.scope)),
             UNCHANGED <<cte_indices, rels, status>>
      PROVE  \E later : HintsInv(origin, later)'
  <2> DEFINE n == Len(rels)
             last == last_computation_id
             f == Top
             get == [f EXCEPT !.source = Last(f.scope)]
             node == Last(f.scope).data_side
             scope == Front(f.scope)
             g == Frame(node, scope)
             old == Append(Front(frames), get)
  <2>1. /\ get.node = f.node /\ get.scope = f.scope /\ get.id = f.id
        /\ get.done = f.done /\ get.source = Last(f.scope) /\ IsFrame(get)
    BY <1>2 DEF IsFrame
  <2>2. Call(old, node, scope)
    BY <1>1, <1>2, <1>4
  <2>3. /\ StackIds(origin, data, n, last, frames)
        /\ SavesMean(data, rels, last, frames)
        /\ FrameIds(origin, data, n, last, f)
    <3>1. Len(frames) \in 1..Len(frames)
      BY <1>2
    <3>. QED  BY <1>1, <3>1 DEF HintsInv, StackIds
  <2>4. /\ f.scope # <<>> /\ IsSeq(f.scope) /\ Len(f.done) = 0
        /\ f.node.op = "delim_get" /\ f = frames[Len(frames)]
        /\ ~IsDelimJoin(f.node)
    BY <1>1, <1>2, <1>4, EmptyIsSeq DEF IsFrame, IsDelimJoin
  <2>. HIDE DEF f, get, old
  <2>5. At(get) = At(f)
    BY <2>1 DEF At, PlaceOf
  <2>6. FrameIds(origin, data, n, last, get)
    <3>1. \A k : PartOf(NoCTEs, get, k) = PartOf(NoCTEs, f, k)
      BY <2>1 DEF PartOf, PlaceOf
    <3>2. f.done # <<>> => KeepsSource(f)
      BY <2>3 DEF FrameIds
    <3>3. KeepsSource(get)
      BY <2>1, <2>4 DEF KeepsSource
    <3>. QED  BY <2>1, <2>3, <2>4, <2>5, <3>1, <3>3 DEF FrameIds
  <2>7. StackIds(origin, data, n, last, old)
    BY <1>1, <2>1, <2>3, <2>4, <2>5, <2>6, ReplaceIds DEF old
  <2>8. SavesMean(data, rels, last, old)
    <3>1. IsSeq(frames)
      BY <1>1 DEF StackOK
    <3>2. ASSUME NEW id
          PROVE  IsAwaited(old, id) <=> IsAwaited(frames, id)
      <4>1. Awaits(get, id) <=> Awaits(frames[Len(frames)], id)
        BY <2>1, <2>4 DEF Awaits
      <4>. QED  BY <1>1, <3>1, <4>1, SameAwaited DEF old
    <3>. QED  BY <2>3, <3>2 DEF SavesMean, SaveMeans
  <2>9. old # <<>> /\ old[Len(old)] = get
    <3>1. IsSeq(Front(frames)) /\ Len(Front(frames)) + 1 # 0
      BY <1>1, FrontIsSeq DEF StackOK, IsSeq
    <3>. QED  BY <3>1, AppendIsSeq, EmptyIsSeq DEF old
  <2>10. IsCallee(NoCTEs, get, g)
    <3>1. g.scope = scope /\ g.node = node
      BY DEF Frame
    <3>2. PlaceOf(NoCTEs, g) = Place(NoCTEs, Last(get.scope).data_side,
                                     Outer(Front(get.scope)))
      BY <2>1, <3>1 DEF PlaceOf
    <3>3. PlaceOf(NoCTEs, g) = PartOf(NoCTEs, get, Len(get.done) + 1)
      BY <2>1, <2>4, <3>2, CalleePlace
    <3>. QED  BY <2>1, <2>4, <3>3 DEF IsCallee, Arity
  <2>11. ScopeIds(data, last, scope)
    BY <2>3, <2>4, <1>2, InnerIds DEF f, Inner
  <2>12. /\ IsSeq(cte_indices')
         /\ \A o, index : IsOrdinal(cte_indices, o, index)
                              => IsOrdinal(cte_indices', o, index)
    BY <1>4 DEF HintsInv
  <2>13. rels' = rels /\ status' = status
    BY <1>4
  <2>. HIDE DEF node, scope
  <2>. QED  BY <1>1, <2>2, <2>7, <2>8, <2>9, <2>10, <2>11, <2>12, <2>13,
               CallKeepsHints
<1>. QED  BY <1>3, <1>4 DEF TransformCopy, Throw

LEMMA StillStandHints ==
    ASSUME NEW origin, NEW data, HintsInv(origin, data),
           TransformThrows \/ Finish \/ UNCHANGED vars
    PROVE  HintsInv(origin, data)'
<1>1. CASE TransformThrows
  <2>1. status' # "done"
    BY <1>1 DEF TransformThrows, Throw, Error
  <2>. QED  BY <1>1, <2>1 DEF TransformThrows, Throw, HintsInv
<1>2. CASE Finish
  BY <1>2 DEF Finish, HintsInv
<1>3. CASE UNCHANGED vars
  BY <1>3 DEF vars, HintsInv
<1>. QED  BY <1>1, <1>2, <1>3

\* The outermost call has ended: no join waits, and there is nothing to mark.
LEMMA AddRelationHints ==
    ASSUME NEW origin, NEW data, IInv, HintsInv(origin, data), AddRelation
    PROVE  \E next : HintsInv(next, data)'
<1>1. PICK rs, last, indices : /\ rs = rels /\ last = last_computation_id
                               /\ indices = cte_indices
  OBVIOUS
<1>2. PICK f, r, n : f = Top /\ r = Built(f) /\ n = Len(rs)
  OBVIOUS
<1>3. PICK next : next = Extended(origin, n, At(f))
  OBVIOUS
<1>4. /\ frames # <<>> /\ Len(frames) = 1 /\ IsComplete(f)
      /\ rels' = Append(rs, r) /\ frames' = <<>>
      /\ cte_indices' = indices /\ last_computation_id' = last
      /\ IsSeq(indices) /\ last \in Nat
  BY <1>1, <1>2 DEF AddRelation, Calling, HintsInv
<1>5. IsFrame(f) /\ IsSeq(frames) /\ f = frames[Len(frames)]
  BY <1>2, <1>4, TopIsFrame DEF IInv, StackOK, Top
<1>6. /\ MarksMean(origin, data, rs, indices, last)
      /\ IsSeq(rs) /\ n \in Nat
      /\ FrameIds(origin, data, n, last, f)
      /\ SavesMean(data, rs, last, frames)
  <2>1. 1 \in 1..Len(frames)
    BY <1>4
  <2>. QED  BY <1>1, <1>2, <1>4, <1>5, <2>1 DEF HintsInv, MarksMean, StackIds, IsSeq
<1>7. /\ next[n + 1] = At(f) /\ \A i \in 1..n : next[i] = origin[i]
      /\ Append(rs, r)[n + 1] = r /\ Len(Append(rs, r)) = n + 1
  BY <1>2, <1>3, <1>6, AppendIsSeq DEF Extended
<1>8. r.hints = {}
  BY <1>2, ReceivedHints
<1>9. MadeAt(next, Append(rs, r), indices, n + 1)
  <2>1. Append(rs, r)[n + 1].rel = Built(f).rel
            /\ Append(rs, r)[n + 1].inputs = Built(f).inputs
    BY <1>2, <1>7
  <2>. QED  BY <1>1, <1>4, <1>5, <1>6, <1>7, <2>1, BuiltMadeAt
<1>10. HintsMean(next, data, Append(rs, r), last, n + 1)
  BY <1>7, <1>8 DEF HintsMean
<1>11. MarksMean(next, data, Append(rs, r), indices, last)
  BY <1>2, <1>6, <1>7, <1>9, <1>10, OneMoreMark
<1>12. StackIds(next, data, n + 1, last, <<>>)
  BY EmptyIsSeq DEF StackIds
<1>13. SavesMean(data, Append(rs, r), last, <<>>)
  <2>. SUFFICES ASSUME NEW id \in 1..last
       PROVE  SaveMeans(data, Append(rs, r), <<>>, id)
    BY DEF SavesMean
  <2>1. SaveMeans(data, rs, frames, id)
    BY <1>6 DEF SavesMean
  <2>2. ~IsAwaited(frames, id)
    <3>1. \A k \in 1..Len(frames) : frames[k] = f
      BY <1>4, <1>5
    <3>2. ~Awaits(f, id)
      BY <1>4, <1>6, CompleteAwaitsNothing
    <3>. QED  BY <3>1, <3>2 DEF IsAwaited
  <2>3. ~IsAwaited(<<>>, id)
    BY EmptyIsSeq DEF IsAwaited
  <2>4. <<"saved", id>> \notin r.hints
    BY <1>8
  <2>5. /\ IsSaved(Append(rs, r), id) <=> IsSaved(rs, id)
        /\ IsSavedOnce(rs, id) => IsSavedOnce(Append(rs, r), id)
    BY <1>6, <2>4, NotSaved
  <2>. QED  BY <2>1, <2>2, <2>3, <2>5 DEF SaveMeans
<1>14. HintsInv(next, data)'
  BY <1>4, <1>7, <1>11, <1>12, <1>13 DEF HintsInv
<1>. QED  BY <1>14

\* A caller waits no more once it has been given its data side.
LEMMA GivenData ==
    ASSUME NEW caller, IsSeq(caller.done), NEW x,
           NEW after, after.node = caller.node, after.id = caller.id,
           after.done = Append(caller.done, x), NEW id
    PROVE  /\ AtDataSide(caller) /\ id = caller.id =>
                  Awaits(caller, id) /\ ~Awaits(after, id)
           /\ ~(AtDataSide(caller) /\ id = caller.id) =>
                  (Awaits(after, id) <=> Awaits(caller, id))
<1> DEFINE m == Len(caller.done)
           node == caller.node
<1>1. /\ Len(after.done) = m + 1 /\ m \in Nat
      /\ ChildIndex(caller) = Turn(node, m + 1)
  BY AppendIsSeq DEF IsSeq, ChildIndex, Turn
<1>2. ASSUME NEW k \in 1..m PROVE Turn(node, k) # Turn(node, m + 1)
  BY <1>1 DEF Turn
<1>. HIDE DEF m, node
<1>3. \A k : k \in 1..Len(after.done) <=> k \in 1..m \/ k = m + 1
  BY <1>1
<1>4. HasData(after) <=> HasData(caller) \/ Turn(node, m + 1) = DataSide(node)
  BY <1>3 DEF HasData, m, node
<1>5. Turn(node, m + 1) = DataSide(node) => ~HasData(caller)
  BY <1>2 DEF HasData, m, node
<1>6. AtDataSide(caller) <=>
          IsDelimJoin(node) /\ Turn(node, m + 1) = DataSide(node)
  BY <1>1 DEF AtDataSide, node
<1>. QED  BY <1>4, <1>5, <1>6 DEF Awaits, node

\* The mark that the caller leaves is the id of the place that f was made at.
LEMMA ReceivedMark ==
    ASSUME NEW origin, NEW data, NEW n, NEW last,
           NEW caller, FrameIds(origin, data, n, last, caller),
           IsFrame(caller), KeepsSource(caller),
           NEW f, IsCallee(NoCTEs, caller, f),
           NEW kind, NEW id,
           <<kind, id>> \in Received(caller, Built(f)).hints
    PROVE  /\ id \in 1..last /\ At(f) = data[id] /\ At(f).node.op # "cte_ref"
           /\ kind = "saved" => AtDataSide(caller) /\ id = caller.id
<1>1. /\ ~IsReference(Built(f))
      /\ \/ /\ caller.node.op = "delim_get" /\ kind = "loaded"
            /\ id = caller.source.computation_id
         \/ AtDataSide(caller) /\ id = caller.id
  <2> DEFINE hints == Received(caller, Built(f)).hints
  <2>1. hints = IF IsReference(Built(f)) THEN {}
                ELSE IF caller.node.op = "delim_get"
                THEN {<<"loaded", caller.source.computation_id>>}
                ELSE IF AtDataSide(caller) THEN {<<"saved", caller.id>>} ELSE {}
    BY ReceivedHints
  <2>2. <<kind, id>> \in hints
    OBVIOUS
  <2>. HIDE DEF hints
  <2>. QED  BY <2>1, <2>2
<1>2. At(f).node.op # "cte_ref"
  BY <1>1, ReferenceIsCTERef DEF At, PlaceOf, Place
<1>3. At(f) = PartOf(NoCTEs, caller, Len(caller.done) + 1)
  BY DEF IsCallee, At
<1>4. CASE AtDataSide(caller) /\ id = caller.id
  <2>1. IsDelimJoin(caller.node) /\ ChildIndex(caller) = DataSide(caller.node)
    BY <1>4 DEF AtDataSide
  <2>2. PartOf(NoCTEs, caller, Len(caller.done) + 1) =
            Side(At(caller), ChildIndex(caller))
    BY <2>1 DEF PartOf, ChildIndex, At, IsDelimJoin
  <2>3. id \in 1..last /\ data[id] = Side(At(caller), DataSide(caller.node))
    BY <1>4, <2>1 DEF FrameIds
  <2>. QED  BY <1>2, <1>3, <1>4, <2>1, <2>2, <2>3
<1>5. CASE /\ caller.node.op = "delim_get" /\ kind = "loaded"
           /\ id = caller.source.computation_id
  <2> DEFINE m == Len(caller.scope)
  <2>1. /\ caller.scope # <<>> /\ caller.source = Last(caller.scope)
        /\ IsSeq(caller.scope) /\ m \in Nat \ {0}
        /\ Last(caller.scope) = caller.scope[m]
    BY <1>5, FrontIsSeq DEF KeepsSource, IsFrame, Last
  <2>2. /\ id \in 1..last
        /\ data[id] = Place(NoCTEs, caller.scope[m].data_side,
                            OuterTo(caller.scope, m - 1))
    <3>1. m \in 1..Len(caller.scope)
      BY <2>1
    <3>. QED  BY <1>5, <2>1, <3>1 DEF FrameIds, ScopeIds
  <2>3. OuterTo(caller.scope, m - 1) = Outer(Front(caller.scope))
    <3>1. /\ IsSeq(Front(caller.scope)) /\ Len(Front(caller.scope)) = m - 1
          /\ \A i \in 1..m - 1 : Front(caller.scope)[i] = caller.scope[i]
      BY <2>1, FrontIsSeq
    <3>2. /\ m - 1 \in Nat /\ m - 1 <= m /\ m - 1 <= Len(Front(caller.scope))
      BY <2>1, <3>1
    <3>3. OuterTo(Front(caller.scope), m - 1) = OuterTo(caller.scope, m - 1)
      BY <2>1, <3>1, <3>2, OuterToIsSame
    <3>. QED  BY <3>1, <3>3, OuterToAll
  <2>4. Place(NoCTEs, Last(caller.scope).data_side, Outer(Front(caller.scope)))
            = PartOf(NoCTEs, caller, Len(caller.done) + 1)
    BY <1>5, <2>1, CalleePlace
  <2>5. ~AtDataSide(caller)
    BY <1>5 DEF AtDataSide, IsDelimJoin
  <2>. HIDE DEF m
  <2>. QED  BY <1>2, <1>3, <1>5, <2>1, <2>2, <2>3, <2>4
<1>. QED  BY <1>1, <1>4, <1>5

LEMMA ReturnHints ==
    ASSUME NEW origin, NEW data, IInv, HintsInv(origin, data), Return
    PROVE  \E next : HintsInv(next, data)'
<1>1. PICK rs, last, indices : /\ rs = rels /\ last = last_computation_id
                               /\ indices = cte_indices
  OBVIOUS
<1>2. PICK f, caller, n : f = Top /\ caller = Last(Under) /\ n = Len(rs)
  OBVIOUS
<1>3. PICK r, after, next :
          /\ r = Received(caller, Built(f))
          /\ after = [caller EXCEPT !.done = Append(@, n + 1)]
          /\ next = Extended(origin, n, At(f))
  OBVIOUS
<1>4. PICK under : under = Front(frames)
  OBVIOUS
<1>5. /\ frames # <<>> /\ Len(frames) > 1 /\ IsComplete(f)
      /\ StackOK(frames) /\ IsSeq(frames) /\ status = "running"
      /\ cte_indices' = indices /\ last_computation_id' = last /\ status' = status
      /\ IsSeq(indices) /\ last \in Nat
  BY <1>1, <1>2 DEF Return, Calling, Running, HintsInv, IInv, StackOK
<1>6. /\ IsFrame(f) /\ f = frames[Len(frames)] /\ Len(frames) \in Nat \ {0}
      /\ Under = under
  BY <1>2, <1>4, <1>5, TopIsFrame DEF Top
<1>7. rels' = Append(rs, r) /\ frames' = Append(Front(under), after)
  BY <1>1, <1>2, <1>3, <1>6 DEF Return
<1>8. /\ MarksMean(origin, data, rs, indices, last)
      /\ IsSeq(rs) /\ n \in Nat
      /\ StackIds(origin, data, n, last, frames)
      /\ SavesMean(data, rs, last, frames)
  BY <1>1, <1>2 DEF HintsInv, MarksMean, IsSeq
<1>9. /\ IsSeq(under) /\ Len(under) = Len(frames) - 1 /\ under # <<>>
      /\ \A i \in 1..Len(frames) - 1 : under[i] = frames[i]
      /\ frames = Append(under, f)
  <2>1. /\ IsSeq(under) /\ Len(under) = Len(frames) - 1
        /\ \A i \in 1..Len(frames) - 1 : under[i] = frames[i]
        /\ frames = Append(under, f)
    BY <1>4, <1>5, <1>6, FrontIsSeq DEF Last
  <2>2. Len(under) # 0
    BY <1>5, <1>6, <2>1
  <2>3. under # <<>>
    BY <2>2, EmptyIsSeq, Zenon
  <2>. QED  BY <2>1, <2>3, Zenon
<1>10. caller = frames[Len(frames) - 1] /\ caller = under[Len(under)]
  BY <1>2, <1>5, <1>6, <1>9 DEF Last
<1>11. /\ StackIds(origin, data, n, last, under)
       /\ FrameIds(origin, data, n, last, f)
       /\ IsCallee(NoCTEs, caller, f)
  BY <1>4, <1>5, <1>6, <1>8, <1>9, <1>10, PopIds
<1>12. FrameIds(origin, data, n, last, caller)
  BY <1>9, <1>10, <1>11, PopIds
<1>13. IsFrame(caller) /\ KeepsSource(caller)
  <2>1. Len(frames) - 1 \in 1..Len(frames) - 1 /\ Len(frames) - 1 \in 1..Len(frames)
    BY <1>5, <1>6
  <2>. QED  BY <1>5, <1>10, <2>1 DEF StackOK
<1>14. /\ after.node = caller.node /\ after.scope = caller.scope
       /\ after.source = caller.source /\ after.id = caller.id
       /\ after.done = Append(caller.done, n + 1)
  BY <1>3, <1>13 DEF IsFrame
<1>15. /\ next[n + 1] = At(f) /\ \A i \in 1..n : next[i] = origin[i]
       /\ Append(rs, r)[n + 1] = r /\ Len(Append(rs, r)) = n + 1
  BY <1>2, <1>3, <1>8, AppendIsSeq DEF Extended
<1>16. MadeAt(next, Append(rs, r), indices, n + 1)
  <2>1. Append(rs, r)[n + 1].rel = Built(f).rel
            /\ Append(rs, r)[n + 1].inputs = Built(f).inputs
    BY <1>3, <1>15, ReceivedHints
  <2>. QED  BY <1>1, <1>5, <1>6, <1>8, <1>11, <1>15, <2>1, BuiltMadeAt
<1>17. \A kind, id : <<kind, id>> \in r.hints =>
           /\ id \in 1..last /\ At(f) = data[id] /\ At(f).node.op # "cte_ref"
           /\ kind = "saved" => AtDataSide(caller) /\ id = caller.id
  BY <1>3, <1>11, <1>12, <1>13, ReceivedMark
<1>18. HintsMean(next, data, Append(rs, r), last, n + 1)
  BY <1>15, <1>17 DEF HintsMean
<1>19. MarksMean(next, data, Append(rs, r), indices, last)
  BY <1>2, <1>8, <1>15, <1>16, <1>18, OneMoreMark
<1>20. Outlive(origin, data, n, last, next, data, n + 1, last)
  BY <1>5, <1>8, <1>15 DEF Outlive
<1>21. StackIds(next, data, n + 1, last, under)
  BY <1>11, <1>20, StackIdsOutlive
<1>22. At(after) = At(caller)
  BY <1>14 DEF At, PlaceOf
<1>23. FrameIds(next, data, n + 1, last, after)
  <2>1. FrameIds(next, data, n + 1, last, caller)
    BY <1>12, <1>20, FrameIdsOutlive
  <2>2. /\ IsSeq(caller.done) /\ Len(caller.done) \in Nat
        /\ Len(caller.done) < Arity(caller.node)
        /\ At(f) = PartOf(NoCTEs, caller, Len(caller.done) + 1)
        /\ Arity(caller.node) \in Nat
    BY <1>11, <1>12 DEF FrameIds, IsSeq, IsCallee, Arity, At
  <2>3. /\ IsSeq(after.done) /\ Len(after.done) = Len(caller.done) + 1
        /\ after.done[Len(caller.done) + 1] = n + 1
        /\ \A i \in 1..Len(caller.done) : after.done[i] = caller.done[i]
    BY <1>14, <2>2, AppendIsSeq
  <2>4. \A k : PartOf(NoCTEs, after, k) = PartOf(NoCTEs, caller, k)
    BY <1>14, <1>22 DEF PartOf, At
  <2>5. ASSUME NEW k \in 1..Len(after.done)
        PROVE  /\ after.done[k] \in 1..n + 1
               /\ next[after.done[k]] = PartOf(NoCTEs, after, k)
    <3>1. CASE k = Len(caller.done) + 1
      BY <1>8, <1>15, <2>2, <2>3, <2>4, <3>1
    <3>2. CASE k \in 1..Len(caller.done)
      BY <2>1, <2>3, <2>4, <3>2 DEF FrameIds
    <3>. QED  BY <2>2, <2>3, <3>1, <3>2
  <2>6. Len(after.done) <= Arity(after.node)
    BY <1>14, <2>2, <2>3
  <2>7. KeepsSource(after)
    BY <1>13, <1>14 DEF KeepsSource
  <2>. QED  BY <1>14, <1>22, <2>1, <2>3, <2>5, <2>6, <2>7 DEF FrameIds
<1>24. StackIds(next, data, n + 1, last, Append(Front(under), after))
  BY <1>9, <1>10, <1>14, <1>21, <1>22, <1>23, ReplaceIds
<1>25. SavesMean(data, Append(rs, r), last, Append(Front(under), after))
  <2>. SUFFICES ASSUME NEW id \in 1..last
       PROVE  SaveMeans(data, Append(rs, r), Append(Front(under), after), id)
    BY DEF SavesMean
  <2>1. SaveMeans(data, rs, frames, id)
    BY <1>8 DEF SavesMean
  <2>2. IsAwaited(frames, id) <=> IsAwaited(under, id)
    <3>1. ~Awaits(f, id)
      BY <1>5, <1>11, CompleteAwaitsNothing
    <3>2. IsAwaited(Append(under, f), id) <=> IsAwaited(under, id) \/ Awaits(f, id)
      BY <1>9, AwaitedAfterAppend
    <3>. QED  BY <1>9, <3>1, <3>2
  <2>3. IsSeq(caller.done)
    BY <1>12 DEF FrameIds
  <2>4. IsSeq(Front(under)) /\ under = Append(Front(under), caller)
    BY <1>9, <1>10, FrontIsSeq DEF Last
  <2>5. IsAwaited(under, id) <=> IsAwaited(Front(under), id) \/ Awaits(caller, id)
    <3>1. IsAwaited(Append(Front(under), caller), id)
              <=> IsAwaited(Front(under), id) \/ Awaits(caller, id)
      BY <2>4, AwaitedAfterAppend
    <3>. QED  BY <2>4, <3>1
  <2>6. IsAwaited(Append(Front(under), after), id)
            <=> IsAwaited(Front(under), id) \/ Awaits(after, id)
    BY <2>4, AwaitedAfterAppend
  <2>7. CASE AtDataSide(caller) /\ id = caller.id
    <3>1. Awaits(caller, id) /\ ~Awaits(after, id)
      BY <1>14, <2>3, <2>7, GivenData
    <3>2. ~IsAwaited(Front(under), id)
      <4>1. IsDelimJoin(under[Len(under)].node)
        BY <1>10, <2>7 DEF AtDataSide
      <4>2. ASSUME NEW k \in 1..Len(Front(under)), Awaits(Front(under)[k], id)
            PROVE  FALSE
        <5>1. IsDelimJoin(Front(under)[k].node) /\ Front(under)[k].id = id
          BY <4>2 DEF Awaits
        <5>2. Front(under)[k].id # under[Len(under)].id
          BY <1>9, <1>11, <4>1, <5>1, TopIdDiffers
        <5>. QED  BY <1>10, <2>7, <5>1, <5>2
      <4>. QED  BY <4>2 DEF IsAwaited
    <3>3. ~IsSaved(rs, id) /\ IsSavedOnce(rs, id)
      BY <2>1, <2>2, <2>5, <3>1 DEF SaveMeans
    <3>4. CASE f.node.op = "cte_ref"
      <4>1. <<"saved", id>> \notin r.hints
        BY <1>3, <3>4, ReceivedHints, ReferenceIsCTERef
      <4>2. data[id].node.op = "cte_ref"
        <5>1. id \in 1..last /\ data[id] = Side(At(caller), DataSide(caller.node))
          BY <1>12, <2>7 DEF FrameIds, AtDataSide
        <5>2. At(f) = Side(At(caller), DataSide(caller.node))
          BY <1>11, <2>7 DEF IsCallee, At, PartOf, AtDataSide, IsDelimJoin,
             ChildIndex
        <5>. QED  BY <3>4, <5>1, <5>2 DEF At, PlaceOf, Place
      <4>3. IsSavedOnce(Append(rs, r), id)
        BY <1>8, <3>3, <4>1, NotSaved
      <4>. QED  BY <2>6, <3>1, <3>2, <4>2, <4>3 DEF SaveMeans
    <3>5. CASE f.node.op # "cte_ref"
      <4>1. <<"saved", id>> \in r.hints
        <5>1. caller.node.op # "delim_get"
          BY <2>7 DEF AtDataSide, IsDelimJoin
        <5>. QED  BY <1>3, <2>7, <3>5, <5>1, ReceivedHints, OtherIsNoReference
      <4>2. IsSaved(Append(rs, r), id) /\ IsSavedOnce(Append(rs, r), id)
        BY <1>8, <3>3, <4>1, FirstSaved
      <4>. QED  BY <2>6, <3>1, <3>2, <4>2 DEF SaveMeans
    <3>. QED  BY <3>4, <3>5
  <2>8. CASE ~(AtDataSide(caller) /\ id = caller.id)
    <3>1. Awaits(after, id) <=> Awaits(caller, id)
      BY <1>14, <2>3, <2>8, GivenData
    <3>2. <<"saved", id>> \notin r.hints
      BY <1>17, <2>8
    <3>3. /\ IsSaved(Append(rs, r), id) <=> IsSaved(rs, id)
          /\ IsSavedOnce(rs, id) => IsSavedOnce(Append(rs, r), id)
      BY <1>8, <3>2, NotSaved
    <3>. QED  BY <2>1, <2>2, <2>5, <2>6, <3>1, <3>3 DEF SaveMeans
  <2>. QED  BY <2>7, <2>8
<1>26. HintsInv(next, data)'
  BY <1>5, <1>7, <1>15, <1>19, <1>24, <1>25 DEF HintsInv
<1>. QED  BY <1>26

HintsHold == \E origin, data : HintsInv(origin, data)

LEMMA HintsInductive == IInv /\ HintsHold /\ [Next]_vars => HintsHold'
<1>. SUFFICES ASSUME IInv, HintsHold, [Next]_vars PROVE HintsHold'
  OBVIOUS
<1>1. PICK origin, data : HintsInv(origin, data)
  BY DEF HintsHold
<1>2. CASE TransformThrows \/ Finish \/ UNCHANGED vars
  <2>1. HintsInv(origin, data)'
    BY <1>1, <1>2, StillStandHints
  <2>. QED  BY <2>1 DEF HintsHold
<1>3. CASE TransformCTE \/ TransformRootOp \/ TransformChild \/ TransformCopy
  <2>1. \E later : HintsInv(origin, later)'
    BY <1>1, <1>3, TransformCTEHints, TransformRootOpHints,
       TransformChildHints, TransformCopyHints
  <2>. QED  BY <2>1 DEF HintsHold
<1>4. CASE Return \/ AddRelation
  <2>1. \E next : HintsInv(next, data)'
    BY <1>1, <1>4, ReturnHints, AddRelationHints
  <2>. QED  BY <2>1 DEF HintsHold
<1>. QED  BY <1>2, <1>3, <1>4 DEF Next

-----------------------------------------------------------------------------
(* Relations made at the same place are the same.                          *)

LEMMA PlainIsDefined ==
    ASSUME DOMAIN rels \subseteq Nat,
           \A i \in DOMAIN rels : \A k \in DOMAIN rels[i].inputs :
               rels[i].inputs[k] \in DOMAIN rels /\ rels[i].inputs[k] < i
    PROVE  \A i \in DOMAIN rels : Plain[i] = PlainBy(Plain, i)
<1>1. PlainOf!IsFounded(DOMAIN rels)
  BY DEF PlainOf!IsFounded, InputsOf, Depth
<1>2. PlainOf!IsStep(DOMAIN rels)
  <2>. SUFFICES ASSUME NEW i \in DOMAIN rels, NEW f, NEW g,
                       \A j \in InputsOf(i) : f[j] = g[j]
                PROVE  PlainBy(f, i) = PlainBy(g, i)
    BY DEF PlainOf!IsStep
  <2>. QED  BY DEF PlainBy, InputsOf
<1>3. \E f : f = [i \in DOMAIN rels |-> PlainBy(f, i)]
  BY <1>1, <1>2, PlainOf!RecursiveFunction
<1>4. Plain = [i \in DOMAIN rels |-> PlainBy(Plain, i)]
  BY <1>3, Zenon DEF Plain, PlainBy
<1>. QED  BY <1>4

LEMMA SamePlaceSamePlain ==
    ASSUME NEW origin, NEW data, HintsInv(origin, data),
           NEW i \in 1..Len(rels), NEW j \in 1..Len(rels),
           origin[i] = origin[j]
    PROVE  Plain[i] = Plain[j]
<1> DEFINE n == Len(rels)
<1>1. /\ DOMAIN rels = 1..n /\ n \in Nat
      /\ \A x \in 1..n : MadeAt(origin, rels, cte_indices, x)
  BY DEF HintsInv, MarksMean, IsSeq
<1>2. ASSUME NEW x \in 1..n
      PROVE  /\ IsSeq(rels[x].inputs)
             /\ Len(rels[x].inputs) = Arity(origin[x].node)
             /\ DOMAIN rels[x].inputs = 1..Len(rels[x].inputs)
             /\ \A k \in 1..Len(rels[x].inputs) :
                    rels[x].inputs[k] \in 1..x - 1
  BY <1>1 DEF MadeAt, IsSeq
<1>. HIDE DEF n
<1>3. \A x \in 1..n : Plain[x] = PlainBy(Plain, x)
  <2>1. DOMAIN rels \subseteq Nat
    BY <1>1
  <2>2. ASSUME NEW x \in DOMAIN rels, NEW k \in DOMAIN rels[x].inputs
        PROVE  rels[x].inputs[k] \in DOMAIN rels /\ rels[x].inputs[k] < x
    <3>1. x \in 1..n /\ rels[x].inputs[k] \in 1..x - 1
      BY <1>1, <1>2
    <3>. QED  BY <1>1, <3>1
  <2>. QED  BY <1>1, <2>1, <2>2, PlainIsDefined
<1> DEFINE Differ(x, y) == origin[x] = origin[y] /\ Plain[x] # Plain[y]
           T == {x \in 1..n : \E y \in 1..n : Differ(x, y)}
<1>. SUFFICES ASSUME T # {} PROVE FALSE
  BY DEF n
<1>4. PICK x \in T : \A y \in T : x <= y
  <2>1. T \subseteq Nat
    OBVIOUS
  <2>. HIDE DEF T
  <2>. QED  BY <2>1, PlainOf!SmallestNat, Zenon
<1>5. PICK y \in 1..n : Differ(x, y)
  OBVIOUS
<1>6. x \in 1..n
  OBVIOUS
<1> DEFINE place == origin[x]
           node == place.node
           xs == rels[x].inputs
           ys == rels[y].inputs
<1>7. /\ DOMAIN xs = 1..Arity(node) /\ DOMAIN ys = 1..Arity(node)
      /\ Len(xs) = Arity(node) /\ Len(ys) = Arity(node)
  BY <1>2, <1>5, <1>6
<1>8. ASSUME NEW k \in 1..Arity(node)
      PROVE  Plain[xs[k]] = Plain[ys[k]]
  <2>1. /\ xs[k] \in 1..x - 1 /\ ys[k] \in 1..y - 1
        /\ xs[k] \in 1..n /\ ys[k] \in 1..n /\ ~(x <= xs[k])
    <3>1. k \in 1..Len(xs) /\ k \in 1..Len(ys)
      BY <1>7
    <3>2. xs[k] \in 1..x - 1 /\ ys[k] \in 1..y - 1
      BY <1>2, <1>5, <1>6, <3>1
    <3>3. ASSUME NEW z \in 1..n, NEW w \in 1..z - 1
          PROVE  w \in 1..n /\ ~(z <= w)
      BY <1>1
    <3>. HIDE DEF xs, ys, T
    <3>. QED  BY <1>6, <3>2, <3>3
  <2>2. /\ origin[xs[k]] = IF node.op = "delim_get" THEN Copy(place)
                           ELSE Side(place, Turn(node, k))
        /\ origin[ys[k]] = IF node.op = "delim_get" THEN Copy(place)
                           ELSE Side(place, Turn(node, k))
    BY <1>1, <1>5, <1>6, <1>7 DEF MadeAt
  <2>3. xs[k] \notin T
    BY <1>4, <2>1
  <2>. QED  BY <2>1, <2>2, <2>3
<1>9. rels[x].rel = rels[y].rel
  <2> DEFINE IsRel(rel) ==
          \/ node.op = "get" /\ rel = <<"read", node.table>>
          \/ node.op = "cte_ref" /\ \E o : /\ IsOrdinal(cte_indices, o, node.index)
                                           /\ rel = <<"reference", o>>
          \/ /\ node.op = "delim_get"
             /\ rel = <<"aggregate", Last(place.scope).columns>>
          \/ node.op = "join" /\ rel = <<"join", node.type>>
  <2>1. IsRel(rels[x].rel) /\ IsRel(rels[y].rel)
    BY <1>1, <1>5, <1>6 DEF MadeAt
  <2>2. ASSUME NEW o, NEW p, IsOrdinal(cte_indices, o, node.index),
               IsOrdinal(cte_indices, p, node.index)
        PROVE  o = p
    <3>1. ASSUME NEW a, NEW b, IsOrdinal(cte_indices, a, node.index),
                 IsOrdinal(cte_indices, b, node.index)
          PROVE  a \in Nat /\ b \in Nat /\ ~(a < b)
      <4>1. a \in Nat /\ b \in Nat
        BY <3>1 DEF IsOrdinal
      <4>2. a < b => a + 1 \in 1..b
        BY <4>1
      <4>. QED  BY <3>1, <4>1, <4>2 DEF IsOrdinal
    <3>2. o \in Nat /\ p \in Nat /\ ~(o < p) /\ ~(p < o)
      BY <2>2, <3>1
    <3>. QED  BY <3>2
  <2>. HIDE DEF node, place
  <2>3. CASE node.op = "cte_ref"
    <3>1. PICK o : /\ IsOrdinal(cte_indices, o, node.index)
                   /\ rels[x].rel = <<"reference", o>>
      BY <2>1, <2>3
    <3>2. PICK p : /\ IsOrdinal(cte_indices, p, node.index)
                   /\ rels[y].rel = <<"reference", p>>
      BY <2>1, <2>3
    <3>. QED  BY <2>2, <3>1, <3>2
  <2>4. CASE node.op # "cte_ref"
    BY <2>1, <2>4
  <2>. QED  BY <2>3, <2>4
<1>. HIDE DEF xs, ys, node
<1>10. PlainBy(Plain, x) = PlainBy(Plain, y)
  BY <1>7, <1>8, <1>9 DEF PlainBy, xs, ys
<1>. QED  BY <1>3, <1>5, <1>6, <1>10

\* Whatever the query, the copies that are marked to load a computation are
\* of the relation that is marked to save it, and there is at most one such.
LEMMA HintsMatch ==
    ASSUME NEW origin, NEW data, HintsInv(origin, data)
    PROVE  LoadsMatchSaves
<1>. SUFFICES ASSUME status = "done", NEW id \in 1..last_computation_id
              PROVE  /\ Cardinality(Marked("saved", id)) <= 1
                     /\ \A copy \in Marked("loaded", id) :
                            \E saved \in Marked("saved", id) :
                                Plain[saved] = Plain[copy]
  BY DEF LoadsMatchSaves
<1> DEFINE n == Len(rels)
<1>1. /\ DOMAIN rels = 1..n /\ n \in Nat /\ frames = <<>>
      /\ \A i \in 1..n :
             HintsMean(origin, data, rels, last_computation_id, i)
      /\ SaveMeans(data, rels, frames, id)
  BY DEF HintsInv, MarksMean, SavesMean, IsSeq
<1>2. \A kind, i : i \in Marked(kind, id) <=>
          i \in 1..n /\ <<kind, id>> \in rels[i].hints
  BY <1>1 DEF Marked
<1>3. ASSUME NEW i \in Marked("saved", id), NEW j \in Marked("saved", id)
      PROVE  i = j
  BY <1>1, <1>2 DEF SaveMeans, IsSavedOnce
<1>4. Cardinality(Marked("saved", id)) <= 1
  <2>1. CASE Marked("saved", id) = {}
    <3>1. Cardinality(Marked("saved", id)) = 0
      BY <2>1, FS_EmptySet
    <3>. QED  BY <3>1
  <2>2. CASE Marked("saved", id) # {}
    <3>1. PICK i : i \in Marked("saved", id)
      BY <2>2
    <3>2. Marked("saved", id) = {i}
      BY <1>3, <3>1
    <3>3. Cardinality(Marked("saved", id)) = 1
      BY <3>2, FS_Singleton
    <3>. QED  BY <3>3
  <2>. QED  BY <2>1, <2>2
<1>5. ASSUME NEW copy \in Marked("loaded", id)
      PROVE  \E saved \in Marked("saved", id) : Plain[saved] = Plain[copy]
  <2>1. /\ copy \in 1..n /\ origin[copy] = data[id]
        /\ data[id].node.op # "cte_ref"
    <3>1. copy \in 1..n /\ <<"loaded", id>> \in rels[copy].hints
      BY <1>2
    <3>2. HintsMean(origin, data, rels, last_computation_id, copy)
      BY <1>1, <3>1
    <3>3. /\ origin[copy] = data[id]
          /\ origin[copy].node.op # "cte_ref"
      BY <3>1, <3>2 DEF HintsMean
    <3>. QED  BY <3>1, <3>3
  <2>2. ~IsAwaited(frames, id)
    BY <1>1, EmptyIsSeq DEF IsAwaited
  <2>3. PICK saved \in 1..n : <<"saved", id>> \in rels[saved].hints
    BY <1>1, <2>1, <2>2 DEF SaveMeans, IsSaved
  <2>4. origin[saved] = data[id] /\ saved \in Marked("saved", id)
    BY <1>1, <1>2, <2>3 DEF HintsMean
  <2>5. Plain[saved] = Plain[copy]
    BY <2>1, <2>3, <2>4, SamePlaceSamePlain
  <2>. QED  BY <2>4, <2>5
<1>. QED  BY <1>4, <1>5

THEOREM LoadsAreOfWhatIsSaved == Spec => []LoadsMatchSaves
<1>1. Init => IInv /\ HintsHold
  BY InvInit, HintsInit DEF HintsHold
<1>2. (IInv /\ HintsHold) /\ [Next]_vars => (IInv /\ HintsHold)'
  BY InvInductive, HintsInductive
<1>3. HintsHold => LoadsMatchSaves
  BY HintsMatch DEF HintsHold
<1>. QED  BY <1>1, <1>2, <1>3, PTL DEF Spec

-----------------------------------------------------------------------------
(* What from_substrait makes of a plan.                                    *)

MeaningOf == INSTANCE Recursion
             WITH Parts <- Parts, Height <- Height, Step <- MeansBy,
                  Claim <- IsPlanned
CTEsOf == INSTANCE Recursion
          WITH Parts <- Parts, Height <- Height, Step <- CTEsBy,
               Claim <- IsPlanned

-----------------------------------------------------------------------------
(* Places.  Both recursive definitions define what they mean to.           *)

LEMMA PlacesAreFounded ==
    ASSUME NEW query \in Plans
    PROVE  MeaningOf!IsFounded(Places(query))
BY PlacesAssumption, HeightAssumption DEF MeaningOf!IsFounded

LEMMA PlanOps ==
    ASSUME NEW query \in Plans, NEW place \in Places(query)
    PROVE  /\ place.node.op \in {"get", "cte_ref", "delim_get",
                                 "materialized_cte", "join"}
           /\ place.node.op = "cte_ref" => place.node.index \in DOMAIN place.known
           /\ place.node.op = "delim_get" =>
                  /\ place.scope # <<>>
                  /\ Len(Last(place.scope).columns) = place.node.columns
                  /\ Copy(place) \in Places(query)
           /\ place.node.op = "materialized_cte" =>
                  /\ place.node.index \notin DOMAIN place.known
                  /\ Body(place) \in Places(query)
                  /\ Rest(place) \in Places(query)
           /\ place.node.op = "join" =>
                  \A k \in 1..2 : Side(place, k) \in Places(query)
<1>1. IsPlanned(place) /\ Parts(place) \subseteq Places(query)
  BY PlacesAssumption
<1>2. \A k \in 1..2 : k = 1 \/ k = 2
  OBVIOUS
<1>3. /\ place.node.op = "delim_get" => Copy(place) \in Parts(place)
      /\ place.node.op = "materialized_cte" =>
             Body(place) \in Parts(place) /\ Rest(place) \in Parts(place)
      /\ place.node.op = "join" =>
             Side(place, 1) \in Parts(place) /\ Side(place, 2) \in Parts(place)
  BY DEF Parts
<1>. QED  BY <1>1, <1>2, <1>3 DEF IsPlanned, IsTopCTE

LEMMA MeaningSteps ==
    ASSUME NEW query \in Plans
    PROVE  MeaningOf!IsStep(Places(query))
<1>. SUFFICES ASSUME NEW place \in Places(query), NEW f, NEW g,
                     \A part \in Parts(place) : f[part] = g[part]
              PROVE  MeansBy(f, place) = MeansBy(g, place)
  BY DEF MeaningOf!IsStep
<1>1. CASE place.node.op = "get"
  BY <1>1 DEF MeansBy
<1>2. CASE place.node.op = "cte_ref"
  <2>1. f[Referent(place)] = g[Referent(place)]
    BY <1>2 DEF Parts
  <2>. QED  BY <1>2, <2>1 DEF MeansBy
<1>3. CASE place.node.op = "delim_get"
  <2>1. f[Copy(place)] = g[Copy(place)]
    BY <1>3 DEF Parts
  <2>. QED  BY <1>3, <2>1 DEF MeansBy
<1>4. CASE place.node.op = "materialized_cte"
  <2>1. f[Rest(place)] = g[Rest(place)]
    BY <1>4 DEF Parts
  <2>. QED  BY <1>4, <2>1 DEF MeansBy
<1>5. CASE place.node.op = "join"
  <2>1. f[Side(place, 1)] = g[Side(place, 1)] /\ f[Side(place, 2)] = g[Side(place, 2)]
    BY <1>5 DEF Parts
  <2>. QED  BY <1>5, <2>1 DEF MeansBy
<1>. QED  BY <1>1, <1>2, <1>3, <1>4, <1>5, PlanOps

LEMMA MeaningIsDefined ==
    ASSUME NEW query \in Plans, NEW place \in Places(query)
    PROVE  Meaning(query)[place] = MeansBy(Meaning(query), place)
<1>1. \E f : f = [p \in Places(query) |-> MeansBy(f, p)]
  BY PlacesAreFounded, MeaningSteps, MeaningOf!RecursiveFunction
<1>2. Meaning(query) = [p \in Places(query) |-> MeansBy(Meaning(query), p)]
  BY <1>1, Zenon DEF Meaning
<1>. QED  BY <1>2

LEMMA CTEsSteps ==
    ASSUME NEW query \in Plans
    PROVE  CTEsOf!IsStep(Places(query))
<1>. SUFFICES ASSUME NEW place \in Places(query), NEW f, NEW g,
                     \A part \in Parts(place) : f[part] = g[part]
              PROVE  CTEsBy(f, place) = CTEsBy(g, place)
  BY DEF CTEsOf!IsStep
<1>1. CASE place.node.op \notin {"materialized_cte", "join"}
  BY <1>1 DEF CTEsBy, IsTopCTE
<1>2. CASE place.node.op = "materialized_cte"
  <2>1. f[Body(place)] = g[Body(place)] /\ f[Rest(place)] = g[Rest(place)]
    BY <1>2 DEF Parts
  <2>. QED  BY <1>2, <2>1, Zenon DEF CTEsBy, IsTopCTE
<1>3. CASE place.node.op = "join"
  <2>1. f[Side(place, 1)] = g[Side(place, 1)] /\ f[Side(place, 2)] = g[Side(place, 2)]
    BY <1>3 DEF Parts
  <2>2. \A k \in 1..2 : f[Side(place, k)] = g[Side(place, k)]
    BY <2>1
  <2>. QED  BY <1>3, <2>2, Zenon DEF CTEsBy, IsTopCTE
<1>. QED  BY <1>1, <1>2, <1>3

LEMMA CTEsIsDefined ==
    ASSUME NEW query \in Plans, NEW place \in Places(query)
    PROVE  CTEs(query)[place] = CTEsBy(CTEs(query), place)
<1>1. \E f : f = [p \in Places(query) |-> CTEsBy(f, p)]
  BY PlacesAreFounded, CTEsSteps, CTEsOf!RecursiveFunction
     DEF MeaningOf!IsFounded, CTEsOf!IsFounded
<1>2. CTEs(query) = [p \in Places(query) |-> CTEsBy(CTEs(query), p)]
  BY <1>1, Zenon DEF CTEs
<1>. QED  BY <1>2

LEMMA MeaningAt ==
    ASSUME NEW query \in Plans, NEW place \in Places(query)
    PROVE  /\ place.node.op = "get" =>
                  Meaning(query)[place] =
                      Relation(<<"read", place.node.table>>, <<>>)
           /\ place.node.op = "cte_ref" =>
                  Meaning(query)[place] = Meaning(query)[Referent(place)]
           /\ place.node.op = "delim_get" =>
                  Meaning(query)[place] =
                      Relation(<<"aggregate", Last(place.scope).columns>>,
                               <<Meaning(query)[Copy(place)]>>)
           /\ place.node.op = "materialized_cte" =>
                  Meaning(query)[place] = Meaning(query)[Rest(place)]
           /\ place.node.op = "join" =>
                  Meaning(query)[place] =
                      Relation(<<"join", place.node.type>>,
                          IF place.node.swapped
                          THEN <<Meaning(query)[Side(place, 2)],
                                 Meaning(query)[Side(place, 1)]>>
                          ELSE <<Meaning(query)[Side(place, 1)],
                                 Meaning(query)[Side(place, 2)]>>)
BY MeaningIsDefined DEF MeansBy

-----------------------------------------------------------------------------
(* The relations made so far.  meant[i] is what the consumer makes of the  *)
(* i-th one; tops are those that are in the plan itself.                   *)

RelMeans(meant, rs, tops, i) ==
    IF IsReference(rs[i])
    THEN LET ordinal == rs[i].rel[2]
         IN  /\ rs[i].inputs = <<>>
             /\ ordinal \in Nat /\ ordinal < Len(tops)
             /\ tops[ordinal + 1] < i
             /\ meant[i] = meant[tops[ordinal + 1]]
    ELSE LET inputs == rs[i].inputs
         IN  /\ IsSeq(inputs)
             /\ \A k \in 1..Len(inputs) : inputs[k] \in 1..i - 1
             /\ meant[i] = Relation(rs[i].rel,
                               [k \in 1..Len(inputs) |-> meant[inputs[k]]])

RelsMean(meant, rs, tops) ==
    /\ IsSeq(rs)
    /\ \A i \in 1..Len(rs) : RelMeans(meant, rs, tops, i)
    /\ IsSeq(tops)
    /\ \A k \in 1..Len(tops) : tops[k] \in 1..Len(rs)
    /\ \A j, k \in 1..Len(tops) : j < k => tops[j] < tops[k]

\* What a relation means does not change when another one is made.
LEMMA OneMoreRel ==
    ASSUME NEW meant, NEW rs, NEW tops, RelsMean(meant, rs, tops), NEW r, NEW v,
           LET new == Extended(meant, Len(rs), v)
           IN  RelMeans(new, Append(rs, r), tops, Len(rs) + 1)
    PROVE  LET new == Extended(meant, Len(rs), v)
           IN  /\ RelsMean(new, Append(rs, r), tops)
               /\ Len(Append(rs, r)) = Len(rs) + 1
               /\ new[Len(rs) + 1] = v
               /\ \A i \in 1..Len(rs) : new[i] = meant[i]
<1> DEFINE new == Extended(meant, Len(rs), v)
           more == Append(rs, r)
<1>1. /\ IsSeq(more) /\ Len(more) = Len(rs) + 1 /\ Len(rs) \in Nat
      /\ \A i \in 1..Len(rs) : more[i] = rs[i]
  BY AppendIsSeq DEF RelsMean, IsSeq
<1>2. new[Len(rs) + 1] = v /\ \A i \in 1..Len(rs) : new[i] = meant[i]
  BY <1>1 DEF Extended
<1>. HIDE DEF new, more
<1>3. /\ IsSeq(tops) /\ Len(tops) \in Nat
      /\ \A k \in 1..Len(tops) : tops[k] \in 1..Len(rs)
  BY DEF RelsMean, IsSeq
<1>4. ASSUME NEW i \in 1..Len(rs)
      PROVE  RelMeans(new, more, tops, i)
  <2>1. RelMeans(meant, rs, tops, i) /\ more[i] = rs[i] /\ new[i] = meant[i]
    BY <1>1, <1>2 DEF RelsMean
  <2>2. CASE IsReference(rs[i])
    <3> DEFINE o == rs[i].rel[2]
    <3>1. /\ o \in Nat /\ o < Len(tops) /\ tops[o + 1] < i
          /\ meant[i] = meant[tops[o + 1]]
      BY <2>1, <2>2 DEF RelMeans
    <3>2. new[tops[o + 1]] = meant[tops[o + 1]]
      BY <1>2, <1>3, <3>1
    <3>. QED  BY <2>1, <2>2, <3>1, <3>2 DEF RelMeans
  <2>3. CASE ~IsReference(rs[i])
    <3> DEFINE inputs == rs[i].inputs
    <3>1. /\ IsSeq(inputs) /\ \A k \in 1..Len(inputs) : inputs[k] \in 1..i - 1
          /\ meant[i] = Relation(rs[i].rel,
                            [k \in 1..Len(inputs) |-> meant[inputs[k]]])
      BY <2>1, <2>3 DEF RelMeans
    <3>. HIDE DEF inputs
    <3>2. ASSUME NEW k \in 1..Len(inputs)
          PROVE  new[inputs[k]] = meant[inputs[k]]
      <4>1. inputs[k] \in 1..i - 1
        BY <3>1
      <4>2. inputs[k] \in 1..Len(rs)
        BY <1>1, <4>1
      <4>. QED  BY <1>2, <4>2
    <3>3. [k \in 1..Len(inputs) |-> new[inputs[k]]]
              = [k \in 1..Len(inputs) |-> meant[inputs[k]]]
      BY <3>2
    <3>. QED  BY <2>1, <2>3, <3>1, <3>3 DEF RelMeans, inputs
  <2>. QED  BY <2>2, <2>3
<1>5. RelMeans(new, more, tops, Len(rs) + 1)
  BY DEF new, more
<1>6. \A i \in 1..Len(more) : RelMeans(new, more, tops, i)
  BY <1>1, <1>4, <1>5
<1>7. RelsMean(new, more, tops)
  BY <1>1, <1>3, <1>6 DEF RelsMean
<1>. QED  BY <1>1, <1>2, <1>7 DEF new, more

\* Nor when the last one is made a relation of the plan.
LEMMA OneMoreTop ==
    ASSUME NEW meant, NEW rs, NEW tops, RelsMean(meant, rs, tops),
           Len(rs) > 0, \A k \in 1..Len(tops) : tops[k] # Len(rs)
    PROVE  RelsMean(meant, rs, Append(tops, Len(rs)))
<1> DEFINE more == Append(tops, Len(rs))
<1>1. /\ IsSeq(more) /\ Len(more) = Len(tops) + 1 /\ Len(tops) \in Nat
      /\ \A k \in 1..Len(tops) : more[k] = tops[k]
      /\ more[Len(tops) + 1] = Len(rs)
      /\ Len(rs) \in Nat
  BY AppendIsSeq DEF RelsMean, IsSeq
<1>. HIDE DEF more
<1>2. ASSUME NEW i \in 1..Len(rs)
      PROVE  RelMeans(meant, rs, more, i)
  <2>1. RelMeans(meant, rs, tops, i)
    BY DEF RelsMean
  <2>2. CASE IsReference(rs[i])
    <3>1. PICK o : o = rs[i].rel[2]
      OBVIOUS
    <3>2. o \in Nat /\ o < Len(tops)
      BY <2>1, <2>2, <3>1 DEF RelMeans
    <3>3. PICK n : n = Len(tops) /\ n \in Nat
      BY <1>1
    <3>4. o + 1 \in 1..n /\ o < n + 1
      BY <3>2, <3>3
    <3>5. more[o + 1] = tops[o + 1] /\ o < Len(more)
      BY <1>1, <3>3, <3>4
    <3>. QED  BY <2>1, <2>2, <3>1, <3>2, <3>5 DEF RelMeans
  <2>3. CASE ~IsReference(rs[i])
    BY <2>1, <2>3 DEF RelMeans
  <2>. QED  BY <2>2, <2>3
<1>3. \A k \in 1..Len(tops) : tops[k] \in 1..Len(rs) /\ tops[k] < Len(rs)
  BY <1>1 DEF RelsMean
<1>4. ASSUME NEW j \in 1..Len(more), NEW k \in 1..Len(more), j < k
      PROVE  more[j] < more[k]
  <2>1. j \in 1..Len(tops) /\ more[j] = tops[j]
    BY <1>1, <1>4
  <2>2. CASE k = Len(tops) + 1
    BY <1>1, <1>3, <2>1, <2>2
  <2>3. CASE k \in 1..Len(tops)
    BY <1>1, <1>4, <2>1, <2>3 DEF RelsMean
  <2>. QED  BY <1>1, <2>2, <2>3
<1>5. \A k \in 1..Len(more) : more[k] \in 1..Len(rs)
  BY <1>1, <1>3
<1>. QED  BY <1>1, <1>2, <1>4, <1>5 DEF RelsMean, more

-----------------------------------------------------------------------------
(* What the calls under way have made.                                     *)

LEMMA CTEsAt ==
    ASSUME NEW query \in Plans, NEW place \in Places(query)
    PROVE  /\ CTEs(query)[place].some <=>
                  \/ place.node.op = "materialized_cte"
                  \/ /\ place.node.op = "join"
                     /\ \/ CTEs(query)[Side(place, 1)].some
                        \/ CTEs(query)[Side(place, 2)].some
           /\ place.node.op = "materialized_cte" =>
                  (CTEs(query)[place].nested <=>
                       \/ CTEs(query)[Body(place)].some
                       \/ CTEs(query)[Rest(place)].nested)
           /\ place.node.op # "materialized_cte" =>
                  (CTEs(query)[place].nested <=> CTEs(query)[place].some)
<1> DEFINE c == CTEs(query)
           some == \/ IsTopCTE(place.node)
                   \/ place.node.op = "join"
                         /\ \E k \in 1..2 : c[Side(place, k)].some
           nested == IF IsTopCTE(place.node)
                     THEN c[Body(place)].some \/ c[Rest(place)].nested
                     ELSE some
<1>1. c[place] = [some |-> some, nested |-> nested]
  BY CTEsIsDefined, Zenon DEF CTEsBy
<1>2. (\E k \in 1..2 : c[Side(place, k)].some) <=>
          c[Side(place, 1)].some \/ c[Side(place, 2)].some
  <2>1. \A k \in 1..2 : k = 1 \/ k = 2
    OBVIOUS
  <2>2. 1 \in 1..2 /\ 2 \in 1..2
    OBVIOUS
  <2>. HIDE DEF c
  <2>. QED  BY <2>1, <2>2, Zenon
<1>. HIDE DEF c, some, nested
<1>3. c[place].some = some /\ c[place].nested = nested
  BY <1>1
<1>. QED  BY <1>2, <1>3, Zenon DEF IsTopCTE, some, nested, c

\* If a CTE is in the data side of an enclosing join, the query is rejected.
ScopeMeans(query, known, scope) ==
    \A m \in 1..Len(scope) :
        CTEs(query)[Place(known, scope[m].data_side, OuterTo(scope, m - 1))].some
            => IsRejected(query)

\* The calls that f has made so far meant its parts, in their order.
FrameMeans(query, known, meant, n, f) ==
    LET place == PlaceOf(known, f)
        part(k) == PartOf(known, f, k)
    IN  /\ place \in Places(query)
        /\ CTEs(query)[place].some => IsRejected(query)
        /\ ScopeMeans(query, known, f.scope)
        /\ IsSeq(f.done) /\ Len(f.done) <= Arity(f.node)
        /\ \A k \in 1..Len(f.done) :
               /\ f.done[k] \in 1..n
               /\ meant[f.done[k]] = Meaning(query)[part(k)]
               /\ ~CTEs(query)[part(k)].some
        /\ f.done # <<>> => KeepsSource(f)

StackMeans(query, known, meant, n, fs) ==
    /\ IsSeq(fs)
    /\ \A k \in 1..Len(fs) : FrameMeans(query, known, meant, n, fs[k])
    /\ \A k \in 1..Len(fs) - 1 : IsCallee(known, fs[k], fs[k + 1])

\* The part that is asked for next, and its scope, are as suspect as f is.
LEMMA CalleeMeans ==
    ASSUME NEW query \in Plans, NEW known, NEW meant, NEW n,
           NEW f, IsFrame(f), FrameMeans(query, known, meant, n, f),
           Len(f.done) < Arity(f.node),
           NEW g, PlaceOf(known, g) = PartOf(known, f, Len(f.done) + 1),
           g.scope = Inner(f), g.done = <<>>
    PROVE  FrameMeans(query, known, meant, n, g) /\ IsCallee(known, f, g)
<1> DEFINE place == PlaceOf(known, f)
           part == PartOf(known, f, Len(f.done) + 1)
           k == ChildIndex(f)
<1>1. /\ place \in Places(query) /\ place.node = f.node
      /\ place.known = known /\ place.scope = Outer(f.scope)
      /\ CTEs(query)[place].some => IsRejected(query)
      /\ ScopeMeans(query, known, f.scope)
      /\ IsSeq(f.scope) /\ Len(f.scope) \in Nat
  BY DEF FrameMeans, PlaceOf, Place, IsFrame, IsSeq
<1>2. f.node.op \in {"join", "delim_get"}
  BY DEF Arity, FrameMeans, IsSeq
<1>3. CASE f.node.op = "delim_get"
  <2>1. f.scope # <<>> /\ Outer(f.scope) # <<>>
    BY <1>1, <1>3, PlanOps, OuterIsSeq, EmptyIsSeq
  <2> DEFINE front == Front(f.scope)
             m == Len(f.scope)
  <2>2. /\ IsSeq(front) /\ Len(front) = m - 1 /\ m \in Nat \ {0}
        /\ \A i \in 1..m - 1 : front[i] = f.scope[i]
        /\ Last(f.scope) = f.scope[m]
    BY <1>1, <2>1, FrontIsSeq DEF Last
  <2>3. part = Copy(place) /\ part \in Places(query)
    BY <1>1, <1>3, PlanOps DEF PartOf
  <2>4. part = Place(known, f.scope[m].data_side, Outer(front))
    BY <1>3, <2>1, <2>2, CalleePlace
  <2>5. Outer(front) = OuterTo(f.scope, m - 1)
    BY <1>1, <2>2, OuterToAll, OuterToIsSame
  <2>. HIDE DEF front
  <2>6. CTEs(query)[part].some => IsRejected(query)
    BY <1>1, <2>2, <2>4, <2>5 DEF ScopeMeans
  <2>7. ASSUME NEW i \in 1..Len(front)
        PROVE  CTEs(query)[Place(known, front[i].data_side,
                                 OuterTo(front, i - 1))].some
                   => IsRejected(query)
    <3>1. i \in 1..m /\ front[i] = f.scope[i]
      BY <2>2
    <3>2. /\ i - 1 \in Nat /\ i - 1 <= Len(front) /\ i - 1 <= m
          /\ \A j \in 1..i - 1 : front[j] = f.scope[j]
      BY <2>2
    <3>3. OuterTo(front, i - 1) = OuterTo(f.scope, i - 1)
      BY <1>1, <2>2, <3>2, OuterToIsSame
    <3>. QED  BY <1>1, <3>1, <3>3 DEF ScopeMeans
  <2>8. g.scope = front
    BY <1>3 DEF Inner, front
  <2>. QED  BY <2>3, <2>6, <2>7, <2>8, EmptyIsSeq, <1>3
            DEF FrameMeans, ScopeMeans, IsCallee, Arity
<1>4. CASE f.node.op = "join"
  <2>1. k \in 1..2
    BY <1>4 DEF FrameMeans, IsSeq, Arity, ChildIndex
  <2>2. part = Side(place, k) /\ part \in Places(query)
    BY <1>1, <1>4, <2>1, PlanOps DEF PartOf, ChildIndex
  <2>3. CTEs(query)[part].some => IsRejected(query)
    BY <1>1, <1>4, <2>1, <2>2, CTEsAt
  <2>4. ScopeMeans(query, known, Inner(f))
    <3>1. CASE ~AtScanSide(f)
      BY <1>1, <1>4, <3>1 DEF Inner
    <3>2. CASE AtScanSide(f)
      <4> DEFINE new == Append(f.scope, Source(f))
                 m == Len(f.scope)
      <4>1. /\ IsSeq(new) /\ Len(new) = m + 1 /\ new[m + 1] = Source(f)
            /\ \A i \in 1..m : new[i] = f.scope[i]
        BY <1>1, AppendIsSeq
      <4>2. Inner(f) = new
        BY <1>4, <3>2 DEF Inner
      <4>. HIDE DEF new
      <4>3. ASSUME NEW i \in 1..m
            PROVE  CTEs(query)[Place(known, new[i].data_side,
                                     OuterTo(new, i - 1))].some
                       => IsRejected(query)
        <5>1. /\ i - 1 \in Nat /\ i - 1 <= Len(new) /\ i - 1 <= m
              /\ \A j \in 1..i - 1 : new[j] = f.scope[j]
          BY <1>1, <4>1
        <5>2. OuterTo(new, i - 1) = OuterTo(f.scope, i - 1)
          BY <1>1, <4>1, <5>1, OuterToIsSame
        <5>. QED  BY <1>1, <4>1, <5>2 DEF ScopeMeans
      <4>4. CTEs(query)[Place(known, new[m + 1].data_side,
                              OuterTo(new, m))].some => IsRejected(query)
        <5>1. OuterTo(new, m) = Outer(f.scope)
          <6>1. m <= Len(new) /\ m <= Len(f.scope)
            BY <1>1, <4>1
          <6>2. OuterTo(new, m) = OuterTo(f.scope, m)
            BY <1>1, <4>1, <6>1, OuterToIsSame
          <6>. QED  BY <1>1, <6>2, OuterToAll
        <5>2. new[m + 1].data_side = f.node.children[DataSide(f.node)]
          BY <4>1 DEF Source
        <5>3. Place(known, new[m + 1].data_side, OuterTo(new, m))
                  = Side(place, DataSide(f.node))
          BY <1>1, <5>1, <5>2 DEF Side
        <5>4. DataSide(f.node) \in 1..2
          BY DEF DataSide
        <5>. QED  BY <1>1, <1>4, <5>3, <5>4, CTEsAt
      <4>5. \A i \in 1..Len(new) : i \in 1..m \/ (i = m + 1 /\ i - 1 = m)
        BY <1>1, <4>1
      <4>. QED  BY <4>2, <4>3, <4>4, <4>5 DEF ScopeMeans
    <3>. QED  BY <3>1, <3>2
  <2>. QED  BY <2>2, <2>3, <2>4, <1>4, EmptyIsSeq
            DEF FrameMeans, IsCallee, Arity
<1>. QED  BY <1>2, <1>3, <1>4

\* A call that has returned stays what it was.
LEMMA FrameOutlives ==
    ASSUME NEW query, NEW known, NEW meant, NEW n \in Nat,
           NEW later, NEW m \in Nat, n <= m,
           \A i \in 1..n : later[i] = meant[i],
           NEW f, FrameMeans(query, known, meant, n, f)
    PROVE  FrameMeans(query, known, later, m, f)
<1>1. ASSUME NEW k \in 1..Len(f.done)
      PROVE  /\ f.done[k] \in 1..m
             /\ later[f.done[k]] = Meaning(query)[PartOf(known, f, k)]
  <2>1. /\ f.done[k] \in 1..n
        /\ meant[f.done[k]] = Meaning(query)[PartOf(known, f, k)]
    BY DEF FrameMeans
  <2>. QED  BY <2>1
<1>. QED  BY <1>1 DEF FrameMeans

LEMMA StackOutlives ==
    ASSUME NEW query, NEW known, NEW meant, NEW n \in Nat,
           NEW later, NEW m \in Nat, n <= m,
           \A i \in 1..n : later[i] = meant[i],
           NEW fs, StackMeans(query, known, meant, n, fs)
    PROVE  StackMeans(query, known, later, m, fs)
<1>1. ASSUME NEW k \in 1..Len(fs)
      PROVE  FrameMeans(query, known, later, m, fs[k])
  <2>1. FrameMeans(query, known, meant, n, fs[k])
    BY DEF StackMeans
  <2>. QED  BY <2>1, FrameOutlives
<1>. QED  BY <1>1 DEF StackMeans

LEMMA PushMeans ==
    ASSUME NEW query, NEW known, NEW meant, NEW n,
           NEW fs, StackMeans(query, known, meant, n, fs),
           NEW e, FrameMeans(query, known, meant, n, e),
           fs # <<>> => IsCallee(known, fs[Len(fs)], e)
    PROVE  StackMeans(query, known, meant, n, Append(fs, e))
<1> DEFINE new == Append(fs, e)
<1>1. /\ IsSeq(fs) /\ IsSeq(new) /\ Len(new) = Len(fs) + 1
      /\ new[Len(fs) + 1] = e /\ \A i \in 1..Len(fs) : new[i] = fs[i]
  BY AppendIsSeq DEF StackMeans
<1>2. Len(fs) \in Nat /\ (fs = <<>> <=> Len(fs) = 0)
  BY <1>1, EmptyIsSeq DEF IsSeq
<1>. HIDE DEF new
<1>3. \A k \in 1..Len(new) : FrameMeans(query, known, meant, n, new[k])
  <2>1. \A k \in 1..Len(new) : k \in 1..Len(fs) \/ k = Len(fs) + 1
    BY <1>1, <1>2
  <2>. QED  BY <1>1, <2>1 DEF StackMeans
<1>4. ASSUME NEW k \in 1..Len(new) - 1
      PROVE  IsCallee(known, new[k], new[k + 1])
  <2>1. CASE k = Len(fs)
    <3>1. k \in 1..Len(fs) /\ fs # <<>>
      BY <2>1, <1>1, <1>2
    <3>2. new[k] = fs[Len(fs)] /\ new[k + 1] = e
      BY <2>1, <3>1, <1>1
    <3>. QED  BY <3>1, <3>2
  <2>2. CASE k < Len(fs)
    <3>1. k \in 1..Len(fs) - 1 /\ k \in 1..Len(fs) /\ k + 1 \in 1..Len(fs)
      BY <2>2, <1>1, <1>2
    <3>2. new[k] = fs[k] /\ new[k + 1] = fs[k + 1]
      BY <3>1, <1>1
    <3>. QED  BY <3>1, <3>2 DEF StackMeans
  <2>. QED  BY <2>1, <2>2, <1>1, <1>2
<1>. QED  BY <1>1, <1>3, <1>4 DEF StackMeans, new

LEMMA PopMeans ==
    ASSUME NEW query, NEW known, NEW meant, NEW n,
           NEW fs, StackMeans(query, known, meant, n, fs), fs # <<>>
    PROVE  /\ StackMeans(query, known, meant, n, Front(fs))
           /\ FrameMeans(query, known, meant, n, fs[Len(fs)])
           /\ Front(fs) # <<>> =>
                  /\ Len(Front(fs)) = Len(fs) - 1 /\ Len(fs) > 1
                  /\ Front(fs)[Len(Front(fs))] = fs[Len(fs) - 1]
                  /\ IsCallee(known, fs[Len(fs) - 1], fs[Len(fs)])
<1>1. /\ IsSeq(fs) /\ IsSeq(Front(fs)) /\ Len(Front(fs)) = Len(fs) - 1
      /\ Len(fs) \in Nat \ {0} /\ \A i \in 1..Len(fs) - 1 : Front(fs)[i] = fs[i]
  BY FrontIsSeq DEF StackMeans
<1>2. Front(fs) # <<>> => Len(fs) > 1
  BY <1>1, EmptyIsSeq DEF IsSeq
<1>3. ASSUME NEW k \in 1..Len(Front(fs)) - 1
      PROVE  IsCallee(known, Front(fs)[k], Front(fs)[k + 1])
  <2>1. k \in 1..Len(fs) - 1 /\ k + 1 \in 1..Len(fs) - 1
    BY <1>1
  <2>2. Front(fs)[k] = fs[k] /\ Front(fs)[k + 1] = fs[k + 1]
    BY <1>1, <2>1
  <2>. QED  BY <2>1, <2>2 DEF StackMeans
<1>4. \A k \in 1..Len(Front(fs)) :
          FrameMeans(query, known, meant, n, Front(fs)[k])
  BY <1>1 DEF StackMeans
<1>5. StackMeans(query, known, meant, n, Front(fs))
  BY <1>1, <1>3, <1>4 DEF StackMeans
<1>6. Len(fs) \in 1..Len(fs) /\ (Len(fs) > 1 =>
          /\ Len(fs) - 1 \in 1..Len(fs) - 1 /\ Len(fs) - 1 + 1 = Len(fs))
  BY <1>1
<1>7. Len(fs) > 1 => IsCallee(known, fs[Len(fs) - 1], fs[Len(fs)])
  <2>1. Len(fs) > 1 => IsCallee(known, fs[Len(fs) - 1], fs[Len(fs) - 1 + 1])
    BY <1>6 DEF StackMeans
  <2>. QED  BY <1>6, <2>1
<1>. QED  BY <1>1, <1>2, <1>5, <1>6, <1>7 DEF StackMeans

LEMMA ReplaceMeans ==
    ASSUME NEW query, NEW known, NEW meant, NEW n,
           NEW fs, StackMeans(query, known, meant, n, fs), fs # <<>>,
           NEW e, FrameMeans(query, known, meant, n, e),
           PlaceOf(known, e) = PlaceOf(known, fs[Len(fs)])
    PROVE  StackMeans(query, known, meant, n, Append(Front(fs), e))
<1>1. Front(fs) # <<>> =>
          /\ Front(fs)[Len(Front(fs))] = fs[Len(fs) - 1]
          /\ IsCallee(known, fs[Len(fs) - 1], fs[Len(fs)])
  BY PopMeans
<1>2. Front(fs) # <<>> => IsCallee(known, Front(fs)[Len(Front(fs))], e)
  BY <1>1 DEF IsCallee
<1>. QED  BY <1>2, PopMeans, PushMeans

-----------------------------------------------------------------------------
(* What a call makes.                                                      *)

\* The CTEs that may be referred to are the ones already in the plan.
KnownMean(query, known, meant, indices, tops) ==
    /\ IsSeq(indices) /\ Len(tops) <= Len(indices)
    /\ \A j, k \in 1..Len(indices) : indices[j] = indices[k] => j = k
    /\ DOMAIN known = {indices[j] : j \in 1..Len(tops)}
    /\ \A j \in 1..Len(tops) :
           Meaning(query)[known[indices[j]]] = meant[tops[j]]

\* The ordinal of a known CTE is its place among the relations of the plan.
LEMMA OrdinalIsFound ==
    ASSUME NEW known, NEW meant, IsSeq(relations),
           KnownMean(plan, known, meant, cte_indices, relations),
           NEW index \in DOMAIN known
    PROVE  /\ Ordinal(index) \in Nat /\ Ordinal(index) < Len(relations)
           /\ Meaning(plan)[known[index]] = meant[relations[Ordinal(index) + 1]]
<1>1. /\ Len(cte_indices) \in Nat /\ Len(relations) \in Nat
      /\ DOMAIN cte_indices = 1..Len(cte_indices)
      /\ Len(relations) <= Len(cte_indices)
  BY DEF KnownMean, IsSeq
<1>2. PICK j \in 1..Len(relations) : index = cte_indices[j]
  BY DEF KnownMean
<1>3. j \in 1..Len(cte_indices)
  BY <1>1
<1>4. \A k \in 1..Len(cte_indices) : cte_indices[k] = index => k = j
  BY <1>2, <1>3 DEF KnownMean
<1> DEFINE P(k) == /\ cte_indices[k] = index
                   /\ \A i \in 1..k - 1 : cte_indices[i] # index
<1>5. P(j)
  <2>1. \A i \in 1..j - 1 : i \in 1..Len(cte_indices) /\ i # j
    BY <1>3
  <2>. QED  BY <1>2, <1>4, <2>1
<1>6. (CHOOSE k \in DOMAIN cte_indices : P(k)) = j
  <2>1. \A k \in DOMAIN cte_indices : P(k) => k = j
    BY <1>1, <1>4
  <2>2. j \in DOMAIN cte_indices
    BY <1>1, <1>3
  <2>. HIDE DEF P
  <2>. QED  BY <1>5, <2>1, <2>2
<1>7. Ordinal(index) = j - 1
  BY <1>6, Zenon DEF Ordinal
<1>. QED  BY <1>2, <1>7, <1>1 DEF KnownMean

\* A call that is complete makes what its place means.
LEMMA BuiltMeans ==
    ASSUME plan \in Plans, NEW known, NEW meant,
           RelsMean(meant, rels, relations),
           KnownMean(plan, known, meant, cte_indices, relations),
           NEW f, IsFrame(f), FrameMeans(plan, known, meant, Len(rels), f),
           IsComplete(f),
           NEW r, r.rel = Built(f).rel, r.inputs = Built(f).inputs
    PROVE  LET v == Meaning(plan)[PlaceOf(known, f)]
           IN  /\ RelMeans(Extended(meant, Len(rels), v), Append(rels, r),
                           relations, Len(rels) + 1)
               /\ ~CTEs(plan)[PlaceOf(known, f)].some
<1> DEFINE place == PlaceOf(known, f)
           v == Meaning(plan)[place]
           new == Extended(meant, Len(rels), v)
           more == Append(rels, r)
           i == Len(rels) + 1
<1>1. /\ Len(rels) \in Nat /\ IsSeq(relations) /\ Len(relations) \in Nat
      /\ more[i] = r
      /\ \A k \in 1..Len(relations) : relations[k] \in 1..Len(rels)
  BY AppendIsSeq DEF RelsMean, IsSeq
<1>2. new[i] = v /\ \A k \in 1..Len(rels) : new[k] = meant[k]
  BY <1>1 DEF Extended
<1>3. /\ place \in Places(plan) /\ place.node = f.node
      /\ place.known = known /\ place.scope = Outer(f.scope)
      /\ IsSeq(f.scope)
      /\ IsSeq(f.done) /\ Len(f.done) \in Nat /\ Len(f.done) <= Arity(f.node)
  BY DEF FrameMeans, PlaceOf, Place, IsFrame, IsSeq
<1>4. ASSUME NEW k \in 1..Len(f.done)
      PROVE  /\ f.done[k] \in 1..Len(rels)
             /\ new[f.done[k]] = Meaning(plan)[PartOf(known, f, k)]
             /\ ~CTEs(plan)[PartOf(known, f, k)].some
  <2>1. /\ f.done[k] \in 1..Len(rels)
        /\ meant[f.done[k]] = Meaning(plan)[PartOf(known, f, k)]
        /\ ~CTEs(plan)[PartOf(known, f, k)].some
    BY DEF FrameMeans
  <2>. QED  BY <1>2, <2>1
<1>. HIDE DEF new, more, v
<1>5. CASE f.node.op = "get"
  <2>1. r.rel = <<"read", f.node.table>> /\ r.inputs = <<>>
    BY <1>5 DEF Built, Read, Rel
  <2>2. v = Relation(r.rel, <<>>)
    BY <2>1, <1>3, <1>5, MeaningAt DEF v
  <2>3. ~IsReference(r)
    BY <2>1 DEF IsReference
  <2>4. IsSeq(r.inputs) /\ Len(r.inputs) = 0
    BY <2>1, EmptyIsSeq
  <2>5. [k \in 1..Len(r.inputs) |-> new[r.inputs[k]]] = <<>>
    BY <2>4
  <2>6. RelMeans(new, more, relations, i)
    BY <1>1, <1>2, <2>2, <2>3, <2>4, <2>5 DEF RelMeans
  <2>7. ~CTEs(plan)[place].some
    BY <1>3, <1>5, CTEsAt
  <2>. QED  BY <2>6, <2>7 DEF new, more, v
<1>6. CASE f.node.op = "cte_ref"
  <2> DEFINE o == Ordinal(f.node.index)
  <2>1. r.rel = <<"reference", o>> /\ r.inputs = <<>>
    BY <1>6 DEF Built, Reference, Rel
  <2>2. f.node.index \in DOMAIN known
    BY <1>3, <1>6, PlanOps
  <2>3. /\ o \in Nat /\ o < Len(relations)
        /\ Meaning(plan)[known[f.node.index]] = meant[relations[o + 1]]
    BY <1>1, <2>2, OrdinalIsFound
  <2>4. v = Meaning(plan)[known[f.node.index]]
    BY <1>3, <1>6, MeaningAt DEF Referent, v
  <2>. HIDE DEF o
  <2>5. IsReference(r) /\ r.rel[2] = o
    BY <2>1 DEF IsReference
  <2>6. o + 1 \in 1..Len(relations)
    BY <1>1, <2>3
  <2>7. relations[o + 1] \in 1..Len(rels)
    BY <1>1, <2>6
  <2>8. relations[o + 1] < i /\ new[relations[o + 1]] = meant[relations[o + 1]]
    BY <1>1, <1>2, <2>7
  <2>9. RelMeans(new, more, relations, i)
    BY <1>1, <1>2, <2>1, <2>3, <2>4, <2>5, <2>8 DEF RelMeans
  <2>10. ~CTEs(plan)[place].some
    BY <1>3, <1>6, CTEsAt
  <2>. QED  BY <2>9, <2>10 DEF new, more, v
<1>7. CASE f.node.op = "delim_get"
  <2>1. Len(f.done) = 1
    BY <1>7 DEF IsComplete
  <2>2. f.done # <<>>
    <3>1. Len(f.done) # 0
      BY <2>1
    <3>. QED  BY <3>1, EmptyIsSeq, Zenon
  <2>3. f.scope # <<>> /\ f.source = Last(f.scope)
    BY <1>7, <2>2 DEF FrameMeans, KeepsSource
  <2>4. r.rel = <<"aggregate", Last(f.scope).column_indices>>
            /\ r.inputs = f.done
    BY <1>7, <2>3 DEF Built, Rel
  <2>5. Last(Outer(f.scope)) = [data_side |-> Last(f.scope).data_side,
                                columns |-> Last(f.scope).column_indices]
    BY <1>3, <2>3, OuterIsSeq, Zenon
  <2>6. v = Relation(r.rel, <<Meaning(plan)[Copy(place)]>>)
    <3>1. place.node.op = "delim_get"
      BY <1>3, <1>7
    <3>2. v = Relation(<<"aggregate", Last(place.scope).columns>>,
                       <<Meaning(plan)[Copy(place)]>>)
      BY <1>3, <3>1, MeaningAt, Zenon DEF v
    <3>3. Last(place.scope).columns = Last(f.scope).column_indices
      BY <1>3, <2>5
    <3>. QED  BY <2>4, <3>2, <3>3, Zenon
  <2>7. PartOf(known, f, 1) = Copy(place)
    BY <1>7 DEF PartOf
  <2>8. [k \in 1..Len(r.inputs) |-> new[r.inputs[k]]]
            = <<Meaning(plan)[Copy(place)]>>
    <3>1. 1 \in 1..Len(f.done)
      BY <2>1
    <3>2. new[f.done[1]] = Meaning(plan)[Copy(place)]
      BY <1>4, <2>7, <3>1
    <3>3. [k \in 1..1 |-> new[f.done[k]]] = <<new[f.done[1]]>>
      OBVIOUS
    <3>. QED  BY <2>1, <2>4, <3>2, <3>3
  <2>9. ~IsReference(r)
    BY <2>4 DEF IsReference
  <2>10. RelMeans(new, more, relations, i)
    <3>1. v = Relation(r.rel, [k \in 1..Len(r.inputs) |-> new[r.inputs[k]]])
      BY <2>6, <2>8, Zenon
    <3>2. IsSeq(r.inputs) /\ \A k \in 1..Len(r.inputs) : r.inputs[k] \in 1..i - 1
      BY <1>1, <1>3, <1>4, <2>4
    <3>. QED  BY <1>1, <1>2, <2>9, <3>1, <3>2 DEF RelMeans
  <2>11. ~CTEs(plan)[place].some
    BY <1>3, <1>7, CTEsAt
  <2>. QED  BY <2>10, <2>11 DEF new, more, v
<1>8. CASE f.node.op = "join"
  <2>1. Len(f.done) = 2
    BY <1>8 DEF IsComplete
  <2>2. r.rel = <<"join", f.node.type>> /\ r.inputs = f.done
    BY <1>8 DEF Built, Rel
  <2>3. PartOf(known, f, 1) = Side(place, IF f.node.swapped THEN 2 ELSE 1)
        /\ PartOf(known, f, 2) = Side(place, IF f.node.swapped THEN 1 ELSE 2)
    BY <1>8 DEF PartOf
  <2>4. 1 \in 1..Len(f.done) /\ 2 \in 1..Len(f.done)
    BY <2>1
  <2>5. v = Relation(r.rel, <<Meaning(plan)[PartOf(known, f, 1)],
                              Meaning(plan)[PartOf(known, f, 2)]>>)
    <3>1. place.node.op = "join"
      BY <1>3, <1>8
    <3>2. v = Relation(<<"join", place.node.type>>,
                  IF place.node.swapped
                  THEN <<Meaning(plan)[Side(place, 2)],
                         Meaning(plan)[Side(place, 1)]>>
                  ELSE <<Meaning(plan)[Side(place, 1)],
                         Meaning(plan)[Side(place, 2)]>>)
      BY <1>3, <3>1, MeaningAt, Zenon DEF v
    <3>. QED  BY <1>3, <2>2, <2>3, <3>2
  <2>6. [k \in 1..Len(r.inputs) |-> new[r.inputs[k]]]
            = <<Meaning(plan)[PartOf(known, f, 1)],
                Meaning(plan)[PartOf(known, f, 2)]>>
    <3>1. new[f.done[1]] = Meaning(plan)[PartOf(known, f, 1)]
          /\ new[f.done[2]] = Meaning(plan)[PartOf(known, f, 2)]
      BY <1>4, <2>4
    <3>2. [k \in 1..2 |-> new[f.done[k]]] = <<new[f.done[1]], new[f.done[2]]>>
      OBVIOUS
    <3>. QED  BY <2>1, <2>2, <3>1, <3>2
  <2>7. ~IsReference(r)
    BY <2>2 DEF IsReference
  <2>8. RelMeans(new, more, relations, i)
    <3>1. v = Relation(r.rel, [k \in 1..Len(r.inputs) |-> new[r.inputs[k]]])
      BY <2>5, <2>6, Zenon
    <3>2. IsSeq(r.inputs) /\ \A k \in 1..Len(r.inputs) : r.inputs[k] \in 1..i - 1
      BY <1>1, <1>3, <1>4, <2>2
    <3>. QED  BY <1>1, <1>2, <2>7, <3>1, <3>2 DEF RelMeans
  <2>9. ~CTEs(plan)[place].some
    BY <1>3, <1>4, <1>8, <2>3, <2>4, CTEsAt
  <2>. QED  BY <2>8, <2>9 DEF new, more, v
<1>. QED  BY <1>5, <1>6, <1>7, <1>8, <1>3, PlanOps DEF IsComplete

-----------------------------------------------------------------------------
(* The producer's invariant: what has been made and what is left to make   *)
(* together mean the query.                                                *)

\* The query means what is left of it at place; sofar says whether it is
\* rejected for what is before that.
IsLeft(query, place, sofar) ==
    /\ place \in Places(query)
    /\ Meaning(query)[place] = Meaning(query)[Start(query)]
    /\ IsRejected(query) <=> sofar \/ CTEs(query)[place].nested

RootPlace(known, fs) == PlaceOf(known, fs[1])

\* Before a relation, while a CTE or the main relation is made, at the end.
BeforeRelation(known) ==
    /\ Len(relations) = Len(cte_indices)
    /\ IsLeft(plan, Place(known, todo, <<>>), FALSE)
MakingCTE(known, fs) ==
    LET index == Last(cte_indices)
    IN  /\ Len(cte_indices) = Len(relations) + 1
        /\ index \notin DOMAIN known
        /\ IsLeft(plan, Place(With(known, index, RootPlace(known, fs)), todo, <<>>),
                  CTEs(plan)[RootPlace(known, fs)].some)
MakingMain(known, fs) ==
    /\ Len(relations) = Len(cte_indices)
    /\ Meaning(plan)[RootPlace(known, fs)] = Meaning(plan)[Start(plan)]
    /\ IsRejected(plan) <=> CTEs(plan)[RootPlace(known, fs)].some
AtEnd(meant) ==
    /\ Len(relations) = Len(cte_indices) + 1
    /\ meant[Last(relations)] = Meaning(plan)[Start(plan)]
    /\ ~IsRejected(plan)

Phase(known, meant) ==
    /\ ~(frames = <<>> /\ todo = Nothing) =>
           KnownMean(plan, known, meant, cte_indices, relations)
    /\ frames = <<>> /\ todo # Nothing => BeforeRelation(known)
    /\ frames # <<>> /\ todo # Nothing => MakingCTE(known, frames)
    /\ frames # <<>> /\ todo = Nothing => MakingMain(known, frames)
    /\ frames = <<>> /\ todo = Nothing => AtEnd(meant)

StatusIsRight ==
    /\ status \in {"running", "not_implemented", "done"}
    /\ status = "not_implemented" => IsRejected(plan)
    /\ status = "done" => frames = <<>> /\ todo = Nothing

ProducerMeans(known, meant) ==
    /\ plan \in Plans
    /\ IsSeq(cte_indices)
    /\ RelsMean(meant, rels, relations)
    /\ StackMeans(plan, known, meant, Len(rels), frames)
    /\ Phase(known, meant)
    /\ StatusIsRight

\* A place that starts a relation.
LEMMA RootFrameMeans ==
    ASSUME NEW query \in Plans, NEW known, NEW meant, NEW n,
           NEW f, f.scope = <<>>, f.done = <<>>, PlaceOf(known, f) \in Places(query),
           CTEs(query)[PlaceOf(known, f)].some => IsRejected(query)
    PROVE  StackMeans(query, known, meant, n, Append(<<>>, f))
<1>1. ScopeMeans(query, known, f.scope)
  BY EmptyIsSeq DEF ScopeMeans
<1>2. Len(f.done) = 0 /\ IsSeq(f.done)
  BY EmptyIsSeq
<1>3. 0 <= Arity(f.node)
  BY DEF Arity
<1>4. FrameMeans(query, known, meant, n, f)
  BY <1>1, <1>2, <1>3 DEF FrameMeans
<1>5. StackMeans(query, known, meant, n, <<>>)
  BY EmptyIsSeq DEF StackMeans
<1>. QED  BY <1>4, <1>5, PushMeans

LEMMA RootIsFirst ==
    ASSUME NEW known, NEW f
    PROVE  /\ Append(<<>>, f) # <<>>
           /\ RootPlace(known, Append(<<>>, f)) = PlaceOf(known, f)
           /\ Outer(<<>>) = <<>>
BY OuterIsSeq, EmptyIsSeq DEF RootPlace

\* The places that start at the top of the plan.
LEMMA NextRelation ==
    ASSUME NEW known, NEW meant, ProducerMeans(known, meant),
           frames = <<>>, todo # Nothing
    PROVE  LET place == Place(known, todo, <<>>)
           IN  /\ plan \in Plans /\ place \in Places(plan)
               /\ place.node = todo /\ place.known = known
               /\ BeforeRelation(known)
               /\ KnownMean(plan, known, meant, cte_indices, relations)
BY DEF ProducerMeans, Phase, BeforeRelation, IsLeft, Place

LEMMA MeansInit ==
    Init => \E known, meant : ProducerMeans(known, meant)
<1>. SUFFICES ASSUME Init PROVE ProducerMeans(NoCTEs, <<>>)
  OBVIOUS
<1>1. /\ plan \in Plans /\ todo = plan /\ frames = <<>> /\ cte_indices = <<>>
      /\ rels = <<>> /\ relations = <<>> /\ status = "running"
  BY DEF Init
<1>2. RelsMean(<<>>, <<>>, <<>>)
  BY EmptyIsSeq DEF RelsMean
<1>3. StackMeans(plan, NoCTEs, <<>>, 0, <<>>)
  BY EmptyIsSeq DEF StackMeans
<1>4. Start(plan) \in Places(plan)
  BY <1>1, PlacesAssumption
<1>5. plan # Nothing
  <2>1. Start(plan).node.op # "nothing"
    BY <1>1, <1>4, PlanOps
  <2>2. Start(plan).node = plan
    BY DEF Start, Place
  <2>. QED  BY <2>1, <2>2 DEF Nothing
<1>6. KnownMean(plan, NoCTEs, <<>>, <<>>, <<>>)
  <2>1. DOMAIN NoCTEs = {<<>>[j] : j \in 1..0}
    BY DEF NoCTEs
  <2>. QED  BY <2>1, EmptyIsSeq DEF KnownMean
<1>7. BeforeRelation(NoCTEs)
  BY <1>1, <1>4 DEF BeforeRelation, IsLeft, Start, IsRejected
<1>8. Phase(NoCTEs, <<>>)
  BY <1>1, <1>5, <1>6, <1>7 DEF Phase
<1>. QED  BY <1>1, <1>2, <1>3, <1>8, EmptyIsSeq
          DEF ProducerMeans, StatusIsRight

\* A CTE's body is next, and what follows it means the query.
LEMMA TransformCTEMeans ==
    ASSUME NEW known, NEW meant, ProducerMeans(known, meant), TransformCTE
    PROVE  ProducerMeans(known, meant)'
<1> DEFINE place == Place(known, todo, <<>>)
           f == Frame(todo.children[1], <<>>)
           index == todo.index
<1>1. /\ frames = <<>> /\ todo # Nothing /\ todo.op = "materialized_cte"
      /\ cte_indices' = Append(cte_indices, index)
      /\ frames' = Append(<<>>, f)
      /\ todo' = todo.children[2]
      /\ UNCHANGED <<plan, rels, relations, status>>
  BY DEF TransformCTE, Call
<1>2. /\ plan \in Plans /\ place \in Places(plan)
      /\ place.node = todo /\ place.known = known
      /\ BeforeRelation(known)
      /\ KnownMean(plan, known, meant, cte_indices, relations)
  BY <1>1, NextRelation
<1>3. PlaceOf(known, f) = Body(place) /\ f.scope = <<>> /\ f.done = <<>>
  BY <1>2, RootIsFirst DEF PlaceOf, Body, Frame
<1>4. /\ Rest(place) = Place(With(known, index, PlaceOf(known, f)), todo', <<>>)
      /\ Rest(place).node = todo'
  BY <1>1, <1>2, <1>3 DEF Rest, Place
<1>5. /\ Body(place) \in Places(plan) /\ Rest(place) \in Places(plan)
      /\ index \notin DOMAIN known
  BY <1>1, <1>2, PlanOps
<1>6. todo' # Nothing
  <2>1. Rest(place).node.op # "nothing"
    BY <1>2, <1>5, PlanOps
  <2>. QED  BY <1>4, <2>1 DEF Nothing
<1>7. /\ Meaning(plan)[place] = Meaning(plan)[Rest(place)]
      /\ CTEs(plan)[place].nested <=> \/ CTEs(plan)[Body(place)].some
                                      \/ CTEs(plan)[Rest(place)].nested
  BY <1>1, <1>2, MeaningAt, CTEsAt
<1>8. /\ IsLeft(plan, place, FALSE) /\ Len(relations) = Len(cte_indices)
      /\ IsSeq(cte_indices)
  BY <1>2 DEF BeforeRelation, KnownMean
<1>9. IsLeft(plan, Rest(place), CTEs(plan)[Body(place)].some)
  BY <1>5, <1>7, <1>8 DEF IsLeft
<1>. HIDE DEF place, f, index
<1>10. RootPlace(known, frames') = PlaceOf(known, f) /\ frames' # <<>>
  BY <1>1, RootIsFirst
<1>11. /\ IsSeq(cte_indices') /\ Len(cte_indices') = Len(cte_indices) + 1
       /\ Last(cte_indices') = index /\ Len(cte_indices) \in Nat
       /\ cte_indices'[Len(cte_indices) + 1] = index
       /\ \A j \in 1..Len(cte_indices) : cte_indices'[j] = cte_indices[j]
  BY <1>1, <1>8, AppendIsSeq DEF IsSeq
<1>12. MakingCTE(known, frames)'
  BY <1>1, <1>3, <1>4, <1>5, <1>8, <1>9, <1>10, <1>11
     DEF MakingCTE, RootPlace
<1>13. KnownMean(plan, known, meant, cte_indices', relations)
  <2>1. ASSUME NEW j \in 1..Len(cte_indices'), NEW k \in 1..Len(cte_indices'),
               cte_indices'[j] = cte_indices'[k]
        PROVE  j = k
    <3>1. \A i \in 1..Len(cte_indices) : cte_indices[i] # index
      BY <1>2, <1>5, <1>8 DEF KnownMean
    <3>. QED  BY <1>2, <1>11, <2>1, <3>1 DEF KnownMean
  <2>2. ASSUME NEW j \in 1..Len(relations)
        PROVE  cte_indices'[j] = cte_indices[j]
    BY <1>8, <1>11
  <2>3. {cte_indices'[j] : j \in 1..Len(relations)}
            = {cte_indices[j] : j \in 1..Len(relations)}
    BY <2>2
  <2>4. \A j \in 1..Len(relations) :
            Meaning(plan)[known[cte_indices'[j]]] = meant[relations[j]]
    BY <1>2, <2>2 DEF KnownMean
  <2>5. Len(relations) <= Len(cte_indices')
    BY <1>8, <1>11
  <2>. QED  BY <1>2, <1>11, <2>1, <2>3, <2>4, <2>5 DEF KnownMean
<1>14. Phase(known, meant)'
  BY <1>1, <1>6, <1>10, <1>12, <1>13 DEF Phase
<1>15. CTEs(plan)[Body(place)].some => IsRejected(plan)
  BY <1>7, <1>8 DEF IsLeft
<1>16. StackMeans(plan, known, meant, Len(rels), frames')
  <2>1. /\ PlaceOf(known, f) \in Places(plan)
        /\ CTEs(plan)[PlaceOf(known, f)].some => IsRejected(plan)
    BY <1>3, <1>5, <1>15, Zenon
  <2>2. StackMeans(plan, known, meant, Len(rels), Append(<<>>, f))
    BY <1>2, <1>3, <2>1, RootFrameMeans
  <2>. QED  BY <1>1, <2>2
<1>17. StatusIsRight'
  BY <1>1 DEF ProducerMeans, StatusIsRight, TransformCTE, Running
<1>. QED  BY <1>1, <1>11, <1>14, <1>16, <1>17 DEF ProducerMeans

\* The main relation is next.
LEMMA TransformRootOpMeans ==
    ASSUME NEW known, NEW meant, ProducerMeans(known, meant), TransformRootOp
    PROVE  ProducerMeans(known, meant)'
<1> DEFINE place == Place(known, todo, <<>>)
           f == Frame(todo, <<>>)
<1>1. /\ frames = <<>> /\ todo # Nothing /\ todo.op # "materialized_cte"
      /\ frames' = Append(<<>>, f)
      /\ todo' = Nothing
      /\ UNCHANGED <<plan, cte_indices, rels, relations, status>>
  BY DEF TransformRootOp, Call
<1>2. /\ plan \in Plans /\ place \in Places(plan)
      /\ place.node = todo /\ place.known = known
      /\ BeforeRelation(known)
      /\ KnownMean(plan, known, meant, cte_indices, relations)
  BY <1>1, NextRelation
<1>3. PlaceOf(known, f) = place /\ f.scope = <<>> /\ f.done = <<>>
  BY RootIsFirst DEF PlaceOf, Frame
<1>4. CTEs(plan)[place].nested <=> CTEs(plan)[place].some
  BY <1>1, <1>2, CTEsAt
<1>5. IsLeft(plan, place, FALSE) /\ Len(relations) = Len(cte_indices)
  BY <1>2 DEF BeforeRelation
<1>. HIDE DEF place, f
<1>6. RootPlace(known, frames') = place /\ frames' # <<>>
  BY <1>1, <1>3, RootIsFirst
<1>7. MakingMain(known, frames)'
  BY <1>1, <1>4, <1>5, <1>6 DEF MakingMain, IsLeft, RootPlace
<1>8. Phase(known, meant)'
  BY <1>1, <1>2, <1>6, <1>7 DEF Phase
<1>9. StackMeans(plan, known, meant, Len(rels), frames')
  <2>1. /\ PlaceOf(known, f) \in Places(plan)
        /\ CTEs(plan)[PlaceOf(known, f)].some => IsRejected(plan)
    BY <1>2, <1>3, <1>4, <1>5, Zenon DEF IsLeft
  <2>2. StackMeans(plan, known, meant, Len(rels), Append(<<>>, f))
    BY <1>2, <1>3, <2>1, RootFrameMeans
  <2>. QED  BY <1>1, <2>2
<1>10. StatusIsRight'
  BY <1>1 DEF ProducerMeans, StatusIsRight, TransformRootOp, Running
<1>. QED  BY <1>1, <1>8, <1>9, <1>10 DEF ProducerMeans

\* The calls below the first one change nothing of what is left.
LEMMA PhaseStays ==
    ASSUME NEW known, NEW meant, NEW later, ProducerMeans(known, meant),
           UNCHANGED <<plan, todo, cte_indices, relations>>,
           frames # <<>>, frames' # <<>>,
           RootPlace(known, frames') = RootPlace(known, frames),
           \A i \in 1..Len(rels) : later[i] = meant[i]
    PROVE  Phase(known, later)'
<1>1. /\ KnownMean(plan, known, meant, cte_indices, relations)
      /\ todo # Nothing => MakingCTE(known, frames)
      /\ todo = Nothing => MakingMain(known, frames)
      /\ \A k \in 1..Len(relations) : relations[k] \in 1..Len(rels)
  BY DEF ProducerMeans, Phase, RelsMean
<1>2. KnownMean(plan, known, later, cte_indices, relations)
  <2>1. \A j \in 1..Len(relations) : later[relations[j]] = meant[relations[j]]
    BY <1>1
  <2>. QED  BY <1>1, <2>1 DEF KnownMean
<1>3. todo # Nothing => MakingCTE(known, frames)'
  BY <1>1 DEF MakingCTE, RootPlace
<1>4. todo = Nothing => MakingMain(known, frames)'
  BY <1>1 DEF MakingMain, RootPlace
<1>. QED  BY <1>2, <1>3, <1>4 DEF Phase

\* The first call stays the first one.
LEMMA RootStays ==
    ASSUME NEW known, NEW fs, IsSeq(fs), fs # <<>>, NEW e
    PROVE  /\ RootPlace(known, Append(fs, e)) = RootPlace(known, fs)
           /\ Append(fs, e) # <<>>
           /\ PlaceOf(known, e) = PlaceOf(known, fs[Len(fs)]) =>
                  RootPlace(known, Append(Front(fs), e)) = RootPlace(known, fs)
<1>1. /\ Len(fs) \in Nat \ {0} /\ IsSeq(Front(fs)) /\ Len(Front(fs)) = Len(fs) - 1
      /\ \A i \in 1..Len(fs) - 1 : Front(fs)[i] = fs[i]
  BY FrontIsSeq
<1>2. /\ IsSeq(Append(fs, e)) /\ Len(Append(fs, e)) = Len(fs) + 1
      /\ \A i \in 1..Len(fs) : Append(fs, e)[i] = fs[i]
  BY AppendIsSeq
<1>3. Append(fs, e)[1] = fs[1] /\ Append(fs, e) # <<>>
  <2>1. 1 \in 1..Len(fs) /\ Len(Append(fs, e)) # 0
    BY <1>1, <1>2
  <2>. QED  BY <1>2, <2>1, EmptyIsSeq, Zenon
<1>4. Append(Front(fs), e)[1] = IF Len(fs) = 1 THEN e ELSE fs[1]
  <2>1. /\ Append(Front(fs), e)[Len(Front(fs)) + 1] = e
        /\ \A i \in 1..Len(Front(fs)) : Append(Front(fs), e)[i] = Front(fs)[i]
    BY <1>1, AppendIsSeq
  <2>. QED  BY <1>1, <2>1
<1>. QED  BY <1>3, <1>4 DEF RootPlace

\* The latest call.
LEMMA TopMeans ==
    ASSUME NEW known, NEW meant, IInv, ProducerMeans(known, meant), frames # <<>>
    PROVE  /\ plan \in Plans /\ IsSeq(frames)
           /\ Top = frames[Len(frames)] /\ Len(frames) \in Nat \ {0}
           /\ Under = Front(frames)
           /\ StackMeans(plan, known, meant, Len(rels), frames)
           /\ IsFrame(Top) /\ FrameMeans(plan, known, meant, Len(rels), Top)
           /\ PlaceOf(known, Top) \in Places(plan)
           /\ PlaceOf(known, Top).node = Top.node
           /\ PlaceOf(known, Top).known = known
           /\ sources = Top.scope /\ IsSeq(Top.scope)
           /\ IsSeq(Top.done) /\ Len(Top.done) \in Nat
           /\ Top.node.op = "delim_get" =>
                  /\ Top.scope # <<>>
                  /\ Len(Last(Top.scope).column_indices) = Top.node.columns
           /\ KnownMean(plan, known, meant, cte_indices, relations)
<1>1. /\ plan \in Plans /\ StackMeans(plan, known, meant, Len(rels), frames)
      /\ KnownMean(plan, known, meant, cte_indices, relations)
  BY DEF ProducerMeans, Phase
<1>2. StackOK(frames) /\ sources = Top.scope
  BY DEF IInv, SourcesMatch
<1>3. /\ IsFrame(Top) /\ Len(frames) \in Nat \ {0} /\ Under = Front(frames)
      /\ Top = frames[Len(frames)] /\ IsSeq(frames)
  BY <1>2, TopIsFrame DEF Top, StackOK
<1>4. FrameMeans(plan, known, meant, Len(rels), Top)
  BY <1>1, <1>3, PopMeans
<1>5. /\ PlaceOf(known, Top) \in Places(plan)
      /\ PlaceOf(known, Top).node = Top.node
      /\ PlaceOf(known, Top).known = known
      /\ PlaceOf(known, Top).scope = Outer(Top.scope)
      /\ IsSeq(Top.scope) /\ IsSeq(Top.done) /\ Len(Top.done) \in Nat
  BY <1>3, <1>4 DEF FrameMeans, PlaceOf, Place, IsFrame, IsSeq
<1>6. ASSUME Top.node.op = "delim_get"
      PROVE  /\ Top.scope # <<>>
             /\ Len(Last(Top.scope).column_indices) = Top.node.columns
  <2>1. /\ Outer(Top.scope) # <<>>
        /\ Len(Last(Outer(Top.scope)).columns) = Top.node.columns
    BY <1>1, <1>5, <1>6, PlanOps
  <2>2. Top.scope # <<>>
    BY <2>1, OuterIsSeq, EmptyIsSeq
  <2>3. Last(Outer(Top.scope)) = [data_side |-> Last(Top.scope).data_side,
                                  columns |-> Last(Top.scope).column_indices]
    BY <1>5, <2>2, OuterIsSeq, Zenon
  <2>. QED  BY <2>1, <2>2, <2>3
<1>. QED  BY <1>1, <1>2, <1>3, <1>4, <1>5, <1>6

LEMMA TransformChildMeans ==
    ASSUME NEW known, NEW meant, IInv, ProducerMeans(known, meant),
           TransformChild
    PROVE  ProducerMeans(known, meant)'
<1> DEFINE f == Top
           scope == IF AtScanSide(Top) THEN Append(Top.scope, Source(Top))
                    ELSE Top.scope
           g == Frame(Top.node.children[ChildIndex(Top)], scope)
<1>1. /\ frames # <<>> /\ f.node.op = "join" /\ Len(f.done) < 2
      /\ frames' = Append(frames, g) /\ status = "running"
      /\ UNCHANGED <<plan, todo, cte_indices, rels, relations, status>>
  BY DEF TransformChild, Call, Calling, Running
<1>2. /\ plan \in Plans /\ IsSeq(frames) /\ f = frames[Len(frames)]
      /\ StackMeans(plan, known, meant, Len(rels), frames)
      /\ IsFrame(f) /\ FrameMeans(plan, known, meant, Len(rels), f)
  BY <1>1, TopMeans
<1>3. /\ g.scope = Inner(f) /\ g.done = <<>>
      /\ g.node = f.node.children[ChildIndex(f)]
  BY <1>1 DEF Inner, Frame
<1>. HIDE DEF g, f
<1>4. PlaceOf(known, g) = PartOf(known, f, Len(f.done) + 1)
  <2>1. PlaceOf(known, g) =
            Place(known, f.node.children[ChildIndex(f)], Outer(Inner(f)))
    BY <1>3 DEF PlaceOf
  <2>. QED  BY <1>1, <1>2, <2>1, CalleePlace
<1>5. Len(f.done) < Arity(f.node)
  BY <1>1 DEF Arity
<1>6. FrameMeans(plan, known, meant, Len(rels), g) /\ IsCallee(known, f, g)
  BY <1>2, <1>3, <1>4, <1>5, CalleeMeans
<1>7. StackMeans(plan, known, meant, Len(rels), frames')
  BY <1>1, <1>2, <1>6, PushMeans
<1>8. Phase(known, meant)'
  BY <1>1, <1>2, RootStays, PhaseStays
<1>9. StatusIsRight'
  BY <1>1 DEF StatusIsRight
<1>. QED  BY <1>1, <1>7, <1>8, <1>9 DEF ProducerMeans

\* No delim get of a planned query is without its join.
LEMMA TransformCopyMeans ==
    ASSUME NEW known, NEW meant, IInv, ProducerMeans(known, meant),
           TransformCopy
    PROVE  ProducerMeans(known, meant)'
<1> DEFINE f == Top
           get == [Top EXCEPT !.source = Last(sources)]
           g == Frame(Last(sources).data_side, Front(Top.scope))
<1>1. /\ frames # <<>> /\ f.node.op = "delim_get" /\ f.done = <<>>
      /\ status = "running"
  BY DEF TransformCopy, Calling, Running
<1>2. /\ plan \in Plans /\ IsSeq(frames) /\ f = frames[Len(frames)]
      /\ Under = Front(frames)
      /\ StackMeans(plan, known, meant, Len(rels), frames)
      /\ IsFrame(f) /\ FrameMeans(plan, known, meant, Len(rels), f)
      /\ sources = f.scope /\ f.scope # <<>>
      /\ Len(Last(f.scope).column_indices) = f.node.columns
  BY <1>1, TopMeans
<1>3. /\ frames' = Append(Append(Front(frames), get), g)
      /\ UNCHANGED <<plan, todo, cte_indices, rels, relations, status>>
  BY <1>1, <1>2 DEF TransformCopy, Call
<1>4. /\ IsFrame(get) /\ get.node = f.node /\ get.scope = f.scope
      /\ get.done = f.done
  BY <1>2 DEF IsFrame
<1>5. /\ g.scope = Front(f.scope) /\ g.done = <<>>
      /\ g.node = Last(f.scope).data_side
  BY <1>2 DEF Frame
<1>. HIDE DEF g, f, get
<1>6. PlaceOf(known, get) = PlaceOf(known, f)
  BY <1>4 DEF PlaceOf
<1>7. FrameMeans(plan, known, meant, Len(rels), get)
  <2>1. Len(f.done) = 0
    BY <1>1, EmptyIsSeq
  <2>2. \A k \in 1..Len(f.done) : FALSE
    BY <2>1
  <2>. QED  BY <1>1, <1>2, <1>4, <1>6, <2>2, Zenon DEF FrameMeans
<1>8. Len(get.done) < Arity(get.node) /\ g.scope = Inner(get)
  BY <1>1, <1>4, <1>5, EmptyIsSeq DEF Arity, Inner
<1>9. PlaceOf(known, g) = PartOf(known, get, Len(get.done) + 1)
  <2>1. PlaceOf(known, g) =
            Place(known, Last(get.scope).data_side, Outer(Front(get.scope)))
    BY <1>4, <1>5 DEF PlaceOf
  <2>2. get.node.op = "delim_get" /\ get.scope # <<>>
    BY <1>1, <1>2, <1>4
  <2>. QED  BY <1>4, <2>1, <2>2, CalleePlace
<1>10. /\ FrameMeans(plan, known, meant, Len(rels), g)
       /\ IsCallee(known, get, g)
  BY <1>2, <1>4, <1>5, <1>7, <1>8, <1>9, CalleeMeans
<1> DEFINE old == Append(Front(frames), get)
<1>11. StackMeans(plan, known, meant, Len(rels), old)
  BY <1>1, <1>2, <1>6, <1>7, ReplaceMeans
<1>12. IsSeq(old) /\ old[Len(old)] = get /\ old # <<>>
  BY <1>1, <1>2, FrontIsSeq, AppendIsSeq, EmptyIsSeq
<1>. HIDE DEF old
<1>13. StackMeans(plan, known, meant, Len(rels), Append(old, g))
  BY <1>10, <1>11, <1>12, PushMeans
<1>14. frames' = Append(old, g)
  BY <1>3 DEF old
<1>15. RootPlace(known, old) = RootPlace(known, frames)
  BY <1>1, <1>2, <1>6, RootStays DEF old
<1>16. /\ RootPlace(known, frames') = RootPlace(known, frames)
       /\ frames' # <<>>
  BY <1>12, <1>14, <1>15, RootStays
<1>17. Phase(known, meant)'
  BY <1>1, <1>3, <1>16, PhaseStays
<1>18. StatusIsRight'
  BY <1>1, <1>3 DEF StatusIsRight
<1>. QED  BY <1>3, <1>13, <1>14, <1>17, <1>18 DEF ProducerMeans

\* Only a CTE below the top makes the producer give up.
LEMMA TransformThrowsMeans ==
    ASSUME NEW known, NEW meant, IInv, ProducerMeans(known, meant),
           TransformThrows
    PROVE  ProducerMeans(known, meant)'
<1>1. /\ frames # <<>> /\ Error(Top.node) # "none"
      /\ status' = Error(Top.node)
      /\ UNCHANGED <<plan, todo, frames, cte_indices, rels, relations>>
  BY DEF TransformThrows, Throw, Calling
<1>2. /\ plan \in Plans /\ IsSeq(relations)
      /\ PlaceOf(known, Top) \in Places(plan)
      /\ PlaceOf(known, Top).node = Top.node
      /\ PlaceOf(known, Top).known = known
      /\ FrameMeans(plan, known, meant, Len(rels), Top)
      /\ KnownMean(plan, known, meant, cte_indices, relations)
  BY <1>1, TopMeans DEF ProducerMeans, RelsMean
<1>3. Top.node.op = "cte_ref" => IsKnownCTE(Top.node.index)
  <2>1. SUFFICES ASSUME Top.node.op = "cte_ref"
                 PROVE  IsKnownCTE(Top.node.index)
    OBVIOUS
  <2>2. Top.node.index \in DOMAIN known
    BY <1>2, <2>1, PlanOps
  <2>3. PICK j \in 1..Len(relations) : Top.node.index = cte_indices[j]
    BY <1>2, <2>2 DEF KnownMean
  <2>4. j \in DOMAIN cte_indices
    BY <1>2 DEF KnownMean, IsSeq
  <2>. QED  BY <2>3, <2>4 DEF IsKnownCTE
<1>4. Top.node.op = "materialized_cte" /\ status' = "not_implemented"
  BY <1>1, <1>3 DEF Error
<1>5. IsRejected(plan)
  BY <1>2, <1>4, CTEsAt DEF FrameMeans
<1>6. StatusIsRight'
  BY <1>1, <1>4, <1>5 DEF StatusIsRight, IsRejected
<1>7. Phase(known, meant)'
  BY <1>1 DEF ProducerMeans, Phase, BeforeRelation, MakingCTE, MakingMain,
              AtEnd, IsLeft, RootPlace, IsRejected
<1>. QED  BY <1>1, <1>6, <1>7 DEF ProducerMeans

\* The caller has one more of its parts.
LEMMA ReturnMeans ==
    ASSUME NEW known, NEW meant, IInv, ProducerMeans(known, meant), Return
    PROVE  \E later : ProducerMeans(known, later)'
<1> DEFINE f == Top
           caller == Last(Under)
           after == [caller EXCEPT !.done = Append(@, Len(rels) + 1)]
           r == Received(caller, Built(f))
           n == Len(rels)
           v == Meaning(plan)[PlaceOf(known, f)]
<1>0. PICK later : later = Extended(meant, n, v)
  OBVIOUS
<1>1. /\ frames # <<>> /\ Len(frames) > 1 /\ IsComplete(f)
      /\ rels' = Append(rels, r)
      /\ frames' = Append(Front(Under), after)
      /\ UNCHANGED <<plan, todo, cte_indices, relations, status>>
  BY DEF Return, Calling
<1>2. /\ plan \in Plans /\ IsSeq(frames) /\ f = frames[Len(frames)]
      /\ Under = Front(frames) /\ Len(frames) \in Nat \ {0}
      /\ StackMeans(plan, known, meant, n, frames)
      /\ IsFrame(f) /\ FrameMeans(plan, known, meant, n, f)
      /\ KnownMean(plan, known, meant, cte_indices, relations)
  BY <1>1, TopMeans
<1>3. /\ RelsMean(meant, rels, relations) /\ n \in Nat
      /\ r.rel = Built(f).rel /\ r.inputs = Built(f).inputs
  BY ReceivedHints DEF ProducerMeans, RelsMean, IsSeq
<1>4. /\ RelMeans(later, Append(rels, r), relations, n + 1)
      /\ ~CTEs(plan)[PlaceOf(known, f)].some
  BY <1>0, <1>1, <1>2, <1>3, BuiltMeans
<1>5. /\ RelsMean(later, Append(rels, r), relations)
      /\ Len(Append(rels, r)) = n + 1
      /\ later[n + 1] = v /\ \A i \in 1..n : later[i] = meant[i]
  <2>. HIDE DEF f, r, v
  <2>. QED  BY <1>0, <1>3, <1>4, OneMoreRel
<1>6. /\ IsSeq(Under) /\ Len(Under) = Len(frames) - 1
      /\ \A i \in 1..Len(frames) - 1 : Under[i] = frames[i]
  BY <1>1, <1>2, FrontIsSeq
<1>7. Under # <<>>
  <2>1. Len(Under) # 0
    BY <1>1, <1>2, <1>6
  <2>. QED  BY <2>1, EmptyIsSeq, Zenon
<1>8. caller = frames[Len(frames) - 1] /\ caller = Under[Len(Under)]
  BY <1>1, <1>2, <1>6 DEF Last
<1>9. /\ StackMeans(plan, known, meant, n, Under)
      /\ IsCallee(known, caller, f)
  BY <1>1, <1>2, <1>7, <1>8, PopMeans
<1>10. FrameMeans(plan, known, meant, n, caller)
  BY <1>7, <1>8, <1>9, PopMeans
<1>11. IsFrame(caller) /\ KeepsSource(caller)
  <2>1. StackOK(frames) /\ Len(frames) - 1 \in 1..Len(frames) - 1
        /\ Len(frames) - 1 \in 1..Len(frames)
    BY <1>1, <1>2 DEF IInv
  <2>. QED  BY <1>8, <2>1 DEF StackOK
<1>. HIDE DEF f, caller, r, v, n
<1>12. /\ after.node = caller.node /\ after.scope = caller.scope
       /\ after.source = caller.source /\ after.done = Append(caller.done, n + 1)
  BY <1>11 DEF IsFrame, n
<1>. HIDE DEF after
<1>13. PlaceOf(known, after) = PlaceOf(known, caller)
  BY <1>12 DEF PlaceOf
<1>14. FrameMeans(plan, known, later, n + 1, caller)
  BY <1>3, <1>5, <1>10, FrameOutlives
<1>15. FrameMeans(plan, known, later, n + 1, after)
  <2>1. /\ IsSeq(caller.done) /\ Len(caller.done) \in Nat
        /\ Len(caller.done) < Arity(caller.node)
        /\ PlaceOf(known, f) = PartOf(known, caller, Len(caller.done) + 1)
        /\ Arity(caller.node) \in Nat
    BY <1>9, <1>10 DEF FrameMeans, IsSeq, IsCallee, Arity
  <2>2. /\ IsSeq(after.done) /\ Len(after.done) = Len(caller.done) + 1
        /\ after.done[Len(caller.done) + 1] = n + 1
        /\ \A i \in 1..Len(caller.done) : after.done[i] = caller.done[i]
    BY <1>12, <2>1, AppendIsSeq
  <2>3. \A k : PartOf(known, after, k) = PartOf(known, caller, k)
    BY <1>12, <1>13 DEF PartOf
  <2>4. ASSUME NEW k \in 1..Len(after.done)
        PROVE  /\ after.done[k] \in 1..n + 1
               /\ later[after.done[k]] = Meaning(plan)[PartOf(known, after, k)]
               /\ ~CTEs(plan)[PartOf(known, after, k)].some
    <3>1. CASE k = Len(caller.done) + 1
      <4>1. after.done[k] = n + 1 /\ PartOf(known, after, k) = PlaceOf(known, f)
        BY <2>1, <2>2, <2>3, <3>1
      <4>. QED  BY <1>3, <1>4, <1>5, <4>1 DEF v
    <3>2. CASE k \in 1..Len(caller.done)
      BY <1>14, <2>2, <2>3, <3>2 DEF FrameMeans
    <3>. QED  BY <2>1, <2>2, <3>1, <3>2
  <2>5. Len(after.done) <= Arity(after.node)
    BY <1>12, <2>1, <2>2
  <2>6. KeepsSource(after)
    BY <1>11, <1>12 DEF KeepsSource
  <2>. QED  BY <1>12, <1>13, <1>14, <2>2, <2>4, <2>5, <2>6 DEF FrameMeans
<1>16. StackMeans(plan, known, later, n + 1, Under)
  BY <1>3, <1>5, <1>9, StackOutlives
<1>17. StackMeans(plan, known, later, n + 1, Append(Front(Under), after))
  BY <1>7, <1>8, <1>13, <1>15, <1>16, ReplaceMeans
<1>18. /\ RootPlace(known, frames') = RootPlace(known, frames)
       /\ frames' # <<>>
  <2>1. RootPlace(known, Append(Front(Under), after)) = RootPlace(known, Under)
    BY <1>6, <1>7, <1>8, <1>13, RootStays
  <2>2. RootPlace(known, Under) = RootPlace(known, frames)
    BY <1>1, <1>2, <1>6 DEF RootPlace
  <2>3. Append(Front(Under), after) # <<>>
    <3>1. IsSeq(Front(Under))
      BY <1>6, <1>7, FrontIsSeq
    <3>2. Len(Append(Front(Under), after)) # 0
      BY <3>1, AppendIsSeq DEF IsSeq
    <3>. QED  BY <3>2, EmptyIsSeq, Zenon
  <2>. QED  BY <1>1, <2>1, <2>2, <2>3
<1>19. Phase(known, later)'
  BY <1>1, <1>5, <1>18, PhaseStays DEF n
<1>20. StatusIsRight'
  BY <1>1 DEF ProducerMeans, StatusIsRight, Return, Calling, Running
<1>21. plan' = plan /\ IsSeq(cte_indices)'
  BY <1>1 DEF ProducerMeans
<1>22. ProducerMeans(known, later)'
  BY <1>1, <1>2, <1>5, <1>17, <1>19, <1>20, <1>21 DEF ProducerMeans
<1>. QED  BY <1>22

\* A CTE has been made: it is known from here on.
LEMMA OneMoreCTE ==
    ASSUME NEW query, NEW known, NEW meant, NEW later, NEW indices,
           NEW tops, IsSeq(tops), NEW n \in Nat,
           KnownMean(query, known, meant, indices, tops),
           Len(indices) = Len(tops) + 1, Last(indices) \notin DOMAIN known,
           \A k \in 1..Len(tops) : later[tops[k]] = meant[tops[k]],
           NEW place, Meaning(query)[place] = later[n]
    PROVE  KnownMean(query, With(known, Last(indices), place), later, indices,
                     Append(tops, n))
<1> DEFINE index == Last(indices)
           more == With(known, index, place)
           new == Append(tops, n)
           m == Len(tops)
<1>1. /\ m \in Nat /\ Len(new) = m + 1 /\ new[m + 1] = n
      /\ \A j \in 1..m : new[j] = tops[j]
  BY AppendIsSeq DEF IsSeq
<1>2. /\ IsSeq(indices) /\ Len(indices) = m + 1 /\ index = indices[m + 1]
      /\ DOMAIN known = {indices[j] : j \in 1..m}
  BY DEF KnownMean, Last
<1>3. /\ DOMAIN more = DOMAIN known \cup {index} /\ more[index] = place
      /\ \A i \in DOMAIN known : more[i] = known[i]
  BY DEF With
<1>. HIDE DEF more, new, m
<1>4. DOMAIN more = {indices[j] : j \in 1..Len(new)}
  <2>1. \A j : j \in 1..Len(new) <=> j \in 1..m \/ j = m + 1
    BY <1>1
  <2>. QED  BY <1>2, <1>3, <2>1
<1>5. ASSUME NEW j \in 1..Len(new)
      PROVE  Meaning(query)[more[indices[j]]] = later[new[j]]
  <2>1. CASE j = m + 1
    BY <1>1, <1>2, <1>3, <2>1
  <2>2. CASE j \in 1..m
    <3>1. /\ indices[j] \in DOMAIN known
          /\ Meaning(query)[known[indices[j]]] = meant[tops[j]]
          /\ later[tops[j]] = meant[tops[j]]
      BY <1>2, <2>2 DEF KnownMean, m
    <3>. QED  BY <1>1, <1>3, <2>2, <3>1
  <2>. QED  BY <1>1, <2>1, <2>2
<1>6. KnownMean(query, more, later, indices, new)
  BY <1>1, <1>2, <1>4, <1>5 DEF KnownMean
<1>. QED  BY <1>6 DEF more, new, index

LEMMA AddRelationMeans ==
    ASSUME NEW known, NEW meant, IInv, ProducerMeans(known, meant), AddRelation
    PROVE  \E next, later : ProducerMeans(next, later)'
<1> DEFINE f == Top
           r == Built(f)
           n == Len(rels)
           v == Meaning(plan)[PlaceOf(known, f)]
           index == Last(cte_indices)
<1>0. PICK later : later = Extended(meant, n, v)
  OBVIOUS
<1>1. /\ frames # <<>> /\ Len(frames) = 1 /\ IsComplete(f)
      /\ rels' = Append(rels, r)
      /\ relations' = Append(relations, n + 1)
      /\ frames' = <<>> /\ status = "running"
      /\ UNCHANGED <<plan, todo, cte_indices, status>>
  BY DEF AddRelation, Calling, Running
<1>2. /\ plan \in Plans /\ f = frames[1]
      /\ IsFrame(f) /\ FrameMeans(plan, known, meant, n, f)
      /\ KnownMean(plan, known, meant, cte_indices, relations)
  BY <1>1, TopMeans
<1>3. /\ RelsMean(meant, rels, relations) /\ n \in Nat
      /\ IsSeq(relations) /\ Len(relations) \in Nat
      /\ \A k \in 1..Len(relations) : relations[k] \in 1..n
  BY DEF ProducerMeans, RelsMean, IsSeq
<1>4. /\ RelMeans(later, Append(rels, r), relations, n + 1)
      /\ ~CTEs(plan)[PlaceOf(known, f)].some
  BY <1>0, <1>1, <1>2, <1>3, BuiltMeans
<1>5. /\ RelsMean(later, Append(rels, r), relations)
      /\ Len(Append(rels, r)) = n + 1
      /\ later[n + 1] = v /\ \A i \in 1..n : later[i] = meant[i]
  <2>. HIDE DEF f, r, v
  <2>. QED  BY <1>0, <1>3, <1>4, OneMoreRel
<1>6. RootPlace(known, frames) = PlaceOf(known, f)
  BY <1>2 DEF RootPlace
<1>7. /\ todo # Nothing => MakingCTE(known, frames)
      /\ todo = Nothing => MakingMain(known, frames)
  BY <1>1 DEF ProducerMeans, Phase
<1>. HIDE DEF f, r, v, n
<1>8. RelsMean(later, rels', relations')
  <2>1. Len(rels') = n + 1 /\ Len(rels') > 0
    BY <1>1, <1>3, <1>5
  <2>2. \A k \in 1..Len(relations) : relations[k] # Len(rels')
    BY <1>3, <2>1
  <2>. QED  BY <1>1, <1>5, <2>1, <2>2, OneMoreTop
<1>9. /\ \A k \in 1..Len(relations) : later[relations[k]] = meant[relations[k]]
      /\ Len(relations') = Len(relations) + 1 /\ Last(relations') = n + 1
      /\ n + 1 \in Nat
  BY <1>1, <1>3, <1>5, AppendIsSeq
<1>10. StatusIsRight' /\ IsSeq(cte_indices)' /\ plan' \in Plans
  BY <1>1 DEF ProducerMeans, StatusIsRight
<1>11. ASSUME NEW next
       PROVE  StackMeans(plan, next, later, Len(rels'), frames')
  BY <1>1, EmptyIsSeq DEF StackMeans
<1>12. CASE todo # Nothing
  <2>1. PICK next : next = With(known, index, PlaceOf(known, f))
    OBVIOUS
  <2>2. /\ Len(cte_indices) = Len(relations) + 1 /\ index \notin DOMAIN known
        /\ IsLeft(plan, Place(next, todo, <<>>), CTEs(plan)[PlaceOf(known, f)].some)
    BY <1>6, <1>7, <1>12, <2>1 DEF MakingCTE
  <2>3. KnownMean(plan, next, later, cte_indices, Append(relations, n + 1))
    <3>1. Meaning(plan)[PlaceOf(known, f)] = later[n + 1]
      BY <1>5 DEF v
    <3>. QED  BY <1>2, <1>3, <1>9, <2>1, <2>2, <3>1, OneMoreCTE
  <2>4. BeforeRelation(next)'
    BY <1>1, <1>3, <1>4, <1>9, <2>2 DEF BeforeRelation, IsLeft, IsRejected
  <2>5. Phase(next, later)'
    BY <1>1, <1>12, <2>3, <2>4 DEF Phase
  <2>6. ProducerMeans(next, later)'
    BY <1>1, <1>8, <1>10, <1>11, <2>5 DEF ProducerMeans
  <2>. QED  BY <2>6
<1>13. CASE todo = Nothing
  <2>1. /\ Len(relations) = Len(cte_indices)
        /\ v = Meaning(plan)[Start(plan)]
        /\ IsRejected(plan) <=> CTEs(plan)[PlaceOf(known, f)].some
    BY <1>6, <1>7, <1>13 DEF MakingMain, v
  <2>2. AtEnd(later)'
    BY <1>1, <1>4, <1>5, <1>9, <2>1 DEF AtEnd, IsRejected
  <2>3. Phase(known, later)'
    BY <1>1, <1>13, <2>2 DEF Phase
  <2>4. ProducerMeans(known, later)'
    BY <1>1, <1>8, <1>10, <1>11, <2>3 DEF ProducerMeans
  <2>. QED  BY <2>4
<1>. QED  BY <1>12, <1>13

LEMMA FinishMeans ==
    ASSUME NEW known, NEW meant, ProducerMeans(known, meant), Finish
    PROVE  ProducerMeans(known, meant)'
<1>1. /\ frames = <<>> /\ todo = Nothing /\ status' = "done"
      /\ UNCHANGED <<plan, todo, frames, cte_indices, rels, relations>>
  BY DEF Finish
<1>2. Phase(known, meant)'
  BY <1>1 DEF ProducerMeans, Phase, AtEnd, IsRejected
<1>3. StatusIsRight'
  BY <1>1 DEF StatusIsRight
<1>. QED  BY <1>1, <1>2, <1>3 DEF ProducerMeans

LEMMA MeansStays ==
    ASSUME NEW known, NEW meant, ProducerMeans(known, meant), UNCHANGED vars
    PROVE  ProducerMeans(known, meant)'
BY DEF vars, ProducerMeans, Phase, BeforeRelation, MakingCTE, MakingMain,
       AtEnd, IsLeft, RootPlace, IsRejected, StatusIsRight

LEMMA NextMeans ==
    ASSUME NEW known, NEW meant, IInv, ProducerMeans(known, meant), [Next]_vars
    PROVE  \E next, later : ProducerMeans(next, later)'
<1>1. CASE Return
  BY <1>1, ReturnMeans
<1>2. CASE AddRelation
  BY <1>2, AddRelationMeans
<1>3. CASE ~Return /\ ~AddRelation
  <2>1. ProducerMeans(known, meant)'
    BY <1>3, TransformCTEMeans, TransformRootOpMeans, TransformChildMeans,
       TransformCopyMeans, TransformThrowsMeans, FinishMeans, MeansStays DEF Next
  <2>. QED  BY <2>1
<1>. QED  BY <1>1, <1>2, <1>3

-----------------------------------------------------------------------------
(* The consumer's invariant: what it has built of a relation is what the   *)
(* relation means.  top is the relation of the plan that it is at.         *)

CallMeans(meant, rs, top, call) ==
    /\ call = [rel |-> call.rel, slot |-> call.slot, done |-> call.done]
    /\ call.rel \in 1..top
    /\ call.done = [k \in DOMAIN call.done |-> call.done[k]]
    /\ \A k \in DOMAIN call.done :
           call.done[k] = meant[rs[call.rel].inputs[k]]

\* call is made for an input of what caller is at.
IsInput(rs, caller, call) ==
    /\ ~IsReference(rs[caller.rel])
    /\ call.rel = rs[caller.rel].inputs[call.slot]

CallsMean(meant, rs, top, cs) ==
    /\ IsSeq(cs)
    /\ \A k \in 1..Len(cs) : CallMeans(meant, rs, top, cs[k])
    /\ \A k \in 1..Len(cs) - 1 : IsInput(rs, cs[k], cs[k + 1])
    /\ cs # <<>> => cs[1].rel = top

ConsumerMeans(meant) ==
    /\ status # "done" => calls = <<>> /\ ctes = <<>> /\ result = Nothing
    /\ status = "done" /\ result = Nothing =>
           /\ IsSeq(ctes) /\ Len(ctes) < Len(relations)
           /\ \A k \in 1..Len(ctes) : ctes[k] = meant[relations[k]]
           /\ CallsMean(meant, rels, relations[Len(ctes) + 1], calls)
    /\ result # Nothing => result = meant[Last(relations)]

LEMMA PushCall ==
    ASSUME NEW meant, NEW rs, NEW top, NEW cs, CallsMean(meant, rs, top, cs),
           NEW e, CallMeans(meant, rs, top, e),
           cs # <<>> => IsInput(rs, cs[Len(cs)], e),
           cs = <<>> => e.rel = top
    PROVE  CallsMean(meant, rs, top, Append(cs, e))
<1> DEFINE new == Append(cs, e)
<1>1. /\ IsSeq(cs) /\ IsSeq(new) /\ Len(new) = Len(cs) + 1
      /\ new[Len(cs) + 1] = e /\ \A i \in 1..Len(cs) : new[i] = cs[i]
  BY AppendIsSeq DEF CallsMean
<1>2. Len(cs) \in Nat /\ (cs = <<>> <=> Len(cs) = 0)
  BY <1>1, EmptyIsSeq DEF IsSeq
<1>. HIDE DEF new
<1>3. \A k \in 1..Len(new) : CallMeans(meant, rs, top, new[k])
  <2>1. \A k \in 1..Len(new) : k \in 1..Len(cs) \/ k = Len(cs) + 1
    BY <1>1, <1>2
  <2>. QED  BY <1>1, <2>1 DEF CallsMean
<1>4. ASSUME NEW k \in 1..Len(new) - 1
      PROVE  IsInput(rs, new[k], new[k + 1])
  <2>1. CASE k = Len(cs)
    <3>1. k \in 1..Len(cs) /\ cs # <<>>
      BY <2>1, <1>1, <1>2
    <3>2. new[k] = cs[Len(cs)] /\ new[k + 1] = e
      BY <2>1, <3>1, <1>1
    <3>. QED  BY <3>1, <3>2
  <2>2. CASE k < Len(cs)
    <3>1. k \in 1..Len(cs) - 1 /\ k \in 1..Len(cs) /\ k + 1 \in 1..Len(cs)
      BY <2>2, <1>1, <1>2
    <3>2. new[k] = cs[k] /\ new[k + 1] = cs[k + 1]
      BY <3>1, <1>1
    <3>. QED  BY <3>1, <3>2 DEF CallsMean
  <2>. QED  BY <2>1, <2>2, <1>1, <1>2
<1>5. new[1].rel = top
  BY <1>1, <1>2 DEF CallsMean
<1>. QED  BY <1>1, <1>3, <1>4, <1>5 DEF CallsMean, new

LEMMA PopCall ==
    ASSUME NEW meant, NEW rs, NEW top, NEW cs, CallsMean(meant, rs, top, cs),
           cs # <<>>
    PROVE  /\ CallsMean(meant, rs, top, Front(cs))
           /\ Len(cs) \in Nat \ {0} /\ CallMeans(meant, rs, top, cs[Len(cs)])
           /\ cs[1].rel = top
           /\ (Len(cs) > 1 <=> Front(cs) # <<>>)
           /\ Len(cs) > 1 =>
                  /\ Last(Front(cs)) = cs[Len(cs) - 1]
                  /\ Front(cs)[Len(Front(cs))] = cs[Len(cs) - 1]
                  /\ IsInput(rs, cs[Len(cs) - 1], cs[Len(cs)])
<1>1. /\ IsSeq(cs) /\ IsSeq(Front(cs)) /\ Len(Front(cs)) = Len(cs) - 1
      /\ Len(cs) \in Nat \ {0} /\ \A i \in 1..Len(cs) - 1 : Front(cs)[i] = cs[i]
  BY FrontIsSeq DEF CallsMean
<1>2. Len(cs) > 1 <=> Front(cs) # <<>>
  BY <1>1, EmptyIsSeq DEF IsSeq
<1>3. ASSUME NEW k \in 1..Len(Front(cs)) - 1
      PROVE  IsInput(rs, Front(cs)[k], Front(cs)[k + 1])
  <2>1. k \in 1..Len(cs) - 1 /\ k + 1 \in 1..Len(cs) - 1
    BY <1>1
  <2>2. Front(cs)[k] = cs[k] /\ Front(cs)[k + 1] = cs[k + 1]
    BY <1>1, <2>1
  <2>. QED  BY <2>1, <2>2 DEF CallsMean
<1>4. /\ \A k \in 1..Len(Front(cs)) : CallMeans(meant, rs, top, Front(cs)[k])
      /\ Front(cs) # <<>> => Front(cs)[1].rel = top
  BY <1>1, <1>2 DEF CallsMean
<1>5. CallsMean(meant, rs, top, Front(cs))
  BY <1>1, <1>3, <1>4 DEF CallsMean
<1>6. Len(cs) \in 1..Len(cs) /\ (Len(cs) > 1 =>
          /\ Len(cs) - 1 \in 1..Len(cs) - 1 /\ Len(cs) - 1 + 1 = Len(cs))
  BY <1>1
<1>7. Len(cs) > 1 => IsInput(rs, cs[Len(cs) - 1], cs[Len(cs)])
  <2>1. Len(cs) > 1 => IsInput(rs, cs[Len(cs) - 1], cs[Len(cs) - 1 + 1])
    BY <1>6 DEF CallsMean
  <2>. QED  BY <1>6, <2>1
<1>. QED  BY <1>1, <1>2, <1>5, <1>6, <1>7 DEF CallsMean, Last

\* The caller that has been given one more input.
LEMMA ReplaceCall ==
    ASSUME NEW meant, NEW rs, NEW top, NEW cs, CallsMean(meant, rs, top, cs),
           cs # <<>>, NEW e, CallMeans(meant, rs, top, e),
           e.rel = cs[Len(cs)].rel, e.slot = cs[Len(cs)].slot
    PROVE  CallsMean(meant, rs, top, Append(Front(cs), e))
<1>0. Len(cs) \in Nat \ {0}
  BY PopCall, Zenon
<1>1. /\ CallsMean(meant, rs, top, Front(cs))
      /\ cs[1].rel = top
      /\ (Len(cs) > 1 <=> Front(cs) # <<>>)
      /\ Len(cs) > 1 =>
             /\ Front(cs)[Len(Front(cs))] = cs[Len(cs) - 1]
             /\ IsInput(rs, cs[Len(cs) - 1], cs[Len(cs)])
  BY PopCall
<1>2. Front(cs) # <<>> => IsInput(rs, Front(cs)[Len(Front(cs))], e)
  BY <1>1 DEF IsInput
<1>3. Front(cs) = <<>> => e.rel = top
  <2>1. \A n \in Nat \ {0} : n = 1 \/ n > 1
    OBVIOUS
  <2>2. Len(cs) = 1 \/ Len(cs) > 1
    BY <1>0, <2>1, Zenon
  <2>. QED  BY <1>1, <2>2, Zenon
<1>. QED  BY <1>1, <1>2, <1>3, PushCall

\* A caller that is given what the latest call has built.
LEMMA HandBack ==
    ASSUME NEW meant, NEW rs, NEW top, NEW cs, CallsMean(meant, rs, top, cs),
           Len(cs) > 1
    PROVE  LET caller == Last(Front(cs))
               call == cs[Len(cs)]
           IN  CallsMean(meant, rs, top,
                   Append(Front(Front(cs)),
                       [caller EXCEPT
                           !.done = With(@, call.slot, meant[call.rel])]))
<1> DEFINE caller == Last(Front(cs))
           call == cs[Len(cs)]
           done == With(caller.done, call.slot, meant[call.rel])
           after == [caller EXCEPT
                         !.done = With(@, call.slot, meant[call.rel])]
<1>1. cs # <<>>
  BY EmptyIsSeq
<1>2. /\ CallsMean(meant, rs, top, Front(cs)) /\ Front(cs) # <<>>
      /\ Last(Front(cs)) = cs[Len(cs) - 1]
      /\ Front(cs)[Len(Front(cs))] = cs[Len(cs) - 1]
      /\ IsInput(rs, cs[Len(cs) - 1], cs[Len(cs)])
  BY <1>1, PopCall
<1>3. /\ caller = Front(cs)[Len(Front(cs))]
      /\ IsInput(rs, caller, call)
  BY <1>2
<1>4. CallMeans(meant, rs, top, caller)
  BY <1>2, <1>3, PopCall
<1>. HIDE DEF caller, call
<1>5. after = [rel |-> caller.rel, slot |-> caller.slot, done |-> done]
  BY <1>4 DEF CallMeans
<1>. HIDE DEF after
<1>6. ASSUME NEW k \in DOMAIN done
      PROVE  done[k] = meant[rs[caller.rel].inputs[k]]
  <2>1. /\ done[k] = IF k = call.slot THEN meant[call.rel] ELSE caller.done[k]
        /\ k = call.slot \/ k \in DOMAIN caller.done
    BY DEF With
  <2>. QED  BY <1>3, <1>4, <2>1 DEF CallMeans, IsInput
<1>7. done = [k \in DOMAIN done |-> done[k]]
  BY DEF With
<1>. HIDE DEF done
<1>8. CallMeans(meant, rs, top, after)
  BY <1>4, <1>5, <1>6, <1>7 DEF CallMeans
<1>9. after.rel = caller.rel /\ after.slot = caller.slot
  BY <1>5
<1>10. CallsMean(meant, rs, top, Append(Front(Front(cs)), after))
  BY <1>2, <1>3, <1>8, <1>9, ReplaceCall
<1>. QED  BY <1>10 DEF after, caller, call

\* What has been built is what the relation means, so it may be handed on.
LEMMA DeliverMeans ==
    ASSUME NEW known, NEW meant, ProducerMeans(known, meant),
           ConsumerMeans(meant), Consuming, calls # <<>>,
           Deliver(meant[Latest.rel]), UNCHANGED vars
    PROVE  ConsumerMeans(meant)'
<1> DEFINE top == relations[Len(ctes) + 1]
           value == meant[Latest.rel]
<1>1. /\ status = "done" /\ result = Nothing
      /\ IsSeq(ctes) /\ Len(ctes) \in Nat /\ Len(ctes) < Len(relations)
      /\ \A k \in 1..Len(ctes) : ctes[k] = meant[relations[k]]
      /\ CallsMean(meant, rels, top, calls)
      /\ UNCHANGED <<status, rels, relations>>
  BY DEF Consuming, ConsumerMeans, IsSeq, vars
<1>2. Len(calls) \in Nat \ {0} /\ calls[1].rel = top
  <2>1. IsSeq(calls) /\ calls[1].rel = top
    BY <1>1 DEF CallsMean
  <2>. QED  BY <2>1, FrontIsSeq
<1>3. Len(relations) \in Nat
  BY DEF ProducerMeans, RelsMean, IsSeq
<1>4. CASE Len(calls) > 1
  <2>1. /\ calls' = Append(Front(Front(calls)),
                      [Last(Front(calls)) EXCEPT
                          !.done = With(@, calls[Len(calls)].slot,
                                        meant[calls[Len(calls)].rel])])
        /\ UNCHANGED <<ctes, result>>
    BY <1>4 DEF Deliver, Latest
  <2>2. CallsMean(meant, rels, top, calls')
    <3>1. CallsMean(meant, rels, top, calls)
      BY <1>1
    <3>. HIDE DEF top
    <3>. QED  BY <1>4, <2>1, <3>1, HandBack
  <2>. QED  BY <1>1, <2>1, <2>2 DEF ConsumerMeans
<1>5. CASE Len(calls) = 1
  <2>1. /\ calls' = <<>> /\ value = meant[top]
        /\ IF IsLastRelation THEN result' = value /\ UNCHANGED ctes
           ELSE ctes' = Append(ctes, value) /\ UNCHANGED result
    <3>1. ~(Len(calls) > 1)
      BY <1>5
    <3>2. value = meant[top]
      BY <1>2, <1>5, Zenon DEF Latest
    <3>. QED  BY <3>1, <3>2, Zenon DEF Deliver
  <2>2. \A t : CallsMean(meant, rels, t, calls')
    BY <2>1, EmptyIsSeq DEF CallsMean
  <2>3. CASE IsLastRelation
    <3>1. Len(ctes) + 1 = Len(relations)
      BY <1>1, <1>3, <2>3 DEF IsLastRelation
    <3>2. result' = meant[Last(relations)] /\ UNCHANGED ctes
      BY <2>1, <2>3, <3>1 DEF Last
    <3>. QED  BY <1>1, <2>2, <3>2 DEF ConsumerMeans
  <2>4. CASE ~IsLastRelation
    <3>1. Len(ctes) + 1 < Len(relations)
      BY <1>1, <1>3, <2>4 DEF IsLastRelation
    <3>2. ctes' = Append(ctes, value) /\ UNCHANGED result
      BY <2>1, <2>4
    <3>. HIDE DEF value
    <3>3. /\ IsSeq(ctes') /\ Len(ctes') = Len(ctes) + 1
          /\ ctes'[Len(ctes) + 1] = value
          /\ \A k \in 1..Len(ctes) : ctes'[k] = ctes[k]
      BY <1>1, <3>2, AppendIsSeq
    <3>4. ASSUME NEW k \in 1..Len(ctes')
          PROVE  ctes'[k] = meant[relations[k]]
      <4>1. CASE k = Len(ctes) + 1
        BY <2>1, <3>3, <4>1
      <4>2. CASE k \in 1..Len(ctes)
        BY <1>1, <3>3, <4>2
      <4>. QED  BY <1>1, <3>3, <4>1, <4>2
    <3>. QED  BY <1>1, <2>2, <3>1, <3>2, <3>3, <3>4 DEF ConsumerMeans
  <2>. QED  BY <2>3, <2>4
<1>6. Len(calls) = 1 \/ Len(calls) > 1
  <2>1. \A n \in Nat \ {0} : n = 1 \/ n > 1
    OBVIOUS
  <2>. QED  BY <1>2, <2>1, Zenon
<1>. QED  BY <1>4, <1>5, <1>6

\* What a message of the plan says of the latest call.
LEMMA LatestMeans ==
    ASSUME NEW known, NEW meant, ProducerMeans(known, meant),
           ConsumerMeans(meant), Consuming, calls # <<>>
    PROVE  /\ status = "done" /\ result = Nothing
           /\ IsSeq(ctes) /\ Len(ctes) \in Nat /\ Len(ctes) < Len(relations)
           /\ relations[Len(ctes) + 1] \in 1..Len(rels)
           /\ CallsMean(meant, rels, relations[Len(ctes) + 1], calls)
           /\ CallMeans(meant, rels, relations[Len(ctes) + 1], Latest)
           /\ Latest.rel \in 1..Len(rels)
           /\ RelMeans(meant, rels, relations, Latest.rel)
<1> DEFINE top == relations[Len(ctes) + 1]
<1>1. /\ status = "done" /\ result = Nothing
      /\ IsSeq(ctes) /\ Len(ctes) \in Nat /\ Len(ctes) < Len(relations)
      /\ CallsMean(meant, rels, top, calls)
  BY DEF Consuming, ConsumerMeans, IsSeq
<1>2. /\ Len(relations) \in Nat /\ Len(rels) \in Nat
      /\ \A k \in 1..Len(relations) : relations[k] \in 1..Len(rels)
      /\ \A i \in 1..Len(rels) : RelMeans(meant, rels, relations, i)
  BY DEF ProducerMeans, RelsMean, IsSeq
<1>3. Len(ctes) + 1 \in 1..Len(relations)
  BY <1>1, <1>2
<1>4. top \in 1..Len(rels)
  BY <1>2, <1>3
<1>5. CallMeans(meant, rels, top, Latest)
  <2>1. CallsMean(meant, rels, top, calls)
    BY <1>1
  <2>. HIDE DEF top
  <2>. QED  BY <2>1, PopCall DEF Latest
<1>6. Latest.rel \in 1..top
  BY <1>5 DEF CallMeans
<1>. HIDE DEF top
<1>7. Latest.rel \in 1..Len(rels)
  BY <1>2, <1>4, <1>6
<1>. QED  BY <1>1, <1>2, <1>4, <1>5, <1>7 DEF top

LEMMA TransformRelationMeans ==
    ASSUME NEW known, NEW meant, ProducerMeans(known, meant),
           ConsumerMeans(meant), TransformRelation
    PROVE  ConsumerMeans(meant)'
<1> DEFINE top == relations[Len(ctes) + 1]
           call == TransformOp(top, 1)
<1>1. /\ status = "done" /\ result = Nothing /\ calls = <<>>
      /\ IsSeq(ctes) /\ Len(ctes) \in Nat /\ Len(ctes) < Len(relations)
      /\ \A k \in 1..Len(ctes) : ctes[k] = meant[relations[k]]
      /\ CallsMean(meant, rels, top, calls)
      /\ calls' = <<call>>
      /\ UNCHANGED <<vars, ctes, result>>
  BY DEF TransformRelation, Consuming, ConsumerMeans, IsSeq
<1>2. /\ Len(relations) \in Nat
      /\ \A k \in 1..Len(relations) : relations[k] \in 1..Len(rels)
  BY DEF ProducerMeans, RelsMean, IsSeq
<1>3. Len(ctes) + 1 \in 1..Len(relations)
  BY <1>1, <1>2
<1>4. top \in Nat /\ top >= 1
  BY <1>2, <1>3
<1>. HIDE DEF top
<1>5. CallMeans(meant, rels, top, call) /\ call.rel = top
  BY <1>4 DEF CallMeans, TransformOp, NoRelations
<1>. HIDE DEF call
<1>6. calls' = Append(<<>>, call)
  BY <1>1
<1>7. CallsMean(meant, rels, top, Append(<<>>, call))
  BY <1>1, <1>5, PushCall
<1>. QED  BY <1>1, <1>6, <1>7 DEF ConsumerMeans, vars, top

LEMMA TransformInputMeans ==
    ASSUME NEW known, NEW meant, ProducerMeans(known, meant),
           ConsumerMeans(meant), TransformInput
    PROVE  ConsumerMeans(meant)'
<1> DEFINE top == relations[Len(ctes) + 1]
<1>1. PICK k \in DOMAIN Message.inputs \ DOMAIN Latest.done :
          calls' = Append(calls, TransformOp(Message.inputs[k], k))
  BY DEF TransformInput
<1>2. /\ Consuming /\ calls # <<>> /\ UNCHANGED <<vars, ctes, result>>
  BY DEF TransformInput
<1>3. /\ status = "done" /\ result = Nothing
      /\ CallsMean(meant, rels, top, calls)
      /\ CallMeans(meant, rels, top, Latest)
      /\ Latest.rel \in 1..Len(rels) /\ top \in 1..Len(rels)
      /\ RelMeans(meant, rels, relations, Latest.rel)
  BY <1>2, LatestMeans
<1>4. Latest.rel \in 1..top
  BY <1>3 DEF CallMeans
<1>. HIDE DEF top
<1> DEFINE i == Latest.rel
           inputs == Message.inputs
           call == TransformOp(inputs[k], k)
<1>5. Message = rels[i] /\ inputs = rels[i].inputs /\ k \in DOMAIN inputs
  BY DEF Message
<1>6. ~IsReference(rels[i])
  <2>1. SUFFICES ASSUME IsReference(rels[i]) PROVE FALSE
    OBVIOUS
  <2>2. inputs = <<>>
    BY <1>3, <1>5, <2>1 DEF RelMeans
  <2>. QED  BY <1>5, <2>2
<1>7. IsSeq(inputs) /\ \A j \in 1..Len(inputs) : inputs[j] \in 1..i - 1
  BY <1>3, <1>5, <1>6 DEF RelMeans
<1>8. k \in 1..Len(inputs)
  BY <1>5, <1>7 DEF IsSeq
<1>9. inputs[k] \in 1..top
  <2>1. inputs[k] \in 1..i - 1
    BY <1>7, <1>8
  <2>. QED  BY <1>3, <1>4, <2>1
<1>. HIDE DEF inputs, i
<1>10. /\ CallMeans(meant, rels, top, call)
       /\ call.rel = inputs[k] /\ call.slot = k
  BY <1>9 DEF CallMeans, TransformOp, NoRelations
<1>11. IsInput(rels, Latest, call)
  BY <1>5, <1>6, <1>10 DEF IsInput, i
<1>. HIDE DEF call
<1>12. CallsMean(meant, rels, top, Append(calls, call))
  BY <1>2, <1>3, <1>10, <1>11, PushCall DEF Latest
<1>13. calls' = Append(calls, call)
  BY <1>1 DEF call, inputs
<1>. QED  BY <1>2, <1>3, <1>12, <1>13 DEF ConsumerMeans, vars, top

\* No reference is to a CTE that is not there yet.
LEMMA TransformReferenceOpMeans ==
    ASSUME NEW known, NEW meant, ProducerMeans(known, meant),
           ConsumerMeans(meant), TransformReferenceOp
    PROVE  ConsumerMeans(meant)'
<1> DEFINE o == Message.rel[2]
           top == relations[Len(ctes) + 1]
<1>1. /\ Consuming /\ calls # <<>> /\ IsReference(Message) /\ UNCHANGED vars
      /\ IF o >= Len(ctes)
         THEN result' = InvalidInput /\ UNCHANGED <<calls, ctes>>
         ELSE Deliver(ctes[o + 1])
  BY DEF TransformReferenceOp
<1>2. /\ status = "done" /\ result = Nothing /\ Len(ctes) \in Nat
      /\ Len(ctes) < Len(relations)
      /\ CallMeans(meant, rels, top, Latest)
      /\ Latest.rel \in 1..Len(rels) /\ top \in 1..Len(rels)
      /\ RelMeans(meant, rels, relations, Latest.rel)
  BY <1>1, LatestMeans
<1>3. /\ o \in Nat /\ o < Len(relations) /\ relations[o + 1] < Latest.rel
      /\ meant[Latest.rel] = meant[relations[o + 1]]
  BY <1>1, <1>2 DEF RelMeans, Message
<1>4. Latest.rel \in 1..top
  BY <1>2 DEF CallMeans
<1>5. /\ Len(relations) \in Nat
      /\ \A k \in 1..Len(relations) : relations[k] \in 1..Len(rels)
      /\ \A j, k \in 1..Len(relations) : j < k => relations[j] < relations[k]
  BY DEF ProducerMeans, RelsMean, IsSeq
<1>. HIDE DEF o
<1>6. o < Len(ctes)
  <2>. SUFFICES ASSUME o >= Len(ctes) PROVE FALSE
    BY <1>2, <1>3
  <2>1. o + 1 \in 1..Len(relations) /\ Len(ctes) + 1 \in 1..Len(relations)
    BY <1>2, <1>3, <1>5
  <2>2. relations[o + 1] >= top
    BY <1>2, <1>3, <1>5, <2>1
  <2>3. relations[o + 1] \in Nat /\ top \in Nat /\ Latest.rel \in Nat
    BY <1>2, <1>5, <2>1
  <2>. HIDE DEF top
  <2>. QED  BY <1>3, <1>4, <2>2, <2>3
<1>7. ctes[o + 1] = meant[relations[o + 1]]
  <2>1. \A k \in 1..Len(ctes) : ctes[k] = meant[relations[k]]
    BY <1>2 DEF ConsumerMeans
  <2>2. o + 1 \in 1..Len(ctes)
    BY <1>2, <1>3, <1>6
  <2>. QED  BY <2>1, <2>2
<1>8. Deliver(meant[Latest.rel])
  <2>1. ~(o >= Len(ctes))
    BY <1>2, <1>3, <1>6
  <2>. QED  BY <1>1, <1>3, <1>7, <2>1, Zenon
<1>. QED  BY <1>1, <1>8, DeliverMeans

LEMMA BuildRelationMeans ==
    ASSUME NEW known, NEW meant, ProducerMeans(known, meant),
           ConsumerMeans(meant), BuildRelation
    PROVE  ConsumerMeans(meant)'
<1> DEFINE i == Latest.rel
           inputs == Message.inputs
           done == Latest.done
<1>1. /\ Consuming /\ calls # <<>> /\ ~IsReference(Message) /\ UNCHANGED vars
      /\ DOMAIN done = DOMAIN inputs
      /\ Deliver(Relation(Message.rel, done))
  BY DEF BuildRelation
<1>2. /\ CallMeans(meant, rels, relations[Len(ctes) + 1], Latest)
      /\ RelMeans(meant, rels, relations, i)
  BY <1>1, LatestMeans
<1>3. /\ done = [k \in DOMAIN inputs |-> done[k]]
      /\ \A k \in DOMAIN inputs : done[k] = meant[inputs[k]]
  BY <1>1, <1>2 DEF CallMeans, Message
<1>4. /\ IsSeq(inputs)
      /\ meant[i] = Relation(Message.rel,
                             [k \in 1..Len(inputs) |-> meant[inputs[k]]])
  BY <1>1, <1>2 DEF RelMeans, Message
<1>. HIDE DEF inputs, done, i
<1>5. DOMAIN inputs = 1..Len(inputs)
  BY <1>4 DEF IsSeq
<1>6. done = [k \in 1..Len(inputs) |-> meant[inputs[k]]]
  BY <1>3, <1>5
<1>7. Deliver(meant[Latest.rel])
  BY <1>1, <1>4, <1>6, Zenon DEF i
<1>. QED  BY <1>1, <1>7, DeliverMeans

-----------------------------------------------------------------------------
RoundTripInv ==
    /\ IInv
    /\ \E known, meant : ProducerMeans(known, meant) /\ ConsumerMeans(meant)

LEMMA RoundTripInit == InitAll => RoundTripInv
<1>. SUFFICES ASSUME InitAll PROVE RoundTripInv
  OBVIOUS
<1>1. Init /\ calls = <<>> /\ ctes = <<>> /\ result = Nothing
  BY DEF InitAll
<1>2. PICK known, meant : ProducerMeans(known, meant)
  BY <1>1, MeansInit
<1>3. ConsumerMeans(meant)
  BY <1>1 DEF ConsumerMeans, Init
<1>. QED  BY <1>1, <1>2, <1>3, InvInit DEF RoundTripInv

\* When the plan is finished, none of it has been read.
LEMMA ProducerStep ==
    ASSUME RoundTripInv, Next, UNCHANGED <<calls, ctes, result>>
    PROVE  RoundTripInv'
<1>1. PICK known, meant : ProducerMeans(known, meant) /\ ConsumerMeans(meant)
  BY DEF RoundTripInv
<1>2. IInv'
  BY InvInductive DEF RoundTripInv
<1>3. PICK next, later : ProducerMeans(next, later)'
  BY <1>1, NextMeans DEF RoundTripInv
<1>4. status = "running"
  BY DEF Next, TransformCTE, TransformRootOp, TransformChild, TransformCopy,
         TransformThrows, Return, AddRelation, Finish, Calling, Running
<1>5. /\ calls = <<>> /\ ctes = <<>> /\ result = Nothing
      /\ calls' = <<>> /\ ctes' = <<>> /\ result' = Nothing
  BY <1>1, <1>4 DEF ConsumerMeans
<1>6. ASSUME status' = "done"
      PROVE  Len(relations') > 0
  <2>1. AtEnd(later)' /\ IsSeq(cte_indices)'
    BY <1>3, <1>6 DEF ProducerMeans, Phase, StatusIsRight
  <2>. QED  BY <2>1 DEF AtEnd, IsSeq
<1>7. ConsumerMeans(later)'
  BY <1>5, <1>6, EmptyIsSeq DEF ConsumerMeans, CallsMean
<1>. QED  BY <1>2, <1>3, <1>7 DEF RoundTripInv

LEMMA ConsumerStep ==
    ASSUME RoundTripInv,
           \/ TransformRelation \/ TransformInput
           \/ TransformReferenceOp \/ BuildRelation
    PROVE  RoundTripInv'
<1>1. PICK known, meant : ProducerMeans(known, meant) /\ ConsumerMeans(meant)
  BY DEF RoundTripInv
<1>2. UNCHANGED vars
  BY DEF TransformRelation, TransformInput, TransformReferenceOp, BuildRelation
<1>3. IInv'
  BY <1>2, InvInductive DEF RoundTripInv
<1>4. ProducerMeans(known, meant)'
  BY <1>1, <1>2, MeansStays
<1>5. ConsumerMeans(meant)'
  BY <1>1, TransformRelationMeans, TransformInputMeans,
     TransformReferenceOpMeans, BuildRelationMeans
<1>. QED  BY <1>3, <1>4, <1>5 DEF RoundTripInv

LEMMA RoundTripInductive == RoundTripInv /\ [NextAll]_allVars => RoundTripInv'
<1>. SUFFICES ASSUME RoundTripInv, [NextAll]_allVars PROVE RoundTripInv'
  OBVIOUS
<1>1. CASE UNCHANGED allVars
  <2>1. PICK known, meant : ProducerMeans(known, meant) /\ ConsumerMeans(meant)
    BY DEF RoundTripInv
  <2>2. UNCHANGED vars /\ UNCHANGED <<calls, ctes, result>>
    BY <1>1 DEF allVars
  <2>3. IInv' /\ ProducerMeans(known, meant)'
    BY <2>1, <2>2, InvInductive, MeansStays DEF RoundTripInv
  <2>4. ConsumerMeans(meant)'
    BY <2>1, <2>2 DEF ConsumerMeans, vars
  <2>. QED  BY <2>3, <2>4 DEF RoundTripInv
<1>2. CASE NextAll
  BY <1>2, ProducerStep, ConsumerStep DEF NextAll
<1>. QED  BY <1>1, <1>2

\* Whatever the query, its joins, copies and CTEs, and in whatever order the
\* inputs of a join are built: what from_substrait runs is what it means.
THEOREM EveryQueryComesBack == SpecAll => []QueryComesBack
<1>1. RoundTripInv => QueryComesBack
  <2>. SUFFICES ASSUME RoundTripInv, result # Nothing
                PROVE  result = Meaning(plan)[Start(plan)]
    BY DEF QueryComesBack
  <2>1. PICK known, meant : ProducerMeans(known, meant) /\ ConsumerMeans(meant)
    BY DEF RoundTripInv
  <2>2. status = "done" /\ result = meant[Last(relations)]
    BY <2>1 DEF ConsumerMeans
  <2>3. AtEnd(meant)
    BY <2>1, <2>2 DEF ProducerMeans, Phase, StatusIsRight
  <2>. QED  BY <2>2, <2>3 DEF AtEnd
<1>. QED  BY <1>1, RoundTripInit, RoundTripInductive, PTL DEF SpecAll

\* Whatever the query, no source is missing or of the wrong width and no CTE
\* unknown: it is rejected exactly if one of its CTEs is below the top.
THEOREM OnlyNestedCTEsAreRejected == SpecAll => []OnlyNestedCTEsFail
<1>1. RoundTripInv => OnlyNestedCTEsFail
  <2>. SUFFICES ASSUME RoundTripInv PROVE OnlyNestedCTEsFail
    OBVIOUS
  <2>1. PICK known, meant : ProducerMeans(known, meant)
    BY DEF RoundTripInv
  <2>2. StatusIsRight
    BY <2>1 DEF ProducerMeans
  <2>3. status = "done" => AtEnd(meant)
    BY <2>1, <2>2 DEF ProducerMeans, Phase, StatusIsRight
  <2>. QED  BY <2>2, <2>3 DEF OnlyNestedCTEsFail, StatusIsRight, AtEnd
<1>. QED  BY <1>1, RoundTripInit, RoundTripInductive, PTL DEF SpecAll

\* The consumer changes nothing that the producer has made: what is shown of
\* the producer alone holds of both.
THEOREM ConsumerOnlyReads == SpecAll => Spec
<1>1. InitAll => Init
  BY DEF InitAll
<1>2. [NextAll]_allVars => [Next]_vars
  <2>. SUFFICES ASSUME [NextAll]_allVars PROVE [Next]_vars
    OBVIOUS
  <2>. QED  BY DEF allVars, NextAll, TransformRelation, TransformInput,
               TransformReferenceOp, BuildRelation
<1>. QED  BY <1>1, <1>2, PTL DEF SpecAll, Spec
=============================================================================
