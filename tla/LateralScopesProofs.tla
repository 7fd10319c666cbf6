------------------------ MODULE LateralScopesProofs ------------------------
(***************************************************************************)
(* Proofs about LateralScopes, for any anchors, widths and depth.          *)
(*                                                                         *)
(* The scopes and the running joins are two stacks that must agree.  The   *)
(* argument follows the owner of a scope, the join whose left columns it   *)
(* names: owners increase along lateral_scopes, every owner is a running   *)
(* join whose guard is armed (Owned), and, if post-join filters stand only *)
(* where nothing encloses them, every join that encloses the current place *)
(* and declares an anchor owns a scope (Covered).                          *)
(***************************************************************************)
EXTENDS LateralScopes, SequenceTheorems, FiniteSetTheorems,
        WellFoundedInduction, TLAPS

ScopePhases == {"filter", "right", "expression"}

\* The join that pushed the i-th scope.
Owner(i) == lateral_scopes[i].left_column_names[1][1]

\* What a frame's flags say about its phase and anchor.
FrameOK(f) ==
    /\ f.phase = "left" => ~f.pushed_scope /\ ~f.should_pop
    /\ f.phase \in ScopePhases =>
           /\ f.pushed_scope <=> f.anchor # NoAnchor
           /\ f.should_pop <=> f.anchor # NoAnchor
    /\ f.phase = "post" => ~f.pushed_scope
    /\ f.should_pop => f.anchor # NoAnchor /\ f.columns \in Nat \ {0}

FramesOK ==
    \A k \in 1..Len(frames) :
        /\ FrameOK(frames[k])
        /\ k < Len(frames) => frames[k].phase \in {"left", "right"}

\* The scope that the join at depth k, with frame f, pushes.
ScopeOf(k, f) == [rel_anchor |-> f.anchor,
                  left_column_names |-> ColumnNames(k, f.columns)]

Owned ==
    /\ \A i \in 1..Len(lateral_scopes) :
           \E k \in 1..Len(frames) :
               frames[k].should_pop /\ lateral_scopes[i] = ScopeOf(k, frames[k])
    /\ \A i, j \in 1..Len(lateral_scopes) : i < j => Owner(i) < Owner(j)

Covered ==
    /\ \A k \in 1..Len(frames) : frames[k].pushed_scope =>
           \E i \in 1..Len(lateral_scopes) : Owner(i) = k
    /\ \A k \in 1..Len(frames) :
           frames[k].phase = "post" /\ frames[k].should_pop =>
               lateral_scopes = <<>>

IInv == TypeOK /\ FramesOK /\ Owned /\ (~NestedPostFilters => Covered)

-----------------------------------------------------------------------------
(* Sequences and records.                                                  *)

\* What popping a stack leaves.
LEMMA FrontProperties ==
    ASSUME NEW S, NEW s \in Seq(S), s # <<>>
    PROVE  /\ Front(s) \in Seq(S)
           /\ Len(s) \in Nat \ {0}
           /\ Len(Front(s)) = Len(s) - 1
           /\ \A i \in 1..Len(s) - 1 : Front(s)[i] = s[i]
<1>1. Len(s) \in Nat \ {0}
  BY EmptySeq
<1>2. \A i \in 1..Len(s) - 1 : s[i] \in S
  BY <1>1, ElementOfSeq
<1> DEFINE n == Len(s) - 1
<1>3. n \in Int /\ \A i \in 1..n : s[i] \in S
  BY <1>1, <1>2
<1>4. /\ SubSeq(s, 1, n) \in Seq(S)
      /\ Len(SubSeq(s, 1, n)) = IF 1 <= n THEN n - 1 + 1 ELSE 0
      /\ \A i \in 1..n - 1 + 1 : SubSeq(s, 1, n)[i] = s[1 + i - 1]
  <2> HIDE DEF n
  <2> QED
    BY <1>3, SubSeqProperties
<1>5. Front(s) = SubSeq(s, 1, n)
  BY DEF Front
<1>6. n \in Nat /\ n - 1 + 1 = n /\ \A i \in 1..n : 1 + i - 1 = i
  BY <1>1
<1> HIDE DEF n
<1>7. /\ Front(s) \in Seq(S) /\ Len(Front(s)) = n
      /\ \A i \in 1..n : Front(s)[i] = s[i]
  BY <1>4, <1>5, <1>6
<1>8. QED
  BY <1>1, <1>7 DEF n

\* The scope of a join is a scope, and names its owner in every column.
LEMMA ScopeProperties ==
    ASSUME NEW k \in Nat, NEW n \in Nat \ {0}, NEW a \in Anchors
    PROVE  /\ [rel_anchor |-> a, left_column_names |-> ColumnNames(k, n)]
                  \in Scopes
           /\ Len(ColumnNames(k, n)) = n
           /\ \A c \in 1..n : ColumnNames(k, n)[c] = <<k, c>>
           /\ ColumnNames(k, n)[1][1] = k
<1>1. ColumnNames(k, n) \in Seq(Columns)
  <2> DEFINE e(c) == <<k, c>>
  <2>1. \A c \in 1..n : e(c) \in Columns
    BY DEF Columns
  <2>2. [c \in 1..n |-> e(c)] \in Seq(Columns)
    BY <2>1, SMT
  <2>3. QED
    BY <2>2 DEF ColumnNames
<1>2. QED
  BY <1>1 DEF Scopes, ColumnNames

LEMMA ScopesPop ==
    ASSUME TypeOK
    PROVE  /\ Pop(lateral_scopes) \in Seq(Scopes)
           /\ Len(Pop(lateral_scopes)) =
                  IF lateral_scopes = <<>> THEN 0 ELSE Len(lateral_scopes) - 1
           /\ \A i \in 1..Len(Pop(lateral_scopes)) :
                  Pop(lateral_scopes)[i] = lateral_scopes[i]
<1>1. CASE lateral_scopes = <<>>
  BY <1>1 DEF Pop
<1>2. CASE lateral_scopes # <<>>
  <2>1. lateral_scopes \in Seq(Scopes)
    BY DEF TypeOK
  <2>2. QED
    BY <1>2, <2>1, FrontProperties DEF Pop
<1>3. QED
  BY <1>1, <1>2

-----------------------------------------------------------------------------
(* Type correctness.                                                       *)

\* Leaving a join keeps the types.
LEMMA LeaveType ==
    ASSUME TypeOK, frames # <<>>, Leave
    PROVE  frames' \in Seq(Frames) /\ lateral_scopes' \in Seq(Scopes)
<1>1. frames \in Seq(Frames) /\ lateral_scopes \in Seq(Scopes)
  BY DEF TypeOK
<1>2. frames' \in Seq(Frames)
  BY <1>1, FrontProperties DEF Leave
<1>3. lateral_scopes' \in Seq(Scopes)
  BY <1>1, ScopesPop DEF Leave
<1>4. QED
  BY <1>2, <1>3

\* No step takes a variable out of its type.
LEMMA TypeStep == TypeOK /\ [Next]_vars => TypeOK'
<1> SUFFICES ASSUME TypeOK, [Next]_vars PROVE TypeOK'
  OBVIOUS
<1> USE LateralAssumption
<1>0. /\ frames \in Seq(Frames) /\ lateral_scopes \in Seq(Scopes)
      /\ throwing \in BOOLEAN
  BY DEF TypeOK
<1>a. ASSUME frames # <<>>
      PROVE  Depth \in 1..Len(frames) /\ Top \in Frames
  BY <1>0, <1>a, EmptySeq, ElementOfSeq DEF Depth, Top
<1>b. ASSUME NEW f \in Frames, frames # <<>>, SetTop(f)
      PROVE  frames' \in Seq(Frames)
  BY <1>0, <1>a, <1>b, ExceptSeq DEF SetTop
<1>1. CASE UNCHANGED vars
  BY <1>1 DEF vars, TypeOK
<1>2. CASE TransformLateralJoinOp
  BY <1>0, <1>2 DEF TransformLateralJoinOp, TypeOK, NewFrame, Frames, Phases
<1>3. ASSUME NEW anchor \in Anchors \cup {NoAnchor}, NEW n \in Widths,
             NEW filtered \in BOOLEAN, LeftTransformed(anchor, n, filtered)
      PROVE  TypeOK'
  <2>1. Depth \in Nat /\ n \in Nat \ {0} /\ frames # <<>>
    BY <1>a, <1>3 DEF LeftTransformed, Running
  <2>2. lateral_scopes' \in Seq(Scopes)
    <3>1. CASE anchor = NoAnchor
      BY <1>0, <1>3, <3>1 DEF LeftTransformed
    <3>2. CASE anchor # NoAnchor
      <4>1. [rel_anchor |-> anchor, left_column_names |-> ColumnNames(Depth, n)]
                \in Scopes
        BY <2>1, <3>2, ScopeProperties
      <4>2. QED
        BY <1>0, <1>3, <3>2, <4>1 DEF LeftTransformed
    <3>3. QED
      BY <3>1, <3>2
  <2>3. frames' \in Seq(Frames)
    <3> DEFINE f == [phase |-> IF filtered THEN "filter" ELSE "right",
                     anchor |-> anchor, columns |-> n,
                     pushed_scope |-> anchor # NoAnchor,
                     should_pop |-> anchor # NoAnchor]
    <3>1. f \in Frames
      BY <2>1 DEF Frames, Phases
    <3>2. SetTop(f)
      BY <1>3 DEF LeftTransformed
    <3> HIDE DEF f
    <3>3. QED
      BY <1>b, <2>1, <3>1, <3>2
  <2>4. QED
    BY <1>0, <1>3, <2>2, <2>3 DEF LeftTransformed, TypeOK
<1>4. CASE FilterTransformed \/ RightTransformed
  <2>1. PICK p \in {"right", "expression"} : SetTop([Top EXCEPT !.phase = p])
    BY <1>4 DEF FilterTransformed, RightTransformed
  <2>2. frames # <<>>
    BY <1>4 DEF FilterTransformed, RightTransformed, Running
  <2>3. [Top EXCEPT !.phase = p] \in Frames
    BY <1>a, <2>2 DEF Frames, Phases
  <2>4. frames' \in Seq(Frames)
    BY <1>b, <2>1, <2>2, <2>3
  <2>5. QED
    BY <1>0, <1>4, <2>4 DEF FilterTransformed, RightTransformed, TypeOK
<1>5. ASSUME NEW has_outer_refs \in BOOLEAN, PostJoinFilter(has_outer_refs)
      PROVE  TypeOK'
  <2>1. CASE has_outer_refs
    BY <1>0, <1>5, <2>1 DEF PostJoinFilter, TypeOK
  <2>2. CASE ~has_outer_refs
    <3>1. frames # <<>>
      BY <1>5 DEF PostJoinFilter, Running
    <3>2. [Top EXCEPT !.phase = "post", !.pushed_scope = FALSE] \in Frames
      BY <1>a, <3>1 DEF Frames, Phases
    <3>3. frames' \in Seq(Frames)
      BY <1>b, <1>5, <2>2, <3>1, <3>2 DEF PostJoinFilter
    <3>4. lateral_scopes' \in Seq(Scopes)
      BY <1>0, <1>5, <2>2, ScopesPop DEF PostJoinFilter
    <3>5. QED
      BY <1>0, <1>5, <2>2, <3>3, <3>4 DEF PostJoinFilter, TypeOK
  <2>3. QED
    BY <2>1, <2>2
<1>6. CASE ReturnJoin \/ ReturnFilter \/ Unwind
  <2>1. frames # <<>> /\ Leave /\ UNCHANGED throwing
    BY <1>6 DEF ReturnJoin, ReturnFilter, Unwind, Running
  <2>2. QED
    BY <1>0, <2>1, LeaveType DEF TypeOK
<1>7. CASE Throw
  BY <1>0, <1>7 DEF Throw, TypeOK
<1>8. QED
  BY <1>1, <1>2, <1>3, <1>4, <1>5, <1>6, <1>7 DEF Next

\* Every variable keeps its type, whatever the plan and whatever throws.
THEOREM TypeCorrect == Spec => []TypeOK
<1>1. Init => TypeOK
  <2>1. <<>> \in Seq(Frames) /\ <<>> \in Seq(Scopes)
    BY EmptySeq
  <2>2. QED
    BY <2>1 DEF Init, TypeOK
<1>2. QED
  BY <1>1, TypeStep, PTL DEF Spec

-----------------------------------------------------------------------------
(* The two stacks agree.                                                   *)

\* Every scope is that of its owner.
LEMMA OwnerProperties ==
    ASSUME TypeOK, FramesOK, Owned, NEW i \in 1..Len(lateral_scopes)
    PROVE  /\ Owner(i) \in 1..Len(frames)
           /\ frames[Owner(i)].should_pop
           /\ lateral_scopes[i] = ScopeOf(Owner(i), frames[Owner(i)])
<1>1. PICK k \in 1..Len(frames) :
          frames[k].should_pop /\ lateral_scopes[i] = ScopeOf(k, frames[k])
  BY DEF Owned
<1>2. frames[k].anchor \in Anchors /\ frames[k].columns \in Nat \ {0}
  <2>1. FrameOK(frames[k]) /\ frames[k] \in Frames
    BY ElementOfSeq DEF FramesOK, TypeOK
  <2>2. QED
    BY <1>1, <2>1 DEF FrameOK, Frames
<1>3. k \in Nat
  BY EmptySeq DEF TypeOK
<1>4. Owner(i) = k
  BY <1>1, <1>2, <1>3, ScopeProperties DEF Owner, ScopeOf
<1>5. QED
  BY <1>1, <1>4

\* Dropping scopes from the end leaves the others with their owners.
LEMMA OwnedPrefix ==
    ASSUME TypeOK, FramesOK, Owned,
           Len(lateral_scopes') \in Nat,
           Len(lateral_scopes') <= Len(lateral_scopes),
           \A i \in 1..Len(lateral_scopes') :
               /\ lateral_scopes'[i] = lateral_scopes[i]
               /\ Owner(i) \in 1..Len(frames')
               /\ frames'[Owner(i)].should_pop
               /\ frames'[Owner(i)].anchor = frames[Owner(i)].anchor
               /\ frames'[Owner(i)].columns = frames[Owner(i)].columns
    PROVE  Owned'
<1>0. Len(lateral_scopes) \in Nat
  BY EmptySeq DEF TypeOK
<1>1. ASSUME NEW i \in 1..Len(lateral_scopes')
      PROVE  \E k \in 1..Len(frames') :
                 /\ frames'[k].should_pop
                 /\ lateral_scopes'[i] = ScopeOf(k, frames'[k])
  <2>1. lateral_scopes[i] = ScopeOf(Owner(i), frames[Owner(i)])
    BY <1>0, OwnerProperties
  <2>2. ScopeOf(Owner(i), frames'[Owner(i)])
            = ScopeOf(Owner(i), frames[Owner(i)])
    BY DEF ScopeOf
  <2>3. QED
    BY <2>1, <2>2
<1>2. ASSUME NEW i \in 1..Len(lateral_scopes'),
             NEW j \in 1..Len(lateral_scopes'), i < j
      PROVE  Owner(i)' < Owner(j)'
  <2>1. i \in 1..Len(lateral_scopes) /\ j \in 1..Len(lateral_scopes)
    BY <1>0
  <2>2. Owner(i) < Owner(j)
    BY <1>2, <2>1 DEF Owned
  <2>3. Owner(i)' = Owner(i) /\ Owner(j)' = Owner(j)
    BY DEF Owner
  <2>4. QED
    BY <2>2, <2>3
<1>3. QED
  BY <1>1, <1>2 DEF Owned

\* Replacing the innermost frame.
LEMMA TopReplaced ==
    ASSUME TypeOK, FramesOK, frames # <<>>,
           NEW f \in Frames, FrameOK(f), SetTop(f)
    PROVE  /\ FramesOK' /\ Len(frames') = Len(frames)
           /\ Len(frames) \in Nat \ {0}
           /\ frames'[Len(frames)] = f
           /\ \A k \in 1..Len(frames) - 1 : frames'[k] = frames[k]
<1>1. Len(frames) \in Nat \ {0} /\ DOMAIN frames = 1..Len(frames)
  BY EmptySeq, LenProperties DEF TypeOK
<1>2. /\ Len(frames') = Len(frames)
      /\ frames'[Len(frames)] = f
      /\ \A k \in 1..Len(frames) - 1 : frames'[k] = frames[k]
  <2> DEFINE n == Len(frames)
             new == [frames EXCEPT ![n] = f]
  <2>1. n \in 1..Len(frames) /\ frames \in Seq(Frames)
    BY <1>1 DEF TypeOK
  <2>2. /\ Len(new) = Len(frames)
        /\ \A k \in 1..Len(frames) : new[k] = IF k = n THEN f ELSE frames[k]
    <3> HIDE DEF n
    <3> QED
      BY <2>1, ExceptSeq
  <2>3. frames' = new
    BY DEF SetTop, Depth
  <2> HIDE DEF new
  <2>4. Len(frames') = Len(frames)
    BY <2>2, <2>3
  <2>5. \A k \in 1..n : frames'[k] = IF k = n THEN f ELSE frames[k]
    BY <2>2, <2>3
  <2>6. n \in Nat \ {0}
    BY <1>1
  <2> HIDE DEF n
  <2>7. frames'[n] = f /\ \A k \in 1..n - 1 : frames'[k] = frames[k]
    BY <2>5, <2>6
  <2>8. QED
    BY <2>4, <2>7 DEF n
<1>3. FramesOK'
  BY <1>1, <1>2 DEF FramesOK, FrameOK
<1>4. QED
  BY <1>1, <1>2, <1>3

\* The last scope belongs to the innermost join that has one.
LEMMA TopOwner ==
    ASSUME TypeOK, FramesOK, Owned, NEW i \in 1..Len(lateral_scopes),
           Owner(i) = Len(frames)
    PROVE  i = Len(lateral_scopes)
<1>1. Len(lateral_scopes) \in Nat /\ Len(frames) \in Nat
  BY EmptySeq DEF TypeOK
<1>2. Owner(Len(lateral_scopes)) \in 1..Len(frames)
  BY <1>1, OwnerProperties
<1>3. QED
  BY <1>1, <1>2 DEF Owned

\* The scope guard, when a join is left, takes off its scope or nothing.
LEMMA LeaveStep ==
    ASSUME IInv, frames # <<>>, Leave
    PROVE  FramesOK' /\ Owned' /\ (~NestedPostFilters => Covered')
<1> DEFINE n == Len(frames)
           s == Len(lateral_scopes)
<1>1. TypeOK /\ FramesOK /\ Owned /\ (~NestedPostFilters => Covered)
  BY DEF IInv
<1>2. n \in Nat \ {0} /\ s \in Nat
  BY <1>1, EmptySeq DEF TypeOK
<1>3. Len(frames') = n - 1 /\ \A k \in 1..n - 1 : frames'[k] = frames[k]
  BY <1>1, FrontProperties DEF Leave, TypeOK
<1>4. FramesOK'
  <2> HIDE DEF n
  <2>1. ASSUME NEW k \in 1..n - 1
        PROVE  FrameOK(frames[k]) /\ frames[k].phase \in {"left", "right"}
    BY <1>1, <1>2, <2>1 DEF FramesOK, n
  <2>2. QED
    BY <1>2, <1>3, <2>1 DEF FramesOK
<1>5. /\ Len(lateral_scopes') =
             IF Top.should_pop /\ s # 0 THEN s - 1 ELSE s
      /\ \A i \in 1..Len(lateral_scopes') :
             lateral_scopes'[i] = lateral_scopes[i]
  <2>1. s = 0 <=> lateral_scopes = <<>>
    BY <1>1, EmptySeq DEF TypeOK
  <2>2. QED
    BY <1>1, <2>1, ScopesPop DEF Leave
<1>6. Top = frames[n]
  BY DEF Top, Depth
\* A scope that stays belongs to a join that stays.
<1>7. ASSUME NEW i \in 1..Len(lateral_scopes')
      PROVE  Owner(i) \in 1..n - 1 /\ frames[Owner(i)].should_pop
  <2>1. i \in 1..s /\ (Top.should_pop => i < s)
    BY <1>2, <1>5
  <2>2. Owner(i) \in 1..n /\ frames[Owner(i)].should_pop
    BY <1>1, <2>1, OwnerProperties
  <2>3. Owner(i) # n
    BY <1>1, <1>6, <2>1, <2>2, TopOwner
  <2>4. QED
    BY <1>2, <2>2, <2>3
<1>8. Owned'
  <2> HIDE DEF n
  <2>1. /\ Len(lateral_scopes') \in Nat
        /\ Len(lateral_scopes') <= Len(lateral_scopes)
    BY <1>2, <1>5
  <2>2. QED
    BY <1>1, <1>2, <1>3, <1>5, <1>7, <2>1, OwnedPrefix
<1>9. ASSUME ~NestedPostFilters PROVE Covered'
  <2>1. Covered
    BY <1>1, <1>9
  <2>2. ASSUME NEW k \in 1..n - 1, frames[k].pushed_scope
        PROVE  \E i \in 1..Len(lateral_scopes') : Owner(i)' = k
    <3>1. PICK i \in 1..s : Owner(i) = k
      BY <1>2, <2>1, <2>2 DEF Covered
    <3>2. CASE Top.should_pop
      <4>1. s # 0
        BY <1>2, <3>1
      <4>2. FrameOK(frames[n])
        BY <1>1, <1>2 DEF FramesOK
      <4>3. frames[n].phase # "post"
        BY <1>2, <1>6, <2>1, <3>2, <4>1, EmptySeq DEF Covered
      <4>4. frames[n] \in Frames
        BY <1>1, <1>2, ElementOfSeq DEF TypeOK
      <4>5. frames[n].pushed_scope
        BY <1>6, <3>2, <4>2, <4>3, <4>4
           DEF FrameOK, ScopePhases, Frames, Phases
      <4>6. PICK j \in 1..s : Owner(j) = n
        BY <1>2, <2>1, <4>5 DEF Covered
      <4>7. j = s
        BY <1>1, <4>6, TopOwner
      <4>8. i # s
        BY <1>2, <2>2, <3>1, <4>6, <4>7
      <4>9. i \in 1..Len(lateral_scopes') /\ Owner(i)' = Owner(i)
        BY <1>2, <1>5, <3>1, <3>2, <4>1, <4>8 DEF Owner
      <4>10. QED
        BY <3>1, <4>9
    <3>3. CASE ~Top.should_pop
      <4>1. i \in 1..Len(lateral_scopes') /\ Owner(i)' = Owner(i)
        BY <1>5, <3>1, <3>3 DEF Owner
      <4>2. QED
        BY <3>1, <4>1
    <3>4. QED
      BY <3>2, <3>3
  <2>3. \A k \in 1..n - 1 : frames[k].phase # "post"
    BY <1>1, <1>2 DEF FramesOK
  <2>4. QED
    BY <1>3, <2>2, <2>3 DEF Covered
<1>10. QED
  BY <1>4, <1>8, <1>9

\* A step that leaves the scopes alone and changes only the phase of the
\* innermost join, within its right side.
LEMMA PhaseStep ==
    ASSUME IInv, frames # <<>>, NEW p \in ScopePhases,
           Top.phase \in ScopePhases,
           SetTop([Top EXCEPT !.phase = p]), UNCHANGED lateral_scopes
    PROVE  FramesOK' /\ Owned' /\ (~NestedPostFilters => Covered')
<1> DEFINE n == Len(frames)
           f == [Top EXCEPT !.phase = p]
<1>1. TypeOK /\ FramesOK /\ Owned /\ (~NestedPostFilters => Covered)
  BY DEF IInv
<1>2. n \in Nat \ {0} /\ Top = frames[n] /\ Len(lateral_scopes) \in Nat
  BY <1>1, EmptySeq DEF TypeOK, Top, Depth
<1>3. Top \in Frames /\ FrameOK(Top)
  BY <1>1, <1>2, ElementOfSeq DEF TypeOK, FramesOK
<1>4. /\ f \in Frames /\ f.phase = p
      /\ f.anchor = Top.anchor /\ f.columns = Top.columns
      /\ f.pushed_scope = Top.pushed_scope /\ f.should_pop = Top.should_pop
  BY <1>3 DEF Frames, Phases, ScopePhases
<1>5. FrameOK(f)
  BY <1>3, <1>4 DEF FrameOK, ScopePhases
<1> HIDE DEF f
<1>6. /\ FramesOK' /\ Len(frames') = n /\ frames'[n] = f
      /\ \A k \in 1..n - 1 : frames'[k] = frames[k]
  BY <1>1, <1>4, <1>5, TopReplaced DEF f
<1>7. ASSUME NEW k \in 1..n
      PROVE  /\ frames'[k].anchor = frames[k].anchor
             /\ frames'[k].columns = frames[k].columns
             /\ frames'[k].pushed_scope = frames[k].pushed_scope
             /\ frames'[k].should_pop = frames[k].should_pop
             /\ frames'[k].phase = "post" => frames[k].phase = "post"
  <2>1. CASE k = n
    BY <1>2, <1>4, <1>6, <2>1 DEF ScopePhases
  <2>2. CASE k # n
    <3>1. k \in 1..n - 1
      BY <1>2, <2>2
    <3>2. QED
      BY <1>6, <3>1
  <2>3. QED
    BY <2>1, <2>2
<1>8. Owned'
  BY <1>1, <1>2, <1>6, <1>7, OwnerProperties, OwnedPrefix
<1>9. ASSUME ~NestedPostFilters PROVE Covered'
  <2>1. Covered /\ \A i \in 1..Len(lateral_scopes) : Owner(i)' = Owner(i)
    BY <1>1, <1>9 DEF Owner
  <2>2. QED
    BY <1>6, <1>7, <2>1 DEF Covered
<1>10. QED
  BY <1>6, <1>8, <1>9

\* A nested join begins: no scope yet.
LEMMA EnterStep ==
    ASSUME IInv, TransformLateralJoinOp
    PROVE  FramesOK' /\ Owned' /\ (~NestedPostFilters => Covered')
<1> DEFINE n == Len(frames)
<1>1. TypeOK /\ FramesOK /\ Owned /\ (~NestedPostFilters => Covered)
  BY DEF IInv
<1>2. n \in Nat /\ Len(lateral_scopes) \in Nat
  BY <1>1, EmptySeq DEF TypeOK
<1>3. /\ Len(frames') = n + 1 /\ frames'[n + 1] = NewFrame
      /\ \A k \in 1..n : frames'[k] = frames[k]
      /\ lateral_scopes' = lateral_scopes
  BY <1>1 DEF TransformLateralJoinOp, TypeOK
<1>4. n # 0 => frames[n].phase \in {"left", "right"}
  <2>1. n # 0 => frames # <<>>
    BY <1>1, EmptySeq DEF TypeOK
  <2>2. QED
    BY <2>1 DEF TransformLateralJoinOp, Top, Depth
<1>5. FrameOK(NewFrame) /\ ~NewFrame.pushed_scope /\ NewFrame.phase = "left"
  BY DEF FrameOK, NewFrame, ScopePhases
<1>6. FramesOK'
  <2>1. ASSUME NEW k \in 1..n + 1
        PROVE  /\ FrameOK(frames'[k])
               /\ k < n + 1 => frames'[k].phase \in {"left", "right"}
    <3>1. CASE k = n + 1
      BY <1>2, <1>3, <1>5, <3>1
    <3>2. CASE k \in 1..n
      BY <1>1, <1>2, <1>3, <1>4, <3>2 DEF FramesOK
    <3>3. QED
      BY <1>2, <3>1, <3>2
  <2>2. QED
    BY <1>3, <2>1 DEF FramesOK, FrameOK
<1>7. Owned'
  <2>1. ASSUME NEW i \in 1..Len(lateral_scopes)
        PROVE  /\ Owner(i) \in 1..n + 1 /\ frames[Owner(i)].should_pop
               /\ frames'[Owner(i)] = frames[Owner(i)]
    <3>1. Owner(i) \in 1..n /\ frames[Owner(i)].should_pop
      BY <1>1, OwnerProperties
    <3>2. QED
      BY <1>2, <1>3, <3>1
  <2>2. QED
    BY <1>1, <1>2, <1>3, <2>1, OwnedPrefix
<1>8. ASSUME ~NestedPostFilters PROVE Covered'
  <2>1. Covered /\ \A i \in 1..Len(lateral_scopes) : Owner(i)' = Owner(i)
    BY <1>1, <1>3, <1>8 DEF Owner
  <2>2. \A k \in 1..n + 1 : k = n + 1 \/ k \in 1..n
    BY <1>2
  <2>3. QED
    BY <1>3, <1>5, <2>1, <2>2 DEF Covered
<1>9. QED
  BY <1>6, <1>7, <1>8

\* The left input is there, and a join that declares an anchor pushes.
LEMMA LeftStep ==
    ASSUME IInv, NEW anchor \in Anchors \cup {NoAnchor}, NEW m \in Widths,
           NEW filtered \in BOOLEAN, LeftTransformed(anchor, m, filtered)
    PROVE  FramesOK' /\ Owned' /\ (~NestedPostFilters => Covered')
<1> DEFINE n == Len(frames)
           s == Len(lateral_scopes)
           f == [phase |-> IF filtered THEN "filter" ELSE "right",
                 anchor |-> anchor, columns |-> m,
                 pushed_scope |-> anchor # NoAnchor,
                 should_pop |-> anchor # NoAnchor]
<1>1. TypeOK /\ FramesOK /\ Owned /\ (~NestedPostFilters => Covered)
  BY DEF IInv
<1>2. /\ n \in Nat \ {0} /\ Top = frames[n] /\ s \in Nat /\ frames # <<>>
      /\ Top.phase = "left" /\ m \in Nat \ {0} /\ Depth = n
  BY <1>1, EmptySeq, LateralAssumption
     DEF TypeOK, Top, Depth, LeftTransformed, Running
<1>3. /\ f \in Frames /\ f.phase \in ScopePhases \ {"left", "post"}
      /\ f.anchor = anchor /\ f.columns = m
      /\ f.pushed_scope <=> anchor # NoAnchor
      /\ f.should_pop <=> anchor # NoAnchor
  BY <1>2 DEF Frames, Phases, ScopePhases
<1>4. FrameOK(f)
  BY <1>2, <1>3 DEF FrameOK, ScopePhases
<1>5. SetTop(f)
  BY DEF LeftTransformed
<1> HIDE DEF f
<1>6. /\ FramesOK' /\ Len(frames') = n /\ frames'[n] = f
      /\ \A k \in 1..n - 1 : frames'[k] = frames[k]
  BY <1>1, <1>2, <1>3, <1>4, <1>5, TopReplaced
<1>7. ~frames[n].pushed_scope /\ ~frames[n].should_pop
  BY <1>1, <1>2 DEF FramesOK, FrameOK
\* The old scopes belong to the joins around this one.
<1>8. ASSUME NEW i \in 1..s
      PROVE  /\ Owner(i) \in 1..n - 1 /\ frames[Owner(i)].should_pop
             /\ frames'[Owner(i)] = frames[Owner(i)]
             /\ lateral_scopes[i] = ScopeOf(Owner(i), frames'[Owner(i)])
  <2>1. /\ Owner(i) \in 1..n /\ frames[Owner(i)].should_pop
        /\ lateral_scopes[i] = ScopeOf(Owner(i), frames[Owner(i)])
    BY <1>1, OwnerProperties
  <2>2. Owner(i) \in 1..n - 1
    BY <1>2, <1>7, <2>1
  <2>3. QED
    BY <1>6, <2>1, <2>2
<1>9. CASE anchor = NoAnchor
  <2>1. lateral_scopes' = lateral_scopes
    BY <1>9 DEF LeftTransformed
  <2>2. \A i \in 1..s : Owner(i) \in 1..n
    BY <1>2, <1>8
  <2>3. Owned'
    BY <1>1, <1>2, <1>6, <1>8, <2>1, <2>2, OwnedPrefix
  <2>4. ASSUME ~NestedPostFilters PROVE Covered'
    <3>1. Covered /\ \A i \in 1..s : Owner(i)' = Owner(i)
      BY <1>1, <2>1, <2>4 DEF Owner
    <3>2. \A k \in 1..n : k = n \/ k \in 1..n - 1
      BY <1>2
    <3>3. ~f.pushed_scope /\ f.phase # "post"
      BY <1>3, <1>9
    <3>4. QED
      BY <1>2, <1>6, <2>1, <3>1, <3>2, <3>3 DEF Covered
  <2>5. QED
    BY <1>6, <2>3, <2>4
<1>10. CASE anchor # NoAnchor
  <2> DEFINE new == ScopeOf(n, f)
  <2>1. new \in Scopes /\ new.left_column_names[1][1] = n
    BY <1>2, <1>3, <1>10, ScopeProperties DEF ScopeOf
  <2>2. lateral_scopes' = Append(lateral_scopes, new)
    BY <1>2, <1>3, <1>10 DEF LeftTransformed, ScopeOf
  <2> HIDE DEF new
  <2>3. /\ Len(lateral_scopes') = s + 1 /\ lateral_scopes'[s + 1] = new
        /\ \A i \in 1..s : lateral_scopes'[i] = lateral_scopes[i]
    BY <1>1, <2>1, <2>2 DEF TypeOK
  <2>4. /\ \A i \in Nat : i = s + 1 => Owner(i)' = n
        /\ \A i \in 1..s : Owner(i)' = Owner(i)
    BY <2>1, <2>3 DEF Owner
  <2>5. \A i \in 1..s + 1 : i = s + 1 \/ i \in 1..s
    BY <1>2
  <2>6. Owned'
    <3>1. ASSUME NEW i \in 1..s + 1
          PROVE  \E k \in 1..n :
                     /\ frames'[k].should_pop
                     /\ lateral_scopes'[i] = ScopeOf(k, frames'[k])
      <4>1. CASE i = s + 1
        BY <1>2, <1>3, <1>6, <1>10, <2>3, <4>1 DEF new
      <4>2. CASE i \in 1..s
        <5>1. Owner(i) \in 1..n
          BY <1>2, <1>8, <4>2
        <5>2. QED
          BY <1>8, <2>3, <4>2, <5>1
      <4>3. QED
        BY <2>5, <4>1, <4>2
    <3>2. ASSUME NEW i \in 1..s + 1, NEW j \in 1..s + 1, i < j
          PROVE  Owner(i)' < Owner(j)'
      <4>1. i \in 1..s
        BY <1>2, <3>2
      <4>2. CASE j = s + 1
        BY <1>2, <1>8, <2>4, <4>1, <4>2
      <4>3. CASE j \in 1..s
        BY <1>1, <2>4, <3>2, <4>1, <4>3 DEF Owned
      <4>4. QED
        BY <2>5, <4>2, <4>3
    <3>3. QED
      BY <1>6, <2>3, <3>1, <3>2 DEF Owned
  <2>7. ASSUME ~NestedPostFilters PROVE Covered'
    <3>1. Covered
      BY <1>1, <2>7
    <3>2. ASSUME NEW k \in 1..n, frames'[k].pushed_scope
          PROVE  \E i \in 1..s + 1 : Owner(i)' = k
      <4>1. CASE k = n
        <5>1. PICK i \in Nat : i = s + 1
          BY <1>2
        <5>2. QED
          BY <1>2, <2>4, <4>1, <5>1
      <4>2. CASE k \in 1..n - 1
        <5>1. PICK i \in 1..s : Owner(i) = k
          BY <1>2, <1>6, <3>1, <3>2, <4>2 DEF Covered
        <5>2. QED
          BY <1>2, <2>4, <5>1
      <4>3. QED
        BY <1>2, <4>1, <4>2
    <3>3. ASSUME NEW k \in 1..n PROVE frames'[k].phase # "post"
      <4>1. CASE k = n
        BY <1>3, <1>6, <4>1
      <4>2. CASE k \in 1..n - 1
        BY <1>1, <1>2, <1>6, <4>2 DEF FramesOK
      <4>3. QED
        BY <1>2, <4>1, <4>2
    <3>4. QED
      BY <1>6, <2>3, <3>2, <3>3 DEF Covered
  <2>8. QED
    BY <1>6, <2>6, <2>7
<1>11. QED
  BY <1>9, <1>10

\* The scope is taken off by hand before the post-join filter.
LEMMA PostStep ==
    ASSUME IInv, PostJoinFilter(FALSE)
    PROVE  FramesOK' /\ Owned' /\ (~NestedPostFilters => Covered')
<1> DEFINE n == Len(frames)
           s == Len(lateral_scopes)
           f == [Top EXCEPT !.phase = "post", !.pushed_scope = FALSE]
<1>1. TypeOK /\ FramesOK /\ Owned /\ (~NestedPostFilters => Covered)
  BY DEF IInv
<1>2. /\ n \in Nat \ {0} /\ Top = frames[n] /\ s \in Nat /\ frames # <<>>
      /\ Top.phase = "expression"
  BY <1>1, EmptySeq DEF TypeOK, Top, Depth, PostJoinFilter, Running
<1>3. Top \in Frames /\ FrameOK(Top)
  BY <1>1, <1>2, ElementOfSeq DEF TypeOK, FramesOK
<1>4. /\ f \in Frames /\ f.phase = "post" /\ ~f.pushed_scope
      /\ f.anchor = Top.anchor /\ f.columns = Top.columns
      /\ f.should_pop = Top.should_pop
  BY <1>3 DEF Frames, Phases
<1>5. FrameOK(f) /\ (Top.should_pop <=> Top.pushed_scope)
  BY <1>2, <1>3, <1>4 DEF FrameOK, ScopePhases
<1>6. SetTop(f)
  BY DEF PostJoinFilter
<1> HIDE DEF f
<1>7. /\ FramesOK' /\ Len(frames') = n /\ frames'[n] = f
      /\ \A k \in 1..n - 1 : frames'[k] = frames[k]
  BY <1>1, <1>2, <1>4, <1>5, <1>6, TopReplaced
<1>8. ASSUME NEW k \in 1..n
      PROVE  /\ frames'[k].anchor = frames[k].anchor
             /\ frames'[k].columns = frames[k].columns
             /\ frames'[k].should_pop = frames[k].should_pop
  <2>1. k = n \/ k \in 1..n - 1
    BY <1>2
  <2>2. QED
    BY <1>2, <1>4, <1>7, <2>1
<1>9. /\ Len(lateral_scopes') =
             IF Top.pushed_scope /\ s # 0 THEN s - 1 ELSE s
      /\ \A i \in 1..Len(lateral_scopes') :
             lateral_scopes'[i] = lateral_scopes[i]
  <2>1. s = 0 <=> lateral_scopes = <<>>
    BY <1>1, EmptySeq DEF TypeOK
  <2>2. QED
    BY <1>1, <2>1, ScopesPop DEF PostJoinFilter
<1>10. Owned'
  <2>1. ASSUME NEW i \in 1..Len(lateral_scopes')
        PROVE  Owner(i) \in 1..n /\ frames[Owner(i)].should_pop
    <3>1. i \in 1..s
      BY <1>2, <1>9
    <3>2. QED
      BY <1>1, <3>1, OwnerProperties
  <2>2. Len(lateral_scopes') \in Nat /\ Len(lateral_scopes') <= s
    BY <1>2, <1>9
  <2>3. QED
    BY <1>1, <1>7, <1>8, <1>9, <2>1, <2>2, OwnedPrefix
<1>11. ASSUME ~NestedPostFilters PROVE Covered'
  <2>1. Covered
    BY <1>1, <1>11
  <2>2. Top.should_pop => s = 1
    BY <1>11 DEF PostJoinFilter
  <2>3. ASSUME Top.should_pop PROVE lateral_scopes' = <<>>
    <3>1. Len(lateral_scopes') = 0
      BY <1>5, <1>9, <2>2, <2>3
    <3>2. lateral_scopes' \in Seq(Scopes)
      BY <1>1, ScopesPop DEF PostJoinFilter, TypeOK
    <3>3. QED
      BY <3>1, <3>2, EmptySeq
  <2>4. ASSUME NEW k \in 1..n - 1, frames[k].pushed_scope
        PROVE  \E i \in 1..Len(lateral_scopes') : Owner(i)' = k
    <3>1. PICK i \in 1..s : Owner(i) = k
      BY <1>2, <2>1, <2>4 DEF Covered
    <3>2. ~Top.should_pop
      <4>1. SUFFICES ASSUME Top.should_pop PROVE FALSE
        OBVIOUS
      <4>2. frames[n].pushed_scope /\ n \in 1..n
        BY <1>2, <1>5, <4>1
      <4>3. PICK j \in 1..s : Owner(j) = n
        BY <2>1, <4>2 DEF Covered
      <4>4. s = 1
        BY <2>2, <4>1
      <4>5. i = j
        BY <3>1, <4>3, <4>4
      <4>6. QED
        BY <1>2, <2>4, <3>1, <4>3, <4>5
    <3>3. i \in 1..Len(lateral_scopes') /\ Owner(i)' = Owner(i)
      BY <1>5, <1>9, <3>1, <3>2 DEF Owner
    <3>4. QED
      BY <3>1, <3>3
  <2>5. \A k \in 1..n : k = n \/ k \in 1..n - 1
    BY <1>2
  <2>6. \A k \in 1..n - 1 : frames[k].phase # "post"
    BY <1>1, <1>2 DEF FramesOK
  <2>7. QED
    BY <1>4, <1>7, <2>3, <2>4, <2>5, <2>6 DEF Covered
<1>12. QED
  BY <1>7, <1>10, <1>11

\* The invariant holds initially and every step keeps it.
LEMMA Invariant == Spec => []IInv
<1>1. Init => IInv
  <2> SUFFICES ASSUME Init PROVE IInv
    OBVIOUS
  <2>1. <<>> \in Seq(Frames) /\ <<>> \in Seq(Scopes)
    BY EmptySeq
  <2>2. Len(frames) = 0 /\ Len(lateral_scopes) = 0
    BY EmptySeq DEF Init
  <2>3. TypeOK
    BY <2>1 DEF Init, TypeOK
  <2>4. FramesOK /\ Owned /\ Covered
    BY <2>2 DEF FramesOK, Owned, Covered
  <2>5. QED
    BY <2>3, <2>4 DEF IInv
<1>2. IInv /\ [Next]_vars => IInv'
  <2> SUFFICES ASSUME IInv, [Next]_vars PROVE IInv'
    OBVIOUS
  <2> DEFINE Goal == FramesOK' /\ Owned' /\ (~NestedPostFilters => Covered')
  <2>0. TypeOK'
    BY TypeStep DEF IInv
  <2>1. ASSUME UNCHANGED <<frames, lateral_scopes>> PROVE Goal
    BY <2>1 DEF IInv, FramesOK, Owned, Covered, Owner
  <2>2. CASE UNCHANGED vars \/ Throw \/ PostJoinFilter(TRUE)
    BY <2>0, <2>1, <2>2 DEF vars, Throw, PostJoinFilter, IInv
  <2>3. CASE TransformLateralJoinOp
    BY <2>0, <2>3, EnterStep DEF IInv
  <2>4. ASSUME NEW anchor \in Anchors \cup {NoAnchor}, NEW m \in Widths,
               NEW filtered \in BOOLEAN, LeftTransformed(anchor, m, filtered)
        PROVE  IInv'
    BY <2>0, <2>4, LeftStep DEF IInv
  <2>5. CASE FilterTransformed
    <3>1. /\ frames # <<>> /\ Top.phase = "filter"
          /\ SetTop([Top EXCEPT !.phase = "right"])
          /\ UNCHANGED lateral_scopes
      BY <2>5 DEF FilterTransformed, Running
    <3>2. Goal
      BY <3>1, PhaseStep DEF ScopePhases
    <3>3. QED
      BY <2>0, <3>2 DEF IInv
  <2>6. CASE RightTransformed
    <3>1. /\ frames # <<>> /\ Top.phase = "right"
          /\ SetTop([Top EXCEPT !.phase = "expression"])
          /\ UNCHANGED lateral_scopes
      BY <2>6 DEF RightTransformed, Running
    <3>2. Goal
      BY <3>1, PhaseStep DEF ScopePhases
    <3>3. QED
      BY <2>0, <3>2 DEF IInv
  <2>7. CASE PostJoinFilter(FALSE)
    BY <2>0, <2>7, PostStep DEF IInv
  <2>8. CASE ReturnJoin \/ ReturnFilter \/ Unwind
    <3>1. frames # <<>> /\ Leave
      BY <2>8 DEF ReturnJoin, ReturnFilter, Unwind, Running
    <3>2. QED
      BY <2>0, <3>1, LeaveStep DEF IInv
  <2>9. QED
    BY <2>2, <2>3, <2>4, <2>5, <2>6, <2>7, <2>8 DEF Next
<1>3. QED
  BY <1>1, <1>2, PTL DEF Spec

\* When no lateral join is running, no scope is left, with or without the
\* double pop and whatever was thrown: a scope always has a running owner.
THEOREM NoScopeIsLeft == Spec => []NoScopeLeft
<1>1. IInv => NoScopeLeft
  <2> SUFFICES ASSUME IInv, frames = <<>> PROVE lateral_scopes = <<>>
    BY DEF NoScopeLeft
  <2>1. Len(frames) = 0 /\ lateral_scopes \in Seq(Scopes)
    BY EmptySeq DEF IInv, TypeOK
  <2>2. ~ \E i \in 1..Len(lateral_scopes) : TRUE
    BY <2>1 DEF IInv, Owned
  <2>3. QED
    BY <2>1, <2>2, EmptySeq
<1>2. QED
  BY <1>1, Invariant, PTL

-----------------------------------------------------------------------------
(* Outer references.                                                       *)

\* A nonempty set of positions has a last one.
LEMMA LastPosition ==
    ASSUME NEW n \in Nat, NEW M \in SUBSET (1..n), M # {}
    PROVE  \E m \in M : \A i \in M : i <= m
<1> DEFINE T == {n - i : i \in M}
           R == OpToRel(<, Nat)
<1>0. \A i \in M : i \in 1..n
  OBVIOUS
<1>1. T \subseteq Nat /\ T # {}
  <2>1. \A i \in M : n - i \in Nat
    BY <1>0
  <2>2. QED
    BY <2>1
<1>2. PICK x \in T : \A y \in T : <<y, x>> \notin R
  <2> HIDE DEF T
  <2> QED
    BY <1>1, NatLessThanWellFounded, WFMin
<1>3. \A y \in T : ~(y < x)
  BY <1>1, <1>2 DEF OpToRel
<1>4. PICK m \in M : x = n - m
  OBVIOUS
<1>5. ASSUME NEW i \in M PROVE i <= m
  <2>1. ~(n - i < n - m)
    BY <1>3, <1>4
  <2>2. QED
    BY <1>0, <2>1
<1>6. QED
  BY <1>5

\* Owners are enclosing joins with an anchor, and scopes hold their columns.
LEMMA OwnersEnclose ==
    ASSUME IInv, Covered, NEW i \in 1..Len(lateral_scopes)
    PROVE  /\ Owner(i) \in Enclosing
           /\ frames[Owner(i)].anchor \in Anchors
           /\ lateral_scopes[i].rel_anchor = frames[Owner(i)].anchor
           /\ \A field \in Fields : NamedBy(lateral_scopes[i], field)
                                        = Column(Owner(i), field)
<1> DEFINE k == Owner(i)
<1>1. /\ k \in 1..Len(frames) /\ frames[k].should_pop
      /\ lateral_scopes[i] = ScopeOf(k, frames[k])
  BY OwnerProperties DEF IInv
<1>2. /\ frames \in Seq(Frames) /\ frames[k] \in Frames
      /\ DOMAIN frames = 1..Len(frames) /\ k \in Nat
  BY <1>1, EmptySeq, ElementOfSeq, LenProperties DEF IInv, TypeOK
<1>3. FrameOK(frames[k])
  BY <1>1 DEF IInv, FramesOK
<1>4. frames[k].anchor \in Anchors /\ frames[k].columns \in Nat \ {0}
  BY <1>1, <1>2, <1>3 DEF FrameOK, Frames
<1>5. Len(lateral_scopes) # 0
  BY EmptySeq DEF IInv, TypeOK
<1>6. frames[k].phase \in ScopePhases
  <2>1. frames[k].phase # "left"
    BY <1>1, <1>3 DEF FrameOK
  <2>2. frames[k].phase # "post"
    BY <1>1, <1>5, EmptySeq DEF Covered
  <2>3. QED
    BY <1>2, <2>1, <2>2 DEF Frames, Phases, ScopePhases
<1>7. k \in Enclosing
  BY <1>1, <1>2, <1>6 DEF Enclosing, ScopePhases
<1>8. /\ lateral_scopes[i].rel_anchor = frames[k].anchor
      /\ lateral_scopes[i].left_column_names
             = ColumnNames(k, frames[k].columns)
  BY <1>1 DEF ScopeOf
<1>9. ASSUME NEW field \in Fields
      PROVE  NamedBy(lateral_scopes[i], field) = Column(k, field)
  <2>1. field \in Int
    BY LateralAssumption
  <2> DEFINE m == frames[k].columns
  <2>2. /\ Len(ColumnNames(k, m)) = m
        /\ \A c \in 1..m : ColumnNames(k, m)[c] = <<k, c>>
    BY <1>2, <1>4, ScopeProperties
  <2>3. CASE field >= 0 /\ field < m
    <3>1. field + 1 \in 1..m
      BY <1>4, <2>1, <2>3
    <3>2. ColumnNames(k, m)[field + 1] = <<k, field + 1>>
      BY <2>2, <3>1
    <3>3. QED
      BY <1>8, <2>2, <2>3, <3>2 DEF NamedBy, Column
  <2>4. CASE ~(field >= 0 /\ field < m)
    BY <1>8, <2>2, <2>4 DEF NamedBy, Column
  <2>5. QED
    BY <2>3, <2>4
<1>10. QED
  BY <1>4, <1>7, <1>8, <1>9

\* Every enclosing join that declares an anchor owns a scope.
LEMMA EnclosingOwn ==
    ASSUME IInv, Covered, NEW k \in Enclosing, frames[k].anchor # NoAnchor
    PROVE  \E i \in 1..Len(lateral_scopes) : Owner(i) = k
<1>1. k \in 1..Len(frames) /\ frames[k].phase \in ScopePhases
  BY LenProperties DEF Enclosing, ScopePhases, IInv, TypeOK
<1>2. FrameOK(frames[k])
  BY <1>1 DEF IInv, FramesOK
<1>3. frames[k].pushed_scope
  BY <1>1, <1>2 DEF FrameOK
<1>4. QED
  BY <1>1, <1>3 DEF Covered

\* rel_reference: the innermost scope with the anchor is that of the
\* innermost enclosing join with it.
LEMMA AnchorResolves ==
    ASSUME IInv, Covered, NEW ref \in References, ref.by = "rel_reference"
    PROVE  ResolvesAsMeant(ref)
<1> DEFINE s == Len(lateral_scopes)
           anchor == ref.target
           matches == {i \in DOMAIN lateral_scopes :
                           lateral_scopes[i].rel_anchor = anchor}
<1>1. ref.target \in Anchors /\ ref.field \in Fields
  BY DEF References
<1>2. /\ s \in Nat /\ DOMAIN lateral_scopes = 1..s
      /\ matches \in SUBSET (1..s)
  BY EmptySeq, LenProperties DEF IInv, TypeOK
<1>3. ResolveOuterReference(ref) = ResolveAnchor(anchor, ref.field)
  BY DEF ResolveOuterReference
<1>4. ASSUME NEW k \in Enclosing, frames[k].anchor = anchor
      PROVE  \E i \in matches : Owner(i) = k
  <2>1. PICK i \in 1..s : Owner(i) = k
    BY <1>1, <1>4, EnclosingOwn, LateralAssumption
  <2>2. QED
    BY <1>2, <1>4, <2>1, OwnersEnclose
<1>5. CASE matches = {}
  <2>1. Meant(ref) = {}
    BY <1>4, <1>5 DEF Meant
  <2>2. ResolveAnchor(anchor, ref.field) = Error
    BY <1>5 DEF ResolveAnchor
  <2>3. QED
    BY <1>3, <2>1, <2>2 DEF ResolvesAsMeant
<1>6. CASE matches # {}
  <2> DEFINE m == CHOOSE i \in matches : \A j \in matches : j <= i
  <2>1. m \in matches /\ \A j \in matches : j <= m
    <3>1. \E i \in matches : \A j \in matches : j <= i
      BY <1>2, <1>6, LastPosition
    <3>2. QED
      BY <3>1
  <2>2. ResolveAnchor(anchor, ref.field)
            = NamedBy(lateral_scopes[m], ref.field)
    BY <1>6 DEF ResolveAnchor
  <2> HIDE DEF m
  <2>3. m \in 1..s /\ lateral_scopes[m].rel_anchor = anchor
    BY <1>2, <2>1
  <2>4. /\ Owner(m) \in Enclosing /\ frames[Owner(m)].anchor = anchor
        /\ NamedBy(lateral_scopes[m], ref.field)
               = Column(Owner(m), ref.field)
    BY <1>1, <2>3, OwnersEnclose
  <2>5. ASSUME NEW k \in Enclosing, frames[k].anchor = anchor
        PROVE  k <= Owner(m)
    <3>1. PICK i \in matches : Owner(i) = k
      BY <1>4, <2>5
    <3>2. i \in 1..s /\ i <= m
      BY <1>2, <2>1, <3>1
    <3>3. i < m => Owner(i) < Owner(m)
      BY <2>3, <3>2 DEF IInv, Owned
    <3>4. Owner(i) \in Int /\ Owner(m) \in Int
      BY <2>3, <3>2, OwnerProperties DEF IInv
    <3>5. i = m \/ i < m
      BY <2>3, <3>2
    <3>6. QED
      BY <3>1, <3>3, <3>4, <3>5
  <2>6. Owner(m) \in Int
    BY <2>3, OwnerProperties DEF IInv
  <2>7. Meant(ref) = {Owner(m)}
    <3>1. Owner(m) \in Meant(ref)
      BY <2>4, <2>5 DEF Meant
    <3>2. ASSUME NEW k \in Meant(ref) PROVE k = Owner(m)
      <4>1. /\ k \in Enclosing /\ frames[k].anchor = anchor
            /\ Owner(m) <= k
        BY <2>4, <3>2 DEF Meant
      <4>2. k \in Int
        BY <4>1, LenProperties DEF Enclosing, IInv, TypeOK
      <4>3. QED
        BY <2>5, <2>6, <4>1, <4>2
    <3>3. QED
      BY <3>1, <3>2
  <2>8. QED
    BY <1>3, <2>2, <2>4, <2>7 DEF ResolvesAsMeant
<1>7. QED
  BY <1>5, <1>6

\* The joins at or inside the owner of the i-th scope are as many as the
\* scopes from the i-th on.
LEMMA JoinsInside ==
    ASSUME IInv, Covered, Anchored, NEW i \in 1..Len(lateral_scopes)
    PROVE  Cardinality({j \in Enclosing : j >= Owner(i)})
               = Len(lateral_scopes) - i + 1
<1> DEFINE s == Len(lateral_scopes)
           S == i..s
           T == {j \in Enclosing : j >= Owner(i)}
           f == [x \in S |-> Owner(x)]
<1>1. s \in Nat /\ i \in Nat /\ \A x \in S : x \in 1..s
  BY EmptySeq DEF IInv, TypeOK
<1>2. ASSUME NEW x \in 1..s
      PROVE  Owner(x) \in Enclosing /\ Owner(x) \in Int
  BY OwnersEnclose, OwnerProperties DEF IInv
<1>3. \A x, y \in 1..s : x < y => Owner(x) < Owner(y)
  BY DEF IInv, Owned
<1>4. \A x \in S : f[x] \in T
  <2>1. ASSUME NEW x \in S PROVE Owner(x) \in T
    <3>1. x \in 1..s /\ i \in 1..s /\ (x = i \/ i < x)
      BY <1>1
    <3>2. Owner(x) >= Owner(i)
      BY <1>2, <1>3, <3>1
    <3>3. QED
      BY <1>2, <3>1, <3>2
  <2>2. QED
    BY <2>1
<1>5. \A x, y \in S : f[x] = f[y] => x = y
  <2>1. ASSUME NEW x \in S, NEW y \in S, Owner(x) = Owner(y)
        PROVE  x = y
    <3>1. x \in 1..s /\ y \in 1..s
      BY <1>1
    <3>2. ~(x < y) /\ ~(y < x)
      BY <1>2, <1>3, <2>1, <3>1
    <3>3. QED
      BY <1>1, <3>1, <3>2
  <2>2. QED
    BY <2>1
<1>6. \A t \in T : \E x \in S : f[x] = t
  <2>1. ASSUME NEW t \in T PROVE \E x \in S : Owner(x) = t
    <3>1. PICK x \in 1..s : Owner(x) = t
      BY EnclosingOwn DEF Anchored
    <3>2. ~(x < i)
      BY <1>2, <1>3, <3>1
    <3>3. x \in S
      BY <1>1, <3>1, <3>2
    <3>4. QED
      BY <3>1, <3>3
  <2>2. QED
    BY <2>1
<1>7. ExistsBijection(S, T)
  <2>1. f \in [S -> T] /\ DOMAIN f = S
    BY <1>4
  <2> HIDE DEF f
  <2>2. f \in Bijection(S, T)
    BY <1>5, <1>6, <2>1
       DEF Bijection, Injection, Surjection, IsInjective
  <2>3. QED
    BY <2>2 DEF ExistsBijection
<1>8. IsFiniteSet(S) /\ Cardinality(S) = s - i + 1
  BY <1>1, FS_Interval
<1> HIDE DEF S, T, f
<1>9. Cardinality(T) = s - i + 1
  BY <1>7, <1>8, FS_Bijection
<1>10. QED
  BY <1>9 DEF T

\* steps_out: counting scopes from the last is counting joins from inside.
LEMMA StepsResolve ==
    ASSUME IInv, Covered, Anchored, NEW ref \in References,
           ref.by = "steps_out"
    PROVE  ResolvesAsMeant(ref)
<1> DEFINE s == Len(lateral_scopes)
           steps == ref.target
<1>1. steps \in Nat /\ ref.field \in Fields /\ s \in Nat
  <2>1. s \in Nat
    BY EmptySeq DEF IInv, TypeOK
  <2>2. steps \in StepsOut /\ ref.field \in Fields
    BY DEF References
  <2>3. QED
    BY <2>1, <2>2, LateralAssumption
<1>2. ResolveOuterReference(ref) = ResolveSteps(steps, ref.field)
  BY DEF ResolveOuterReference
<1>3. \A k : k \in Meant(ref) <=>
          /\ k \in Enclosing
          /\ Cardinality({j \in Enclosing : j >= k}) = steps
  BY DEF Meant
<1>4. ASSUME NEW k \in Meant(ref)
      PROVE  ResolveSteps(steps, ref.field) = Column(k, ref.field)
  <2>1. PICK i \in 1..s : Owner(i) = k
    BY <1>3, EnclosingOwn DEF Anchored
  <2>2. steps = s - i + 1
    BY <1>3, <2>1, JoinsInside
  <2>3. steps \in 1..s /\ s - steps + 1 = i
    BY <1>1, <2>1, <2>2
  <2>4. NamedBy(lateral_scopes[i], ref.field) = Column(k, ref.field)
    BY <1>1, <2>1, OwnersEnclose
  <2>5. QED
    BY <2>3, <2>4 DEF ResolveSteps
<1>5. ASSUME Meant(ref) = {}
      PROVE  ResolveSteps(steps, ref.field) = Error
  <2>1. SUFFICES ASSUME steps \in 1..s PROVE FALSE
    BY DEF ResolveSteps
  <2>2. PICK i \in 1..s : i = s - steps + 1
    BY <1>1, <2>1
  <2>3. Owner(i) \in Enclosing
    BY OwnersEnclose
  <2>4. Cardinality({j \in Enclosing : j >= Owner(i)}) = steps
    BY <1>1, <2>2, JoinsInside
  <2>5. QED
    BY <1>3, <1>5, <2>3, <2>4
<1>6. QED
  BY <1>2, <1>4, <1>5 DEF ResolvesAsMeant

\* If post-join filters with a scope stand only where nothing encloses them,
\* every outer reference of every plan resolves to the column it means and
\* every other one is rejected, however deep the joins are nested.
THEOREM ReferencesAreResolved ==
    ASSUME ~NestedPostFilters
    PROVE  Spec => []ReferencesResolve
<1>1. IInv => ReferencesResolve
  <2> SUFFICES ASSUME IInv, NEW ref \in References,
                      ref.by = "rel_reference" \/ Anchored
               PROVE  ResolvesAsMeant(ref)
    BY DEF ReferencesResolve
  <2>1. Covered
    BY DEF IInv
  <2>2. CASE ref.by = "rel_reference"
    BY <2>1, <2>2, AnchorResolves
  <2>3. CASE ref.by # "rel_reference"
    <3>1. ref.by = "steps_out"
      BY <2>3 DEF References
    <3>2. QED
      BY <2>1, <2>3, <3>1, StepsResolve
  <2>4. QED
    BY <2>2, <2>3
<1>2. QED
  BY <1>1, Invariant, PTL
=============================================================================
