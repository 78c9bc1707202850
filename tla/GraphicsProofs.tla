--------------------------- MODULE GraphicsProofs ---------------------------
(***************************************************************************)
(* Proofs about Renderer and Graphics.  Of the renderer, for any capacity  *)
(* of at least six vertices and any primitives: the buffers are never      *)
(* overrun, draws are of whole triangles, and the staging implements       *)
(* PrimitiveStream.  Of both together, for any words sent to the ports:    *)
(* the screen shows the triangles of the packets.  And of Frontend, which  *)
(* makes and destroys the renderer: what main has acquired is released in  *)
(* order, OpenGL is used in the right context, and a quit is not lost.     *)
(***************************************************************************)
EXTENDS Graphics, Frontend, Numbers, SequenceTheorems, TLAPS

IInv == TypeOK /\ NeverOverflows /\ WholeTriangles

Frame == drawn \o Staged

(* What is staged is a sequence of vertices.                               *)
StagedOK ==
    /\ Staged \in Seq(Vertices) /\ Len(Staged) = vertex_count
    /\ Frame \in Seq(Vertices)
    /\ \A i \in 1 .. vertex_count :
         Staged[i] = [position |-> positions[i - 1], color |-> colors[i - 1]]

LEMMA StagedType == TypeOK => StagedOK
  <1> SUFFICES ASSUME TypeOK PROVE StagedOK
    OBVIOUS
  <1>1. vertex_count \in Nat /\ vertex_count <= Capacity
    BY RendererAssumption DEF TypeOK
  <1>2. ASSUME NEW i \in 1 .. vertex_count
        PROVE  [position |-> positions[i - 1], color |-> colors[i - 1]] \in Vertices
    <2>1. i - 1 \in Indices
      BY <1>1, RendererAssumption DEF Indices
    <2>2. positions[i - 1] \in Positions /\ colors[i - 1] \in Colors
      BY <2>1 DEF TypeOK
    <2> QED BY <2>2 DEF Vertices
  <1>3. Staged \in [1 .. vertex_count -> Vertices]
    BY <1>2 DEF Staged
  <1>4. Staged \in Seq(Vertices) /\ Len(Staged) = vertex_count
    BY <1>1, <1>3, LenProperties
  <1>5. drawn \in Seq(Vertices)
    BY DEF TypeOK
  <1>6. Frame \in Seq(Vertices)
    BY <1>4, <1>5, ConcatProperties DEF Frame
  <1>7. \A i \in 1 .. vertex_count :
           Staged[i] = [position |-> positions[i - 1], color |-> colors[i - 1]]
    BY DEF Staged
  <1> QED BY <1>4, <1>6, <1>7 DEF StagedOK

(* Writing values of the right kind into an array keeps its type.          *)
StagedInto(staged, S, array, count, n, values) ==
    /\ staged \in [Indices -> S]
    /\ \A i \in Indices :
         staged[i] = IF i \in count .. count + n - 1 THEN values[i - count + 1] ELSE array[i]

LEMMA StageType ==
    ASSUME NEW S, NEW array \in [Indices -> S], NEW count \in Nat, NEW n \in Nat,
           NEW values \in [1 .. n -> S]
    PROVE  StagedInto(Stage(array, count, values), S, array, count, n, values)
  <1>1. values \in Seq(S) /\ Len(values) = n
    BY LenProperties
  <1>2. ASSUME NEW i \in Indices, i \in count .. count + n - 1
        PROVE  values[i - count + 1] \in S
    <2>1. i - count + 1 \in 1 .. n
      BY <1>2
    <2> QED BY <2>1
  <1> QED BY <1>1, <1>2 DEF Stage, StagedInto

LEMMA Fields ==
    ASSUME NEW v \in Seq(Vertices)
    PROVE  /\ [i \in DOMAIN v |-> v[i].position] \in [1 .. Len(v) -> Positions]
           /\ [i \in DOMAIN v |-> v[i].color] \in [1 .. Len(v) -> Colors]
  <1>1. DOMAIN v = 1 .. Len(v)
    BY LenProperties
  <1>2. ASSUME NEW i \in 1 .. Len(v)
        PROVE  v[i].position \in Positions /\ v[i].color \in Colors
    <2>1. v[i] \in Vertices
      BY ElementOfSeq
    <2> QED BY <2>1 DEF Vertices
  <1> QED BY <1>1, <1>2

-----------------------------------------------------------------------------
(* The vertices a primitive is pushed as.                                  *)
LEMMA PrimitiveVertices ==
    /\ \A t \in Triangles : /\ <<t[1], t[2], t[3]>> \in Seq(Vertices)
                            /\ Len(<<t[1], t[2], t[3]>>) = 3
    /\ \A q \in Quads : /\ <<q[1], q[2], q[3], q[2], q[3], q[4]>> \in Seq(Vertices)
                        /\ Len(<<q[1], q[2], q[3], q[2], q[3], q[4]>>) = 6
  <1>1. ASSUME NEW t \in Triangles
        PROVE  t[1] \in Vertices /\ t[2] \in Vertices /\ t[3] \in Vertices
    BY RendererAssumption
  <1>2. ASSUME NEW q \in Quads
        PROVE  q[1] \in Vertices /\ q[2] \in Vertices /\ q[3] \in Vertices
               /\ q[4] \in Vertices
    BY RendererAssumption
  <1> QED BY <1>1, <1>2

(* A push of n vertices either fails without changing anything or adds     *)
(* them behind those of the frame.                                         *)
LEMMA PushStep ==
    ASSUME IInv, NEW v \in Seq(Vertices), Len(v) \in {3, 6}, PushVertices(v)
    PROVE  /\ IInv'
           /\ shown' = shown
           /\ \/ failure' = "none" /\ Frame' = Frame \o v
              \/ failure' # "none" /\ Frame' = Frame
  <1> DEFINE n == Len(v)
             full == vertex_count > Capacity - n
             base == IF full THEN 0 ELSE vertex_count
             ps == [i \in DOMAIN v |-> v[i].position]
             cs == [i \in DOMAIN v |-> v[i].color]
  <1>1. /\ vertex_count \in Nat /\ vertex_count <= Capacity
        /\ Capacity \in Nat /\ Capacity >= 6
    BY RendererAssumption DEF IInv, TypeOK
  <1>2. PushWhen(full, v)
    BY DEF PushVertices
  <1>3. CASE full /\ DrawFails
    BY <1>3 DEF DrawFails, IInv, TypeOK, NeverOverflows, WholeTriangles, Frame, Staged
  <1>4. CASE ~(full /\ DrawFails)
    <2>1. /\ drawn' = IF full THEN drawn \o Staged ELSE drawn
          /\ positions' = Stage(positions, base, ps)
          /\ colors' = Stage(colors, base, cs)
          /\ shown' = shown
          /\ IF base + n > Capacity
             THEN failure' = "overflow" /\ vertex_count' = base
             ELSE failure' = "none" /\ vertex_count' = base + n
      BY <1>2, <1>4 DEF PushWhen
    <2>2. base \in Nat /\ base + n <= Capacity /\ base % 3 = 0
      <3>1. n \in {3, 6}
        OBVIOUS
      <3>2. vertex_count % 3 = 0
        BY DEF IInv, WholeTriangles
      <3> HIDE DEF n
      <3>3. CASE full
        BY <1>1, <3>1, <3>3
      <3>4. CASE ~full
        BY <1>1, <3>1, <3>2, <3>4
      <3> QED BY <3>3, <3>4
    <2>3. failure' = "none" /\ vertex_count' = base + n
      <3>1. ~(base + n > Capacity)
        <4> HIDE DEF base
        <4>1. n \in Nat
          OBVIOUS
        <4> QED BY <1>1, <2>2, <4>1
      <3> QED BY <2>1, <3>1
    <2>4. /\ ps \in [1 .. n -> Positions]
          /\ cs \in [1 .. n -> Colors]
      BY Fields
    <2>5. positions \in [Indices -> Positions] /\ colors \in [Indices -> Colors]
      BY DEF IInv, TypeOK
    <2> HIDE DEF n, full, base, ps, cs
    <2>6. n \in {3, 6} /\ n \in Nat
      BY DEF n
    <2>7. /\ positions' \in [Indices -> Positions]
          /\ \A i \in Indices : positions'[i] =
               IF i \in base .. base + n - 1 THEN ps[i - base + 1] ELSE positions[i]
      <3>1. base \in Nat
        BY <2>2
      <3>2. n \in Nat
        BY <2>6
      <3>3. StagedInto(Stage(positions, base, ps), Positions, positions, base, n, ps)
        BY <2>4, <2>5, <3>1, <3>2, StageType
      <3> QED BY <2>1, <3>3 DEF StagedInto
    <2>8. /\ colors' \in [Indices -> Colors]
          /\ \A i \in Indices : colors'[i] =
               IF i \in base .. base + n - 1 THEN cs[i - base + 1] ELSE colors[i]
      <3>1. base \in Nat
        BY <2>2
      <3>2. n \in Nat
        BY <2>6
      <3>3. StagedInto(Stage(colors, base, cs), Colors, colors, base, n, cs)
        BY <2>4, <2>5, <3>1, <3>2, StageType
      <3> QED BY <2>1, <3>3 DEF StagedInto
    <2>9. drawn' \in Seq(Vertices)
      <3>1. drawn \in Seq(Vertices) /\ drawn \o Staged \in Seq(Vertices)
        BY StagedType DEF StagedOK, IInv, TypeOK, Frame
      <3> QED BY <2>1, <3>1
    <2>10. TypeOK'
      BY <1>1, <2>1, <2>2, <2>3, <2>6, <2>7, <2>8, <2>9 DEF TypeOK, IInv
    <2>11. WholeTriangles'
      BY <2>2, <2>3, <2>6 DEF WholeTriangles
    <2>12. IInv'
      BY <2>3, <2>10, <2>11 DEF IInv, NeverOverflows
    <2>13. /\ Staged \in Seq(Vertices) /\ Len(Staged) = vertex_count
           /\ \A i \in 1 .. vertex_count :
                Staged[i] = [position |-> positions[i - 1], color |-> colors[i - 1]]
      BY StagedType DEF StagedOK, IInv
    <2>14. /\ Staged' \in Seq(Vertices) /\ Len(Staged') = base + n
           /\ \A i \in 1 .. base + n :
                Staged'[i] = [position |-> positions'[i - 1], color |-> colors'[i - 1]]
      <3>1. StagedOK'
        BY <2>10, StagedType, PTL
      <3> QED BY <2>3, <3>1 DEF StagedOK
    <2>15. ASSUME NEW k \in 1 .. n PROVE Staged'[base + k] = v[k]
      <3> DEFINE i == base + k - 1
                 j == base + k
      <3>1. /\ i \in Indices /\ i \in base .. base + n - 1 /\ i - base + 1 = k
            /\ j \in 1 .. base + n /\ j - 1 = i
        BY <1>1, <2>2, <2>6 DEF Indices
      <3> HIDE DEF i, j
      <3>2. positions'[i] = ps[k] /\ colors'[i] = cs[k]
        BY <2>7, <2>8, <3>1
      <3>3. v[k] \in Vertices /\ ps[k] = v[k].position /\ cs[k] = v[k].color
        BY DEF ps, cs, n
      <3>4. v[k] = [position |-> v[k].position, color |-> v[k].color]
        BY <3>3 DEF Vertices
      <3>5. Staged'[j] = [position |-> positions'[i], color |-> colors'[i]]
        BY <2>14, <3>1
      <3>6. Staged'[j] = v[k]
        BY <3>2, <3>3, <3>4, <3>5
      <3> QED BY <3>6 DEF j
    <2>16. ASSUME NEW k \in 1 .. base, ~full PROVE Staged'[k] = Staged[k]
      <3>1. base = vertex_count
        BY <2>16 DEF base
      <3>2. k \in 1 .. base + n /\ k - 1 \in Indices /\ ~(k - 1 \in base .. base + n - 1)
        BY <1>1, <2>2, <2>6 DEF Indices
      <3>3. positions'[k - 1] = positions[k - 1] /\ colors'[k - 1] = colors[k - 1]
        BY <2>7, <2>8, <3>2
      <3> QED BY <2>13, <2>14, <3>1, <3>2, <3>3
    <2>17. v \in Seq(Vertices) /\ Len(v) = n
      BY DEF n
    <2>18. CASE full
      <3>1. base = 0
        BY <2>18 DEF base
      <3>2. \A k \in 1 .. n : Staged'[k] = v[k]
        BY <2>6, <2>15, <3>1
      <3>3. Len(Staged') = n
        BY <2>6, <2>14, <3>1
      <3>4. Staged' = v
        BY <2>14, <2>17, <3>2, <3>3, SeqEqual
      <3> QED BY <2>1, <2>3, <2>12, <2>18, <3>4 DEF Frame
    <2>19. CASE ~full
      <3>1. base = vertex_count
        BY <2>19 DEF base
      <3>2. /\ Staged \o v \in Seq(Vertices)
            /\ Len(Staged \o v) = base + n
            /\ \A i \in 1 .. base + n :
                 (Staged \o v)[i] = IF i <= base THEN Staged[i] ELSE v[i - base]
        BY <2>13, <2>17, <3>1, ConcatProperties
      <3>3. ASSUME NEW i \in 1 .. base + n PROVE Staged'[i] = (Staged \o v)[i]
        <4>1. CASE i <= base
          <5>1. i \in 1 .. base
            BY <2>2, <4>1
          <5> QED BY <2>16, <2>19, <3>2, <4>1, <5>1
        <4>2. CASE ~(i <= base)
          <5>1. i - base \in 1 .. n /\ base + (i - base) = i
            BY <2>2, <2>6, <4>2
          <5> QED BY <2>15, <3>2, <4>2, <5>1
        <4> QED BY <4>1, <4>2
      <3>4. Staged' = Staged \o v
        BY <2>14, <3>2, <3>3, SeqEqual
      <3>5. drawn \in Seq(Vertices) /\ drawn' = drawn
        BY <2>1, <2>19 DEF IInv, TypeOK
      <3>6. Frame' = Frame \o v
        <4>1. Frame' = drawn \o (Staged \o v)
          BY <3>4, <3>5 DEF Frame
        <4>2. (drawn \o Staged) \o v = drawn \o (Staged \o v)
          BY <2>13, <2>17, <3>5, ConcatAssociative
        <4> QED BY <4>1, <4>2 DEF Frame
      <3> QED BY <2>1, <2>3, <2>12, <3>6
    <2> QED BY <2>18, <2>19
  <1> QED BY <1>3, <1>4

(* With a count of zero nothing is staged.                                 *)
LEMMA NothingStaged == vertex_count = 0 => Staged = <<>>
  BY DEF Staged

(* A display shows the frame and starts the next one, or fails and leaves  *)
(* the frame as it is.                                                     *)
LEMMA DisplayStep ==
    ASSUME IInv, renderer_display
    PROVE  /\ IInv'
           /\ \/ failure' = "none" /\ shown' = Frame /\ Frame' = <<>>
              \/ failure' # "none" /\ UNCHANGED <<Frame, shown>>
  <1>1. CASE DrawFails
    BY <1>1 DEF DrawFails, IInv, TypeOK, NeverOverflows, WholeTriangles, Frame, Staged
  <1>2. CASE ~DrawFails
    <2>1. /\ vertex_count' = 0
          /\ UNCHANGED <<positions, colors>>
          /\ \/ /\ failure' = "swap"
                /\ drawn' = Frame
                /\ UNCHANGED shown
             \/ /\ failure' = "none"
                /\ shown' = Frame
                /\ drawn' = <<>>
      BY <1>2 DEF renderer_display, Frame
    <2>2. Frame \in Seq(Vertices)
      BY StagedType DEF StagedOK, IInv
    <2>3. TypeOK'
      <3>1. vertex_count' \in 0 .. Capacity
        BY <2>1, RendererAssumption
      <3>2. drawn' \in Seq(Vertices) /\ shown' \in Seq(Vertices)
        BY <2>1, <2>2, EmptySeq DEF IInv, TypeOK
      <3> QED BY <2>1, <3>1, <3>2 DEF IInv, TypeOK
    <2>4. IInv'
      BY <2>1, <2>3 DEF IInv, NeverOverflows, WholeTriangles
    <2>5. Staged' = <<>>
      BY <2>1, NothingStaged DEF Staged
    <2>6. Frame' = drawn' \o <<>>
      BY <2>5 DEF Frame
    <2>7. drawn' \in Seq(Vertices)
      BY <2>3 DEF TypeOK
    <2>8. Frame' = drawn'
      BY <2>6, <2>7, ConcatEmptySeq
    <2> QED BY <2>1, <2>4, <2>8
  <1> QED BY <1>1, <1>2

-----------------------------------------------------------------------------
LEMMA InitOK == Init => IInv
  BY RendererAssumption DEF Init, IInv, TypeOK, NeverOverflows, WholeTriangles

LEMMA NextStep == IInv /\ [Next]_vars => IInv'
  <1> SUFFICES ASSUME IInv, [Next]_vars PROVE IInv'
    OBVIOUS
  <1>1. CASE UNCHANGED vars
    BY <1>1 DEF vars, IInv, TypeOK, NeverOverflows, WholeTriangles
  <1>2. ASSUME NEW t \in Triangles, renderer_push_triangle(t) PROVE IInv'
    BY <1>2, PushStep, PrimitiveVertices DEF renderer_push_triangle
  <1>3. ASSUME NEW q \in Quads, renderer_push_quad(q) PROVE IInv'
    BY <1>3, PushStep, PrimitiveVertices DEF renderer_push_quad
  <1>4. CASE renderer_display
    BY <1>4, DisplayStep
  <1> QED BY <1>1, <1>2, <1>3, <1>4 DEF Next

THEOREM Invariance == Spec => []IInv
  BY InitOK, NextStep, PTL DEF Spec

(* The arrays keep their type and the count its bound.                     *)
THEOREM TypeCorrect == Spec => []TypeOK
  <1>1. IInv => TypeOK
    BY DEF IInv
  <1> QED BY <1>1, Invariance, PTL

(* No push ever finds the buffers full.                                    *)
THEOREM NeverOverflowsTheorem == Spec => []NeverOverflows
  <1>1. IInv => NeverOverflows
    BY DEF IInv
  <1> QED BY <1>1, Invariance, PTL

(* Every draw is of whole triangles.                                       *)
THEOREM WholeTrianglesTheorem == Spec => []WholeTriangles
  <1>1. IInv => WholeTriangles
    BY DEF IInv
  <1> QED BY <1>1, Invariance, PTL

-----------------------------------------------------------------------------
LEMMA RefinementStep ==
    IInv /\ [Next]_vars => [PrimitiveStreamSpec!Next]_(PrimitiveStreamSpec!vars)
  <1> SUFFICES ASSUME IInv, [Next]_vars
               PROVE  [PrimitiveStreamSpec!Next]_(PrimitiveStreamSpec!vars)
    OBVIOUS
  <1>1. ASSUME UNCHANGED <<Frame, shown>> PROVE UNCHANGED PrimitiveStreamSpec!vars
    BY <1>1 DEF Frame, PrimitiveStreamSpec!vars
  <1>2. ASSUME NEW t \in Triangles, renderer_push_triangle(t)
        PROVE  [PrimitiveStreamSpec!Next]_(PrimitiveStreamSpec!vars)
    <2>1. shown' = shown /\ (Frame' = Frame \o <<t[1], t[2], t[3]>> \/ Frame' = Frame)
      BY <1>2, PushStep, PrimitiveVertices DEF renderer_push_triangle
    <2>2. CASE Frame' = Frame \o <<t[1], t[2], t[3]>>
      BY <2>1, <2>2 DEF Frame, PrimitiveStreamSpec!Next, PrimitiveStreamSpec!PushTriangle
    <2> QED BY <1>1, <2>1, <2>2
  <1>3. ASSUME NEW q \in Quads, renderer_push_quad(q)
        PROVE  [PrimitiveStreamSpec!Next]_(PrimitiveStreamSpec!vars)
    <2>1. shown' = shown
          /\ (Frame' = Frame \o <<q[1], q[2], q[3], q[2], q[3], q[4]>> \/ Frame' = Frame)
      BY <1>3, PushStep, PrimitiveVertices DEF renderer_push_quad
    <2>2. CASE Frame' = Frame \o <<q[1], q[2], q[3], q[2], q[3], q[4]>>
      BY <2>1, <2>2 DEF Frame, PrimitiveStreamSpec!Next, PrimitiveStreamSpec!PushQuad
    <2> QED BY <1>1, <2>1, <2>2
  <1>4. CASE renderer_display
    <2>1. \/ shown' = Frame /\ Frame' = <<>>
          \/ UNCHANGED <<Frame, shown>>
      BY <1>4, DisplayStep
    <2>2. CASE shown' = Frame /\ Frame' = <<>>
      BY <2>2 DEF Frame, PrimitiveStreamSpec!Next, PrimitiveStreamSpec!Display
    <2> QED BY <1>1, <2>1, <2>2
  <1>5. CASE UNCHANGED vars
    BY <1>1, <1>5 DEF vars, Frame, Staged
  <1> QED BY <1>2, <1>3, <1>4, <1>5 DEF Next

LEMMA StreamInit == Init => PrimitiveStreamSpec!Init
  <1> SUFFICES ASSUME Init PROVE PrimitiveStreamSpec!Init
    OBVIOUS
  <1>1. Staged = <<>> /\ drawn = <<>> /\ shown = <<>>
    BY NothingStaged DEF Init
  <1>2. <<>> \o <<>> = <<>>
    BY ConcatEmptySeq, EmptySeq
  <1>3. drawn \o Staged = <<>>
    BY <1>1, <1>2
  <1> QED BY <1>1, <1>3 DEF PrimitiveStreamSpec!Init

(* Staging implements the stream of primitives, for any capacity.          *)
THEOREM Refinement == Spec => ImplementsPrimitiveStream
  BY StreamInit, Invariance, RefinementStep, PTL
     DEF Spec, ImplementsPrimitiveStream, PrimitiveStreamSpec!Spec

-----------------------------------------------------------------------------
(* The port of Graphics is that of GpuProofs, whose lemmas hold of it.     *)
GP == INSTANCE GpuProofs WITH failure <- port_failure

LEMMA PortAssumption == GP!GpuAssumption
  BY GraphicsAssumption DEF GP!GpuAssumption, GP!Word, GP!Byte, G!Word, G!Byte

LEMMA SameInit == G!Init => GP!Init
  BY DEF G!Init, GP!Init, G!NoCall, GP!NoCall, G!NoDrawing, GP!NoDrawing,
     G!PowerOn, GP!PowerOn, G!Attributes, GP!Attributes

LEMMA SameCommands ==
    /\ GP!Commands = G!Commands /\ GP!Opcodes = G!Opcodes /\ GP!Word = G!Word
    /\ \A c : GP!Length(c) = G!Length(c)
    /\ \A w : GP!Opcode(w) = G!Opcode(w)
  BY DEF GP!Commands, G!Commands, GP!Opcodes, G!Opcodes, GP!Word, G!Word,
     GP!Byte, G!Byte, GP!Length, G!Length, GP!Opcode, G!Opcode

LEMMA SameWords ==
    \A w : /\ GP!UnknownCommand(w) = G!UnknownCommand(w)
           /\ GP!ImageWord(w) = G!ImageWord(w)
           /\ GP!gpu_gp1(w) = G!gpu_gp1(w)
           /\ GP!RemainingWith(w) = G!RemainingWith(w)
           /\ GP!CommandWith(w) = G!CommandWith(w)
           /\ GP!Started(w) = G!Started(w)
           /\ GP!Starting = G!Starting
           /\ GP!Before = G!Before
  <1>1. \A w : /\ GP!RemainingWith(w) = G!RemainingWith(w)
               /\ GP!CommandWith(w) = G!CommandWith(w)
               /\ GP!Started(w) = G!Started(w)
               /\ GP!Starting = G!Starting
               /\ GP!Before = G!Before
    BY DEF GP!RemainingWith, G!RemainingWith, GP!CommandWith, G!CommandWith,
       GP!Started, G!Started, GP!Starting, G!Starting, GP!Before, G!Before,
       GP!Length, G!Length, GP!Commands, G!Commands, GP!Opcodes, G!Opcodes,
       GP!Opcode, G!Opcode
  <1>2. \A w : GP!UnknownCommand(w) = G!UnknownCommand(w)
    BY <1>1 DEF GP!UnknownCommand, G!UnknownCommand, GP!Fail, G!Fail, GP!NoCall,
       G!NoCall, GP!gp0, G!gp0
  <1>3. \A w : GP!ImageWord(w) = G!ImageWord(w)
    BY <1>1 DEF GP!ImageWord, G!ImageWord, GP!Done, G!Done, GP!NoCall, G!NoCall
  <1>4. \A w : GP!gpu_gp1(w) = G!gpu_gp1(w)
    BY DEF GP!gpu_gp1, G!gpu_gp1, GP!NoCall, G!NoCall, GP!Opcode, G!Opcode,
       GP!gpu_gp1_reset, G!gpu_gp1_reset, GP!gpu_reset_command_buffer,
       G!gpu_reset_command_buffer, GP!NoDrawing, G!NoDrawing, GP!AfterReset,
       G!AfterReset, GP!Attributes, G!Attributes, GP!gp0, G!gp0, GP!Payload, G!Payload
  <1> QED BY <1>1, <1>2, <1>3, <1>4

LEMMA SameExecution ==
    \A c, b : GP!gpu_execute_gp0_command(c, b) = G!gpu_execute_gp0_command(c, b)
  <1>1. \A c, b : GP!Draw(c, b) = G!Draw(c, b)
    BY DEF GP!Draw, G!Draw, GP!Ask, G!Ask, GP!Push, G!Push,
       GP!gp0_triangle_shaded_opaque, G!gp0_triangle_shaded_opaque,
       GP!gpu_gp0_quad_mono_opaque, G!gpu_gp0_quad_mono_opaque,
       GP!gpu_gp0_quad_shaded_opaque, G!gpu_gp0_quad_shaded_opaque,
       GP!gpu_gp0_quad_texture_blend_opaque, G!gpu_gp0_quad_texture_blend_opaque,
       GP!position_from_gp0, G!position_from_gp0, GP!color_from_gp0,
       G!color_from_gp0, GP!i16, G!i16, GP!Red, G!Red
  <1>2. \A c, b : GP!SetAttribute(c, b) = G!SetAttribute(c, b)
    BY DEF GP!SetAttribute, G!SetAttribute, GP!Attributes, G!Attributes,
       GP!TextureDepth, G!TextureDepth, GP!Fail, G!Fail, GP!Done, G!Done,
       GP!NoCall, G!NoCall, GP!Payload, G!Payload, GP!Ask, G!Ask
  <1>3. \A c, b : GP!gpu_gp0_image_load(c, b) = G!gpu_gp0_image_load(c, b)
    BY DEF GP!gpu_gp0_image_load, G!gpu_gp0_image_load, GP!ImageWords,
       G!ImageWords, GP!Done, G!Done, GP!NoCall, G!NoCall
  <1>4. \A c : GP!Ignore(c) = G!Ignore(c)
    BY DEF GP!Ignore, G!Ignore, GP!Fail, G!Fail, GP!Done, G!Done, GP!NoCall, G!NoCall
  <1> QED BY <1>1, <1>2, <1>3, <1>4
      DEF GP!gpu_execute_gp0_command, G!gpu_execute_gp0_command

LEMMA SameCommandWord == \A w : GP!CommandWord(w) = G!CommandWord(w)
  BY SameWords, SameExecution
     DEF GP!CommandWord, G!CommandWord, GP!Fail, G!Fail, GP!Done, G!Done,
     GP!NoCall, G!NoCall

-----------------------------------------------------------------------------
(* The triangles of a sequence of packets, one packet after the other.     *)
Flattened(seqs) ==
    LET flatten[i \in 1..Len(seqs)] ==
        IF i = 1 THEN seqs[i] ELSE flatten[i-1] \o seqs[i]
    IN flatten

(* The recursion of FlattenSeq has a solution.                             *)
LEMMA FlattenUnfolds ==
    ASSUME NEW V, NEW s \in Seq(Seq(V))
    PROVE  /\ Len(s) > 0 => Flattened(s)[1] = s[1]
           /\ \A i \in 2 .. Len(s) : Flattened(s)[i] = Flattened(s)[i - 1] \o s[i]
           /\ \A i \in 1 .. Len(s) : Flattened(s)[i] \in Seq(V)
  <1> DEFINE N == Len(s)
             E(n) == IF n \in 1 .. N THEN s[n] ELSE <<>>
             F == [n \in Nat |-> [x \in Seq(V) |-> x \o E(n)]]
             S == Flattened(s)
  <1>1. N \in Nat /\ (\A n \in 1 .. N : s[n] \in Seq(V)) /\ <<>> \in Seq(V)
    BY EmptySeq
  <1>2. \A n \in Nat : E(n) \in Seq(V)
    BY <1>1
  <1> HIDE DEF E, N
  <1>3. F \in [Nat -> [Seq(V) -> Seq(V)]]
    <2>1. \A n \in Nat : \A x \in Seq(V) : x \o E(n) \in Seq(V)
      BY <1>2, ConcatProperties
    <2> QED BY <2>1
  <1> HIDE DEF F
  <1>4. PICK f \in [Nat -> Seq(V)] : Solves(f, <<>>, F)
    BY <1>1, <1>3, Recursion
  <1>5. f[0] = <<>>
    BY <1>4 DEF Solves
  <1>6. ASSUME NEW n \in 1 .. N PROVE f[n] = f[n - 1] \o s[n] /\ f[n - 1] \in Seq(V)
    <2>1. n \in Nat /\ n # 0 /\ n - 1 \in Nat
      BY <1>1
    <2>2. f[n] = F[n][f[n - 1]]
      BY <1>4, <2>1 DEF Solves
    <2>3. f[n - 1] \in Seq(V)
      BY <1>4, <2>1
    <2>4. F[n][f[n - 1]] = f[n - 1] \o E(n)
      BY <2>1, <2>3 DEF F
    <2> QED BY <2>2, <2>3, <2>4 DEF E
  <1>7. 1 \in 1 .. N => f[1] = s[1]
    <2>1. ASSUME 1 \in 1 .. N PROVE f[1] = s[1]
      <3>1. s[1] \in Seq(V) /\ 1 - 1 = 0
        BY <1>1, <2>1
      <3>2. f[1] = f[1 - 1] \o s[1]
        BY <1>6, <2>1
      <3>3. f[1] = <<>> \o s[1]
        BY <1>5, <3>1, <3>2
      <3> QED BY <3>1, <3>3, ConcatEmptySeq
    <2> QED BY <2>1
  <1> DEFINE g == [n \in 1 .. N |-> f[n]]
  <1>8. g = [n \in 1 .. N |-> IF n = 1 THEN s[n] ELSE g[n - 1] \o s[n]]
    <2>1. ASSUME NEW n \in 1 .. N
          PROVE  g[n] = IF n = 1 THEN s[n] ELSE g[n - 1] \o s[n]
      <3>1. CASE n = 1
        BY <1>7, <3>1
      <3>2. CASE n # 1
        <4>1. n - 1 \in 1 .. N
          BY <1>1, <3>2
        <4>2. g[n] = f[n] /\ g[n - 1] = f[n - 1]
          BY <4>1
        <4> QED BY <1>6, <3>2, <4>2
      <3> QED BY <3>1, <3>2
    <2> QED BY <2>1
  <1> HIDE DEF g
  <1>9. S = [n \in 1 .. N |-> IF n = 1 THEN s[n] ELSE S[n - 1] \o s[n]]
    BY <1>8 DEF Flattened, N
  <1> HIDE DEF S
  <1>10. /\ N > 0 => S[1] = s[1]
         /\ \A n \in 2 .. N : S[n] = S[n - 1] \o s[n]
    <2>1. \A n \in 1 .. N : S[n] = IF n = 1 THEN s[n] ELSE S[n - 1] \o s[n]
      BY <1>9
    <2>2. N > 0 => 1 \in 1 .. N
      BY <1>1
    <2>3. \A n \in 2 .. N : n \in 1 .. N /\ n # 1
      BY <1>1
    <2> QED BY <2>1, <2>2, <2>3
  <1>11. \A n \in 1 .. N : S[n] \in Seq(V)
    <2> DEFINE T == {n \in Nat : n \in 1 .. N => S[n] \in Seq(V)}
    <2>1. 0 \in T
      OBVIOUS
    <2>2. ASSUME NEW n \in Nat, n \in T PROVE n + 1 \in T
      <3>1. CASE n + 1 \in 1 .. N /\ n # 0
        <4>1. n \in 1 .. N /\ n + 1 \in 2 .. N /\ (n + 1) - 1 = n
          BY <1>1, <3>1
        <4>2. S[n] \in Seq(V) /\ s[n + 1] \in Seq(V)
          BY <1>1, <2>2, <3>1, <4>1
        <4>3. S[n + 1] = S[n] \o s[n + 1]
          BY <1>10, <4>1
        <4>4. S[n] \o s[n + 1] \in Seq(V)
          <5>1. \A x, y \in Seq(V) : x \o y \in Seq(V)
            BY ConcatProperties
          <5> QED BY <4>2, <5>1, Zenon
        <4>5. S[n + 1] \in Seq(V)
          BY <4>3, <4>4, Zenon
        <4> QED BY <4>5
      <3>2. CASE n + 1 \in 1 .. N /\ n = 0
        <4>1. N > 0 /\ n + 1 = 1 /\ s[1] \in Seq(V)
          BY <1>1, <3>2
        <4> QED BY <1>10, <4>1
      <3>3. CASE ~(n + 1 \in 1 .. N)
        BY <3>3
      <3> QED BY <3>1, <3>2, <3>3
    <2> HIDE DEF T
    <2>3. Nat \subseteq T
      BY <2>1, <2>2, InductionSet
    <2>4. \A n \in 1 .. N : n \in Nat
      BY <1>1
    <2> QED BY <2>3, <2>4 DEF T
  <1> QED BY <1>10, <1>11 DEF S, N

LEMMA FlattenAppend ==
    ASSUME NEW V, NEW s \in Seq(Seq(V)), NEW x \in Seq(V)
    PROVE  FlattenSeq(Append(s, x)) = FlattenSeq(s) \o x /\ FlattenSeq(s) \in Seq(V)
  <1> DEFINE t == Append(s, x)
             N == Len(s)
             S == Flattened(s)
             R == Flattened(t)
  <1>1. \A q : FlattenSeq(q) = IF Len(q) = 0 THEN q ELSE Flattened(q)[Len(q)]
    BY DEF FlattenSeq, Flattened
  <1>2. /\ t \in Seq(Seq(V)) /\ Len(t) = N + 1 /\ N \in Nat
        /\ \A k \in 1 .. N : t[k] = s[k]
        /\ t[N + 1] = x
    BY AppendProperties
  <1>3. /\ N > 0 => S[1] = s[1]
        /\ \A i \in 2 .. N : S[i] = S[i - 1] \o s[i]
        /\ \A i \in 1 .. N : S[i] \in Seq(V)
    BY FlattenUnfolds
  <1>4. N = 0 => s = <<>>
    BY EmptySeq
  <1> HIDE DEF t
  <1>5. /\ Len(t) > 0 => R[1] = t[1]
        /\ \A i \in 2 .. Len(t) : R[i] = R[i - 1] \o t[i]
    BY <1>2, FlattenUnfolds
  <1>6. FlattenSeq(s) = (IF N = 0 THEN <<>> ELSE S[N]) /\ FlattenSeq(t) = R[N + 1]
    <2>1. Len(t) # 0
      BY <1>2
    <2> QED BY <1>1, <1>2, <1>4, <2>1
  <1> HIDE DEF N, S, R
  <1>7. CASE N = 0
    <2>1. R[N + 1] = x
      BY <1>2, <1>5, <1>7
    <2>2. <<>> \o x = x /\ <<>> \in Seq(V)
      BY ConcatEmptySeq, EmptySeq
    <2> QED BY <1>6, <1>7, <2>1, <2>2 DEF t
  <1>8. CASE N # 0
    <2> DEFINE T == {n \in Nat : n \in 1 .. N => R[n] = S[n]}
    <2>1. 0 \in T
      OBVIOUS
    <2>2. ASSUME NEW n \in Nat, n \in T PROVE n + 1 \in T
      <3>1. CASE n + 1 \in 1 .. N /\ n = 0
        <4>1. N > 0 /\ n + 1 = 1 /\ 1 \in 1 .. N /\ Len(t) > 0
          BY <1>2, <3>1
        <4>2. R[1] = S[1]
          BY <1>2, <1>3, <1>5, <4>1
        <4> QED BY <4>1, <4>2
      <3>2. CASE n + 1 \in 1 .. N /\ n # 0
        <4>1. n \in 1 .. N /\ n + 1 \in 2 .. N /\ n + 1 \in 2 .. Len(t) /\ (n + 1) - 1 = n
          BY <1>2, <3>2
        <4>2. R[n] = S[n] /\ t[n + 1] = s[n + 1]
          BY <1>2, <2>2, <3>2, <4>1
        <4>3. R[n + 1] = R[n] \o t[n + 1] /\ S[n + 1] = S[n] \o s[n + 1]
          BY <1>3, <1>5, <4>1
        <4>4. R[n + 1] = S[n + 1]
          BY <4>2, <4>3, Zenon
        <4> QED BY <4>4
      <3>3. CASE ~(n + 1 \in 1 .. N)
        BY <3>3
      <3> QED BY <3>1, <3>2, <3>3
    <2> HIDE DEF T
    <2>3. Nat \subseteq T
      BY <2>1, <2>2, InductionSet
    <2>4. R[N] = S[N] /\ S[N] \in Seq(V)
      <3>1. N \in T /\ N \in 1 .. N
        BY <1>2, <1>8, <2>3
      <3> QED BY <1>3, <3>1 DEF T
    <2>5. N + 1 \in 2 .. Len(t) /\ (N + 1) - 1 = N
      BY <1>2, <1>8
    <2>6. R[N + 1] = R[N] \o x
      BY <1>2, <1>5, <2>5
    <2> QED BY <1>6, <1>8, <2>4, <2>6 DEF t
  <1> QED BY <1>7, <1>8

-----------------------------------------------------------------------------
(* The packets that draw, by the shape that their opcode stands for.       *)
Words == CommandWords \cup ParameterWords

Packets == {p \in Seq(Words) : \/ G!Opcode(p[1]) = 40 /\ Len(p) = 5
                               \/ G!Opcode(p[1]) = 44 /\ Len(p) = 9
                               \/ G!Opcode(p[1]) = 48 /\ Len(p) = 6
                               \/ G!Opcode(p[1]) = 56 /\ Len(p) = 8}

LEMMA WordTypes ==
    /\ \A w \in Words : /\ w \in G!Word
                        /\ G!position_from_gp0(w) \in Positions
                        /\ G!color_from_gp0(w) \in Colors
    /\ G!Red \in Colors
  BY GraphicsAssumption DEF Words

LEMMA TriangleList ==
    \A p : TrianglesOf(p) =
             IF G!Opcode(p[1]) = 48
             THEN <<Corner(p, 1), Corner(p, 2), Corner(p, 3)>>
             ELSE <<Corner(p, 1), Corner(p, 2), Corner(p, 3),
                    Corner(p, 2), Corner(p, 3), Corner(p, 4)>>
  BY DEF TrianglesOf

(* The corners of a packet, word by word.                                  *)
LEMMA Corners ==
    ASSUME NEW p \in Packets
    PROVE  LET at(i, color) == [position |-> G!position_from_gp0(p[i]), color |-> color] IN
           /\ G!Opcode(p[1]) = 40 =>
                \A k \in 1 .. 4 : Corner(p, k) = at(k + 1, G!color_from_gp0(p[1]))
           /\ G!Opcode(p[1]) = 44 => \A k \in 1 .. 4 : Corner(p, k) = at(2 * k, G!Red)
           /\ G!Opcode(p[1]) = 48 =>
                \A k \in 1 .. 3 : Corner(p, k) = at(2 * k, G!color_from_gp0(p[2 * k - 1]))
           /\ G!Opcode(p[1]) = 56 =>
                \A k \in 1 .. 4 : Corner(p, k) = at(2 * k, G!color_from_gp0(p[2 * k - 1]))
  <1>1. \A k \in 1 .. 4 : 2 + 1 * (k - 1) = k + 1 /\ 2 + 2 * (k - 1) = 2 * k
    OBVIOUS
  <1>2. ASSUME NEW k \in 1 .. 4, G!Opcode(p[1]) = 40
        PROVE  Corner(p, k) = [position |-> G!position_from_gp0(p[k + 1]),
                               color |-> G!color_from_gp0(p[1])]
    BY <1>1, <1>2 DEF Corner
  <1>3. ASSUME NEW k \in 1 .. 4, G!Opcode(p[1]) = 44
        PROVE  Corner(p, k) = [position |-> G!position_from_gp0(p[2 * k]), color |-> G!Red]
    BY <1>1, <1>3 DEF Corner
  <1>4. ASSUME NEW k \in 1 .. 4, G!Opcode(p[1]) \in {48, 56}
        PROVE  Corner(p, k) = [position |-> G!position_from_gp0(p[2 * k]),
                               color |-> G!color_from_gp0(p[2 * k - 1])]
    BY <1>1, <1>4 DEF Corner
  <1> QED BY <1>2, <1>3, <1>4

LEMMA CornerTypes ==
    ASSUME NEW p \in Packets, NEW k \in 1 .. 4, G!Opcode(p[1]) = 48 => k < 4
    PROVE  Corner(p, k) \in Vertices
  <1> DEFINE o == G!Opcode(p[1])
             n == Len(p)
  <1>1. /\ p \in Seq(Words) /\ 1 \in 1 .. n
        /\ o = 40 => k + 1 \in 1 .. n
        /\ o # 40 => 2 * k \in 1 .. n /\ 2 * k - 1 \in 1 .. n
        /\ o \in {40, 44, 48, 56}
    <2>1. /\ p \in Seq(Words)
          /\ \/ o = 40 /\ n = 5
             \/ o = 44 /\ n = 9
             \/ o = 48 /\ n = 6
             \/ o = 56 /\ n = 8
      BY DEF Packets
    <2>2. k \in 1 .. 4 /\ (o = 48 => k < 4)
      OBVIOUS
    <2> HIDE DEF o, n
    <2> QED BY <2>1, <2>2
  <1>2. \A i \in 1 .. Len(p) : p[i] \in Words
    BY <1>1, ElementOfSeq
  <1>3. \A i \in 1 .. Len(p) : /\ G!position_from_gp0(p[i]) \in Positions
                               /\ G!color_from_gp0(p[i]) \in Colors
    BY <1>2, WordTypes
  <1>4. CASE G!Opcode(p[1]) = 40
    <2>1. Corner(p, k) = [position |-> G!position_from_gp0(p[k + 1]),
                          color |-> G!color_from_gp0(p[1])]
      BY <1>4, Corners
    <2>2. G!position_from_gp0(p[k + 1]) \in Positions /\ G!color_from_gp0(p[1]) \in Colors
      BY <1>1, <1>3, <1>4
    <2> QED BY <2>1, <2>2 DEF Vertices
  <1>5. CASE G!Opcode(p[1]) = 44
    BY <1>1, <1>3, <1>5, Corners, WordTypes DEF Vertices
  <1>6. CASE G!Opcode(p[1]) = 48
    <2>1. k \in 1 .. 3
      BY <1>6
    <2> QED BY <1>1, <1>3, <1>6, <2>1, Corners DEF Vertices
  <1>7. CASE G!Opcode(p[1]) = 56
    BY <1>1, <1>3, <1>7, Corners DEF Vertices
  <1> QED BY <1>1, <1>4, <1>5, <1>6, <1>7

LEMMA TrianglesType == \A p \in Packets : TrianglesOf(p) \in Seq(Vertices)
  <1> TAKE p \in Packets
  <1>1. \A k \in 1 .. 3 : Corner(p, k) \in Vertices
    BY CornerTypes
  <1>2. G!Opcode(p[1]) # 48 => Corner(p, 4) \in Vertices
    BY CornerTypes
  <1>3. Corner(p, 1) \in Vertices /\ Corner(p, 2) \in Vertices /\ Corner(p, 3) \in Vertices
    BY <1>1
  <1>4. CASE G!Opcode(p[1]) = 48
    <2>1. TrianglesOf(p) = <<Corner(p, 1), Corner(p, 2), Corner(p, 3)>>
      BY <1>4, TriangleList
    <2> QED BY <1>3, <2>1
  <1>5. CASE G!Opcode(p[1]) # 48
    <2>1. TrianglesOf(p) = <<Corner(p, 1), Corner(p, 2), Corner(p, 3),
                             Corner(p, 2), Corner(p, 3), Corner(p, 4)>>
      BY <1>5, TriangleList
    <2> QED BY <1>2, <1>3, <1>5, <2>1
  <1> QED BY <1>4, <1>5

(* One packet more is its triangles more.                                  *)
LEMMA AllTrianglesAppend ==
    ASSUME NEW ps \in Seq(Packets), NEW p \in Packets
    PROVE  AllTriangles(Append(ps, p)) = AllTriangles(ps) \o TrianglesOf(p)
  <1> DEFINE M(qs) == [i \in DOMAIN qs |-> TrianglesOf(qs[i])]
             N == Len(ps)
             qs == Append(ps, p)
  <1>1. /\ qs \in Seq(Packets) /\ Len(qs) = N + 1 /\ N \in Nat
        /\ \A k \in 1 .. N : qs[k] = ps[k]
        /\ qs[N + 1] = p
    BY AppendProperties
  <1>2. \A i \in 1 .. N : ps[i] \in Packets
    BY ElementOfSeq
  <1>3. M(ps) \in Seq(Seq(Vertices)) /\ Len(M(ps)) = N
        /\ \A k \in 1 .. N : M(ps)[k] = TrianglesOf(ps[k])
    <2>1. DOMAIN ps = 1 .. N
      OBVIOUS
    <2>2. M(ps) \in [1 .. N -> Seq(Vertices)]
      BY <1>2, <2>1, TrianglesType
    <2> QED BY <1>1, <2>1, <2>2, LenProperties, IsASeq
  <1>4. TrianglesOf(p) \in Seq(Vertices)
    BY TrianglesType
  <1>5. M(qs) = Append(M(ps), TrianglesOf(p))
    <2> DEFINE a == Append(M(ps), TrianglesOf(p))
    <2>1. /\ Len(a) = N + 1 /\ a \in Seq(Seq(Vertices))
          /\ \A k \in 1 .. N : a[k] = M(ps)[k]
          /\ a[N + 1] = TrianglesOf(p)
      BY <1>3, <1>4, AppendProperties
    <2>2. DOMAIN a = 1 .. N + 1 /\ DOMAIN qs = 1 .. N + 1
      BY <1>1, <2>1, LenProperties
    <2> HIDE DEF qs, a, N
    <2>3. ASSUME NEW k \in 1 .. N + 1 PROVE M(qs)[k] = a[k]
      <3>1. M(qs)[k] = TrianglesOf(qs[k])
        BY <2>2
      <3>2. CASE k = N + 1
        BY <1>1, <2>1, <3>1, <3>2
      <3>3. CASE k # N + 1
        <4>1. k \in 1 .. N
          BY <1>1, <3>3
        <4> QED BY <1>1, <1>3, <2>1, <3>1, <4>1
      <3> QED BY <3>2, <3>3
    <2>4. a = [k \in 1 .. N + 1 |-> a[k]] /\ M(qs) = [k \in 1 .. N + 1 |-> M(qs)[k]]
      BY <2>1, <2>2
    <2> QED BY <2>3, <2>4 DEF a
  <1>6. FlattenSeq(Append(M(ps), TrianglesOf(p))) = FlattenSeq(M(ps)) \o TrianglesOf(p)
    <2> HIDE DEF M
    <2> QED BY <1>3, <1>4, FlattenAppend
  <1> QED BY <1>5, <1>6 DEF AllTriangles

LEMMA NoTriangles == AllTriangles(<<>>) = <<>>
  <1>1. [i \in DOMAIN <<>> |-> TrianglesOf(<<>>[i])] = <<>>
    OBVIOUS
  <1> QED BY <1>1, EmptySeq DEF AllTriangles, FlattenSeq

-----------------------------------------------------------------------------
(* What a word has the port ask of the renderer: nothing, the display, or  *)
(* the triangles of the packet it completes.                               *)
Asks(packet) ==
    LET v == call'.vertices IN
    \/ call'.op = "triangle" /\ <<v[1], v[2], v[3]>> = TrianglesOf(packet)
    \/ /\ call'.op = "quad"
       /\ <<v[1], v[2], v[3], v[2], v[3], v[4]>> = TrianglesOf(packet)

LEMMA DrawAsks ==
    ASSUME NEW c \in G!Commands, NEW b \in Seq(Words), Len(b) = G!Length(c),
           G!Opcode(b[1]) = G!Opcodes[c], G!Draw(c, b)
    PROVE  b \in Packets /\ Asks(b)
  <1> DEFINE v == call'.vertices
  <1>1. CASE c = "SHADED_TRIANGLE"
    <2>1. b \in Packets /\ G!Opcode(b[1]) = 48
      BY <1>1 DEF Packets, G!Length, G!Opcodes
    <2>2. call' = G!gp0_triangle_shaded_opaque(b)
      BY <1>1 DEF G!Draw, G!Ask
    <2>3. \A k \in 1 .. 3 : v[k] = [position |-> G!position_from_gp0(b[2 * k]),
                                    color |-> G!color_from_gp0(b[2 * k - 1])]
      BY <2>2 DEF G!gp0_triangle_shaded_opaque, G!Push
    <2>4. \A k \in 1 .. 3 : v[k] = Corner(b, k)
      BY <2>1, <2>3, Corners
    <2>5. call'.op = "triangle"
      BY <2>2 DEF G!gp0_triangle_shaded_opaque, G!Push
    <2>6. v[1] = Corner(b, 1) /\ v[2] = Corner(b, 2) /\ v[3] = Corner(b, 3)
      BY <2>4
    <2> QED BY <2>1, <2>5, <2>6, TriangleList DEF Asks
  <1>2. ASSUME c # "SHADED_TRIANGLE"
        PROVE  /\ b \in Packets /\ G!Opcode(b[1]) # 48 /\ call'.op = "quad"
               /\ \A k \in 1 .. 4 : v[k] = Corner(b, k)
    <2>1. CASE c = "MONO_QUAD"
      <3>1. b \in Packets /\ G!Opcode(b[1]) = 40
        BY <2>1 DEF Packets, G!Length, G!Opcodes
      <3>2. call' = G!gpu_gp0_quad_mono_opaque(b)
        BY <2>1 DEF G!Draw, G!Ask
      <3>3. \A k \in 1 .. 4 : v[k] = [position |-> G!position_from_gp0(b[k + 1]),
                                      color |-> G!color_from_gp0(b[1])]
        BY <3>2 DEF G!gpu_gp0_quad_mono_opaque, G!Push
      <3>4. call'.op = "quad"
        BY <3>2 DEF G!gpu_gp0_quad_mono_opaque, G!Push
      <3> QED BY <3>1, <3>3, <3>4, Corners
    <2>2. CASE c = "TEXTURED_QUAD"
      <3>1. b \in Packets /\ G!Opcode(b[1]) = 44
        BY <2>2 DEF Packets, G!Length, G!Opcodes
      <3>2. call' = G!gpu_gp0_quad_texture_blend_opaque(b)
        BY <2>2 DEF G!Draw, G!Ask
      <3>3. \A k \in 1 .. 4 : v[k] = [position |-> G!position_from_gp0(b[2 * k]),
                                      color |-> G!Red]
        BY <3>2 DEF G!gpu_gp0_quad_texture_blend_opaque, G!Push
      <3>4. call'.op = "quad"
        BY <3>2 DEF G!gpu_gp0_quad_texture_blend_opaque, G!Push
      <3> QED BY <3>1, <3>3, <3>4, Corners
    <2>3. CASE c = "SHADED_QUAD"
      <3>1. b \in Packets /\ G!Opcode(b[1]) = 56
        BY <2>3 DEF Packets, G!Length, G!Opcodes
      <3>2. call' = G!gpu_gp0_quad_shaded_opaque(b)
        BY <2>3 DEF G!Draw, G!Ask
      <3>3. \A k \in 1 .. 4 : v[k] = [position |-> G!position_from_gp0(b[2 * k]),
                                      color |-> G!color_from_gp0(b[2 * k - 1])]
        BY <3>2 DEF G!gpu_gp0_quad_shaded_opaque, G!Push
      <3>4. call'.op = "quad"
        BY <3>2 DEF G!gpu_gp0_quad_shaded_opaque, G!Push
      <3>5. \A k \in 1 .. 4 : Corner(b, k) = [position |-> G!position_from_gp0(b[2 * k]),
                                             color |-> G!color_from_gp0(b[2 * k - 1])]
        BY <3>1, Corners
      <3> QED BY <3>1, <3>3, <3>4, <3>5
    <2>4. c \in {"MONO_QUAD", "TEXTURED_QUAD", "SHADED_QUAD"}
      BY <1>2 DEF G!Draw
    <2> QED BY <2>1, <2>2, <2>3, <2>4
  <1>3. CASE c # "SHADED_TRIANGLE"
    <2>1. /\ v[1] = Corner(b, 1) /\ v[2] = Corner(b, 2)
          /\ v[3] = Corner(b, 3) /\ v[4] = Corner(b, 4)
      BY <1>2, <1>3
    <2> QED BY <1>2, <1>3, <2>1, TriangleList DEF Asks
  <1> QED BY <1>1, <1>3

PortInv == GP!IInv /\ gp0_command_buffer \in Seq(Words)

LEMMA PortStep ==
    ASSUME PortInv, NEW w \in Words, G!gpu_gp0(w)
    PROVE  /\ PortInv'
           /\ LET b == Append(G!Before, w) IN
              call'.op \in {"none", "display"} \/ (b \in Packets /\ Asks(b))
  <1> DEFINE b == Append(G!Before, w)
             c == G!CommandWith(w)
  <1>1. w \in GP!Word
    BY WordTypes, SameCommands
  <1>2. CASE G!UnknownCommand(w)
    <2>1. UNCHANGED GP!gp0 /\ port_failure' \in GP!Failures
      BY <1>2 DEF G!UnknownCommand, G!Fail, G!gp0, GP!gp0, GP!Failures
    <2>2. GP!IInv'
      BY <2>1, GP!QuietStep, PortAssumption DEF PortInv
    <2>3. call'.op = "none"
      BY <1>2 DEF G!UnknownCommand, G!Fail, G!NoCall
    <2> QED BY <2>1, <2>2, <2>3 DEF PortInv, GP!gp0
  <1>3. CASE G!ImageWord(w)
    <2>1. GP!IInv' /\ gp0_command_buffer' = gp0_command_buffer
      BY <1>1, <1>3, GP!ImageStep, PortAssumption, SameWords DEF PortInv
    <2>2. call'.op = "none"
      BY <1>3 DEF G!ImageWord, G!Done, G!NoCall
    <2> QED BY <2>1, <2>2 DEF PortInv
  <1>4. CASE G!CommandWord(w)
    <2>1. GP!CommandWord(w)
      BY <1>4, SameCommandWord
    <2>2. b \in Seq(Words) /\ Len(b) = Len(G!Before) + 1 /\ Len(G!Before) \in Nat
      <3>1. G!Before \in Seq(Words)
        BY EmptySeq DEF G!Before, PortInv
      <3> QED BY <3>1
    <2>3. CASE G!RemainingWith(w) # 0
      <3>1. GP!IInv' /\ gp0_command_buffer' = b
        BY <1>1, <2>1, <2>3, GP!CollectStep, PortAssumption, SameWords DEF PortInv
      <3>2. call'.op = "none"
        BY <1>4, <2>3 DEF G!CommandWord, G!Fail, G!Done, G!NoCall
      <3> QED BY <2>2, <3>1, <3>2 DEF PortInv
    <2>4. CASE G!RemainingWith(w) = 0
      <3>1. GP!IInv' /\ gp0_command_buffer' = b
        BY <1>1, <2>1, <2>4, GP!CompleteStep, PortAssumption, SameWords DEF PortInv
      <3>2. gp0_mode = "COMMAND" /\ (G!Starting => G!Started(w) # {})
        BY <1>4 DEF G!CommandWord
      <3>3. /\ c \in G!Commands
            /\ Len(G!Before) + 1 + 0 = G!Length(c)
            /\ G!Opcode(b[1]) = G!Opcodes[c]
        BY <1>1, <2>4, <3>2, GP!WordFacts, PortAssumption, SameWords, SameCommands
           DEF PortInv
      <3>4. Len(b) = G!Length(c) /\ Len(G!Before) < 12
        <4>1. G!Length(c) \in 1 .. 9
          BY <3>3, GP!LengthRange, PortAssumption, SameCommands
        <4> HIDE DEF b, c
        <4> QED BY <2>2, <3>3, <4>1
      <3>5. G!gpu_execute_gp0_command(c, b)
        BY <1>4, <2>4, <3>4 DEF G!CommandWord
      <3> HIDE DEF b, c
      <3>6. call'.op \in {"none", "display"} \/ (b \in Packets /\ Asks(b))
        <4>1. CASE G!Draw(c, b)
          BY <2>2, <3>3, <3>4, <4>1, DrawAsks
        <4>2. CASE G!SetAttribute(c, b)
          BY <4>2 DEF G!SetAttribute, G!Ask, G!Done, G!Fail, G!NoCall
        <4>3. CASE G!gpu_gp0_image_load(c, b)
          BY <4>3 DEF G!gpu_gp0_image_load, G!Done, G!NoCall
        <4>4. CASE G!Ignore(c)
          BY <4>4 DEF G!Ignore, G!Done, G!Fail, G!NoCall
        <4> QED BY <3>5, <4>1, <4>2, <4>3, <4>4 DEF G!gpu_execute_gp0_command
      <3> QED BY <2>2, <3>1, <3>6 DEF PortInv, b
    <2> QED BY <2>3, <2>4
  <1> QED BY <1>2, <1>3, <1>4 DEF G!gpu_gp0

-----------------------------------------------------------------------------
(* The invariant of the two together: the port's framing, the renderer's   *)
(* buffers, packets that draw in the history, and what the screen and the  *)
(* next frame are.                                                         *)
HistoryOK == frame_packets \in Seq(Packets) /\ shown_packets \in Seq(Packets)

GraphicsInv == PortInv /\ IInv /\ HistoryOK /\ ScreenShowsPackets

(* The step of the renderer that a call asks for and that succeeds.        *)
LEMMA RendersStep ==
    ASSUME IInv, NEW b, Renders,
           call'.op \in {"none", "display"} \/ (b \in Packets /\ Asks(b))
    PROVE  /\ IInv'
           /\ call'.op = "none" => UNCHANGED <<Frame, shown>>
           /\ port_failure' = "none" /\ call'.op = "display" => shown' = Frame /\ Frame' = <<>>
           /\ port_failure' = "none" /\ call'.op \in {"triangle", "quad"} =>
                 shown' = shown /\ Frame' = Frame \o TrianglesOf(b)
           /\ \/ UNCHANGED <<Frame, shown>>
              \/ shown' = Frame /\ Frame' = <<>>
              \/ b \in Packets /\ shown' = shown /\ Frame' = Frame \o TrianglesOf(b)
  <1>1. CASE call'.op = "none"
    <2>1. UNCHANGED vars
      BY <1>1 DEF Renders
    <2>2. IInv'
      BY <2>1 DEF vars, IInv, TypeOK, NeverOverflows, WholeTriangles
    <2>3. UNCHANGED <<Frame, shown>>
      BY <2>1 DEF vars, Frame, Staged
    <2> QED BY <1>1, <2>2, <2>3
  <1>2. CASE call'.op = "display"
    <2>1. renderer_display /\ Answers
      BY <1>2 DEF Renders
    <2>2. /\ IInv'
          /\ failure' = "none" => shown' = Frame /\ Frame' = <<>>
          /\ failure' # "none" => UNCHANGED <<Frame, shown>>
      BY <2>1, DisplayStep
    <2> QED BY <1>2, <2>1, <2>2 DEF Answers
  <1>3. CASE call'.op \notin {"none", "display"}
    <2> DEFINE t == TrianglesOf(b)
    <2>1. b \in Packets /\ Asks(b)
      BY <1>3
    <2>2. PushVertices(t) /\ Answers /\ call'.op \in {"triangle", "quad"}
      BY <1>3, <2>1 DEF Renders, Asks, renderer_push_triangle, renderer_push_quad
    <2>3. t \in Seq(Vertices) /\ Len(t) \in {3, 6}
      <3>1. Len(t) \in {3, 6}
        BY TriangleList
      <3> QED BY <2>1, <3>1, TrianglesType
    <2> HIDE DEF t
    <2>4. /\ IInv' /\ shown' = shown
          /\ failure' = "none" => Frame' = Frame \o t
          /\ failure' # "none" => Frame' = Frame
      BY <2>2, <2>3, PushStep
    <2> QED BY <2>1, <2>2, <2>4 DEF Answers, t
  <1> QED BY <1>1, <1>2, <1>3

LEMMA InputWords == PortInv => Inputs \subseteq Words
  <1> SUFFICES ASSUME PortInv, ~G!Starting, gp0_mode # "IMAGE_LOAD"
               PROVE  ParameterAt[Len(gp0_command_buffer)] \subseteq ParameterWords
    BY DEF Inputs, Words
  <1>1. /\ gp0_command_buffer \in Seq(Words) /\ Len(gp0_command_buffer) <= 9
        /\ gp0_mode = "COMMAND" /\ gp0_words_remaining \in Nat
    BY DEF PortInv, GP!IInv, GP!PortOK
  <1>2. gp0_words_remaining > 0
    BY <1>1 DEF G!Starting
  <1>3. gp0_command_buffer # <<>>
    BY <1>1, <1>2 DEF PortInv, GP!IInv, GP!FramingCoherent
  <1>4. Len(gp0_command_buffer) \in 1 .. 11
    <2> DEFINE n == Len(gp0_command_buffer)
    <2>1. n # 0 /\ n \in Nat /\ n <= 9
      BY <1>1, <1>3, EmptySeq
    <2> HIDE DEF n
    <2>2. n \in 1 .. 11
      BY <2>1
    <2> QED BY <2>2 DEF n
  <1> QED BY <1>4, GraphicsAssumption DEF ParameterWords

LEMMA Gp0Step ==
    ASSUME GraphicsInv, NEW w \in Words, WriteGp0(w)
    PROVE  GraphicsInv'
  <1> DEFINE b == Append(G!Before, w)
  <1>1. PortInv' /\ (call'.op \in {"none", "display"} \/ (b \in Packets /\ Asks(b)))
    BY PortStep DEF GraphicsInv, WriteGp0
  <1>2. port_failure = "none" /\ Renders /\ Remember(b)
    BY DEF WriteGp0, G!gpu_gp0
  <1>3. shown = AllTriangles(shown_packets) /\ Frame = AllTriangles(frame_packets)
    BY <1>2 DEF GraphicsInv, ScreenShowsPackets, Frame
  <1>4. frame_packets \in Seq(Packets) /\ shown_packets \in Seq(Packets)
    BY DEF GraphicsInv, HistoryOK
  <1> HIDE DEF b
  <1>5. /\ IInv'
        /\ call'.op = "none" => UNCHANGED <<Frame, shown>>
        /\ port_failure' = "none" /\ call'.op = "display" => shown' = Frame /\ Frame' = <<>>
        /\ port_failure' = "none" /\ call'.op \in {"triangle", "quad"} =>
              shown' = shown /\ Frame' = Frame \o TrianglesOf(b)
    BY <1>1, <1>2, RendersStep DEF GraphicsInv
  <1>6. CASE port_failure' # "none"
    <2>1. UNCHANGED history
      BY <1>2, <1>6 DEF Remember
    <2>2. HistoryOK' /\ ScreenShowsPackets'
      BY <1>4, <1>6, <2>1 DEF HistoryOK, ScreenShowsPackets, history
    <2> QED BY <1>1, <1>5, <2>2 DEF GraphicsInv
  <1>7. CASE port_failure' = "none" /\ call'.op = "none"
    <2>1. UNCHANGED history
      BY <1>2, <1>7 DEF Remember
    <2>2. shown' = AllTriangles(shown_packets') /\ Frame' = AllTriangles(frame_packets')
      BY <1>3, <1>5, <1>7, <2>1 DEF history
    <2> QED BY <1>1, <1>4, <1>5, <2>1, <2>2
        DEF GraphicsInv, HistoryOK, ScreenShowsPackets, history, Frame
  <1>8. CASE port_failure' = "none" /\ call'.op = "display"
    <2>1. shown_packets' = frame_packets /\ frame_packets' = <<>>
      BY <1>2, <1>8 DEF Remember
    <2>2. shown' = AllTriangles(shown_packets') /\ Frame' = AllTriangles(frame_packets')
      BY <1>3, <1>5, <1>8, <2>1, NoTriangles
    <2>3. HistoryOK'
      BY <1>4, <2>1, EmptySeq DEF HistoryOK
    <2> QED BY <1>1, <1>5, <2>2, <2>3 DEF GraphicsInv, ScreenShowsPackets, Frame
  <1>9. CASE port_failure' = "none" /\ call'.op \notin {"none", "display"}
    <2>1. b \in Packets /\ call'.op \in {"triangle", "quad"}
      BY <1>1, <1>9 DEF Asks
    <2>2. frame_packets' = Append(frame_packets, b) /\ shown_packets' = shown_packets
      BY <1>2, <1>9, <2>1 DEF Remember
    <2>3. AllTriangles(Append(frame_packets, b))
            = AllTriangles(frame_packets) \o TrianglesOf(b)
      BY <1>4, <2>1, AllTrianglesAppend
    <2>4. shown' = AllTriangles(shown_packets') /\ Frame' = AllTriangles(frame_packets')
      BY <1>3, <1>5, <1>9, <2>1, <2>2, <2>3
    <2>5. HistoryOK'
      BY <1>4, <2>1, <2>2 DEF HistoryOK
    <2> QED BY <1>1, <1>5, <2>4, <2>5 DEF GraphicsInv, ScreenShowsPackets, Frame
  <1> QED BY <1>6, <1>7, <1>8, <1>9

LEMMA Gp1Step ==
    ASSUME GraphicsInv, NEW w \in ControlWords, WriteGp1(w)
    PROVE  GraphicsInv'
  <1>1. w \in GP!Word /\ GP!gpu_gp1(w) /\ UNCHANGED <<vars, history>>
    BY GraphicsAssumption, SameWords, SameCommands DEF WriteGp1
  <1>2. PortInv'
    <2>1. /\ UNCHANGED GP!gp0 \/ GP!gpu_reset_command_buffer
          /\ \/ UNCHANGED port_failure
             \/ port_failure' = "control" /\ UNCHANGED GP!gp0
      BY <1>1, GP!ControlShape, PortAssumption
    <2>2. port_failure' \in GP!Failures
      BY <2>1 DEF GraphicsInv, PortInv, GP!IInv, GP!Failures
    <2>3. CASE UNCHANGED GP!gp0
      <3>1. GP!IInv'
        BY <2>2, <2>3, GP!QuietStep, PortAssumption DEF GraphicsInv, PortInv
      <3> QED BY <2>3, <3>1 DEF GraphicsInv, PortInv, GP!gp0
    <2>4. CASE GP!gpu_reset_command_buffer
      <3>1. GP!PortOK'
        BY <2>4 DEF GP!gpu_reset_command_buffer, GP!PortOK
      <3>2. GP!FramingCoherent'
        BY <2>4 DEF GP!gpu_reset_command_buffer, GP!FramingCoherent
      <3> QED BY <2>2, <2>4, <3>1, <3>2, EmptySeq
          DEF GP!IInv, PortInv, GP!gpu_reset_command_buffer
    <2> QED BY <2>1, <2>3, <2>4
  <1>3. IInv' /\ HistoryOK'
    BY <1>1 DEF GraphicsInv, IInv, TypeOK, NeverOverflows, WholeTriangles, HistoryOK,
       vars, history
  <1>4. ScreenShowsPackets'
    <2>1. port_failure = "none"
      BY DEF WriteGp1, G!gpu_gp1
    <2> QED BY <1>1, <2>1 DEF GraphicsInv, ScreenShowsPackets, Staged, vars, history
  <1> QED BY <1>2, <1>3, <1>4 DEF GraphicsInv

LEMMA GraphicsStep == GraphicsInv /\ [GraphicsNext]_gvars => GraphicsInv'
  <1> SUFFICES ASSUME GraphicsInv, [GraphicsNext]_gvars PROVE GraphicsInv'
    OBVIOUS
  <1>1. ASSUME NEW w \in Inputs, WriteGp0(w) PROVE GraphicsInv'
    <2>1. w \in Words
      BY InputWords DEF GraphicsInv
    <2> QED BY <1>1, <2>1, Gp0Step
  <1>2. ASSUME NEW w \in ControlWords, WriteGp1(w) PROVE GraphicsInv'
    BY <1>2, Gp1Step
  <1>3. CASE UNCHANGED gvars
    BY <1>3 DEF gvars, gpu, history, vars, GraphicsInv, PortInv, GP!IInv, GP!PortOK,
       GP!FramingCoherent, IInv, TypeOK, NeverOverflows, WholeTriangles, HistoryOK,
       ScreenShowsPackets, Staged
  <1> QED BY <1>1, <1>2, <1>3 DEF GraphicsNext

LEMMA GraphicsInitOK == GraphicsInit => GraphicsInv
  <1> SUFFICES ASSUME GraphicsInit PROVE GraphicsInv
    OBVIOUS
  <1>1. GP!IInv
    BY SameInit, GP!InitOK, PortAssumption DEF GraphicsInit
  <1>2. IInv
    BY InitOK DEF GraphicsInit
  <1>3. gp0_command_buffer \in Seq(Words) /\ HistoryOK
    BY EmptySeq DEF GraphicsInit, G!Init, HistoryOK
  <1>4. ScreenShowsPackets
    <2>1. Staged = <<>> /\ drawn = <<>> /\ shown = <<>> /\ frame_packets = <<>>
          /\ shown_packets = <<>>
      BY NothingStaged DEF GraphicsInit, Init
    <2>2. <<>> \o <<>> = <<>>
      BY ConcatEmptySeq, EmptySeq
    <2> QED BY <2>1, <2>2, NoTriangles DEF ScreenShowsPackets
  <1> QED BY <1>1, <1>2, <1>3, <1>4 DEF GraphicsInv, PortInv

(* Port and renderer together keep their invariant.                        *)
THEOREM GraphicsInvariance == GraphicsSpec => []GraphicsInv
  BY GraphicsInitOK, GraphicsStep, PTL DEF GraphicsSpec

(* The screen shows exactly the triangles of the packets that were         *)
(* completed between the two last displays, for any words at both ports,   *)
(* any capacity and any number of packets, with resets and early draws     *)
(* wherever they fall.                                                     *)
THEOREM ScreenTheorem == GraphicsSpec => []ScreenShowsPackets
  <1>1. GraphicsInv => ScreenShowsPackets
    BY DEF GraphicsInv
  <1> QED BY <1>1, GraphicsInvariance, PTL

(* The port never brings the renderer to find its buffers full.            *)
THEOREM NeverOverflowsInGraphics == GraphicsSpec => []NeverOverflows
  <1>1. GraphicsInv => NeverOverflows
    BY DEF GraphicsInv, IInv
  <1> QED BY <1>1, GraphicsInvariance, PTL

(* The triangles of a packet are a primitive of the stream.                *)
LEMMA PacketPushed ==
    ASSUME Triangles = [1 .. 3 -> Vertices], Quads = [1 .. 4 -> Vertices],
           NEW b \in Packets, shown' = shown, Frame' = Frame \o TrianglesOf(b)
    PROVE  PrimitiveStreamSpec!Next
  <1>1. CASE G!Opcode(b[1]) = 48
    <2> DEFINE t == [k \in 1 .. 3 |-> Corner(b, k)]
    <2>1. \A k \in 1 .. 3 : Corner(b, k) \in Vertices
      BY CornerTypes
    <2>2. t \in Triangles
      BY <2>1
    <2>3. TrianglesOf(b) = <<t[1], t[2], t[3]>>
      BY <1>1, TriangleList
    <2> HIDE DEF t
    <2> QED BY <2>2, <2>3 DEF Frame, PrimitiveStreamSpec!Next, PrimitiveStreamSpec!PushTriangle
  <1>2. CASE G!Opcode(b[1]) # 48
    <2> DEFINE q == [k \in 1 .. 4 |-> Corner(b, k)]
    <2>1. \A k \in 1 .. 4 : Corner(b, k) \in Vertices
      BY <1>2, CornerTypes
    <2>2. q \in Quads
      BY <2>1
    <2>3. TrianglesOf(b) = <<q[1], q[2], q[3], q[2], q[3], q[4]>>
      BY <1>2, TriangleList
    <2> HIDE DEF q
    <2> QED BY <2>2, <2>3 DEF Frame, PrimitiveStreamSpec!Next, PrimitiveStreamSpec!PushQuad
  <1> QED BY <1>1, <1>2

(* Driven by the words at the port the renderer implements the stream of   *)
(* all primitives.                                                         *)
THEOREM RefinementInGraphics ==
    ASSUME Triangles = [1 .. 3 -> Vertices], Quads = [1 .. 4 -> Vertices]
    PROVE  GraphicsSpec => ImplementsPrimitiveStream
  <1>1. GraphicsInit => PrimitiveStreamSpec!Init
    BY StreamInit DEF GraphicsInit
  <1>2. GraphicsInv /\ [GraphicsNext]_gvars
          => [PrimitiveStreamSpec!Next]_(PrimitiveStreamSpec!vars)
    <2> SUFFICES ASSUME GraphicsInv, [GraphicsNext]_gvars
                 PROVE  [PrimitiveStreamSpec!Next]_(PrimitiveStreamSpec!vars)
      OBVIOUS
    <2>1. ASSUME UNCHANGED <<Frame, shown>> PROVE UNCHANGED PrimitiveStreamSpec!vars
      BY <2>1 DEF Frame, PrimitiveStreamSpec!vars
    <2>2. CASE UNCHANGED vars
      BY <2>1, <2>2 DEF vars, Frame, Staged
    <2>3. ASSUME NEW w \in Inputs, WriteGp0(w)
          PROVE  [PrimitiveStreamSpec!Next]_(PrimitiveStreamSpec!vars)
      <3> DEFINE b == Append(G!Before, w)
      <3>1. w \in Words
        BY InputWords DEF GraphicsInv
      <3>2. call'.op \in {"none", "display"} \/ (b \in Packets /\ Asks(b))
        BY <2>3, <3>1, PortStep DEF GraphicsInv, WriteGp0
      <3>3. Renders /\ IInv
        BY <2>3 DEF WriteGp0, GraphicsInv
      <3> HIDE DEF b
      <3>4. \/ UNCHANGED <<Frame, shown>>
            \/ shown' = Frame /\ Frame' = <<>>
            \/ b \in Packets /\ shown' = shown /\ Frame' = Frame \o TrianglesOf(b)
        BY <3>2, <3>3, RendersStep
      <3>5. CASE shown' = Frame /\ Frame' = <<>>
        BY <3>5 DEF Frame, PrimitiveStreamSpec!Next, PrimitiveStreamSpec!Display
      <3> QED BY <2>1, <3>4, <3>5, PacketPushed
    <2>4. ASSUME NEW w \in ControlWords, WriteGp1(w) PROVE UNCHANGED vars
      BY <2>4 DEF WriteGp1
    <2> QED BY <2>2, <2>3, <2>4 DEF GraphicsNext, gvars
  <1> QED BY <1>1, <1>2, GraphicsInvariance, PTL
      DEF GraphicsSpec, ImplementsPrimitiveStream, PrimitiveStreamSpec!Spec

-----------------------------------------------------------------------------
(***************************************************************************)
(* The program around the renderer.                                        *)
(***************************************************************************)

(* The call of renderer_init, and of debug_ui_init, that acquires each      *)
(* resource.                                                               *)
RendererCall == [sdl |-> 1, window |-> 3, gl_context |-> 4,
                 vertex_shader |-> 6, fragment_shader |-> 6, program |-> 7,
                 vertex_array_obj |-> 8, positions |-> 9, colors |-> 11]
UiCall == [ui |-> 1, ui_window |-> 2, ui_context |-> 3, ui_nuklear |-> 5,
           ui_shaders |-> 6, ui_program |-> 7, ui_staging |-> 8, ui_objects |-> 9]

RendererResources == RendererObjects \cup {"sdl", "window", "gl_context"}
RendererBefore(n) == {r \in RendererResources : RendererCall[r] < n}
UiBefore(n) == {r \in UiResources : UiCall[r] < n}
UiHeld == IF implementation THEN UiResources ELSE {}

(* What a debug_ui_init that fails may have acquired so far.               *)
Begun(held) ==
    /\ held \subseteq UiResources
    /\ held \subseteq {"ui", "ui_window"} \/ {"ui_window", "ui_context"} \subseteq held

Failing == {"failure", "failure_destroy_device"}
Turning == {"poll", "input_begin", "handle_events", "input_end", "frame",
            "render_ui", "frame_restore", "cpu", "gdb_server_destroy", "died"}
WithUi == {"debug_ui_init_restore", "destroy_device"}
WithoutUi == {"failure_restore", "destroy_restore", "interconnect_destroy"}
Either == {"gdb_port", "debug_ui_destroy"}
Stages == {"renderer_init", "debug_ui_init", "done"} \cup Failing \cup Turning
          \cup WithUi \cup WithoutUi \cup Either

(* What is held is determined by where main is.                            *)
Held ==
    /\ pc \in Stages
    /\ pc = "done" => live = {} /\ fields = {}
    /\ pc = "renderer_init" => init_call \in 1 .. 12 /\ live = RendererBefore(init_call)
                               /\ fields = live \ {"sdl"}
    /\ pc \notin {"done", "renderer_init"} => fields = RendererResources \ {"sdl"}
    /\ pc = "debug_ui_init" => init_call \in 1 .. 9
                               /\ live = RendererResources \cup UiBefore(init_call)
    /\ pc \in Failing => \E held : Begun(held) /\ live = RendererResources \cup held
    /\ pc \in WithoutUi => live = RendererResources
    /\ pc \in WithUi \cup Either => live = RendererResources \cup UiHeld
    /\ pc \in Turning => live \ {"client_fd"} = RendererResources \cup UiHeld \cup {"listen_fd"}
    /\ implementation \in BOOLEAN
    /\ pc \in WithUi => implementation
    /\ implementation => pc \in WithUi \cup Either \cup Turning

(* Each call of renderer_init acquires what RendererCall says, and a failing
   one leaves a part of the rest behind. *)
LEMMA RendererCallsAre ==
    /\ Len(RendererCalls) = 12
    /\ RendererBefore(1) = {}
    /\ RendererBefore(13) = RendererResources
    /\ \A n \in 1 .. 12 :
          /\ RendererBefore(n + 1) = RendererBefore(n) \cup RendererCalls[n].gives
          /\ n > CreatesContext => RendererCalls[n].leaves \subseteq SUBSET RendererResources
  <1>1. Len(RendererCalls) = 12
    BY DEF RendererCalls
  <1>2. RendererResources = {"sdl", "window", "gl_context", "vertex_shader",
           "fragment_shader", "program", "vertex_array_obj", "positions", "colors"}
    BY DEF RendererResources, RendererObjects
  <1>3. RendererBefore(1) = {} /\ RendererBefore(13) = RendererResources
    BY <1>2 DEF RendererBefore, RendererCall
  <1>4. ASSUME NEW n \in 1 .. 12
        PROVE  RendererCalls[n].gives = {r \in RendererResources : RendererCall[r] = n}
    <2>1. \/ n = 1 \/ n = 2 \/ n = 3 \/ n = 4 \/ n = 5 \/ n = 6
          \/ n = 7 \/ n = 8 \/ n = 9 \/ n = 10 \/ n = 11 \/ n = 12
      OBVIOUS
    <2> QED BY <2>1, <1>2 DEF RendererCalls, RendererCall
  <1>5. ASSUME NEW n \in 1 .. 12 PROVE RendererCalls[n].leaves \subseteq SUBSET RendererResources
    <2>1. \/ n = 1 \/ n = 2 \/ n = 3 \/ n = 4 \/ n = 5 \/ n = 6
          \/ n = 7 \/ n = 8 \/ n = 9 \/ n = 10 \/ n = 11 \/ n = 12
      OBVIOUS
    <2> QED BY <2>1, <1>2 DEF RendererCalls
  <1>6. \A r \in RendererResources : RendererCall[r] \in Nat
    BY <1>2 DEF RendererCall
  <1>7. ASSUME NEW n \in 1 .. 12
        PROVE  RendererBefore(n + 1) = RendererBefore(n) \cup RendererCalls[n].gives
    BY <1>4, <1>6 DEF RendererBefore
  <1> QED BY <1>1, <1>3, <1>5, <1>7

(* Each call of debug_ui_init acquires what UiCall says, and one that fails
   leaves what Begun allows. *)
LEMMA UiCallsAre ==
    /\ Len(UiCalls) = 9
    /\ UiBefore(1) = {}
    /\ UiBefore(10) = UiResources
    /\ \A n \in 1 .. 9 :
          /\ UiBefore(n + 1) = UiBefore(n) \cup UiCalls[n].gives
          /\ Begun(UiBefore(n))
          /\ \A left \in UiCalls[n].leaves :
                /\ Begun(UiBefore(n) \cup left)
                /\ "ui_context" \in UiBefore(n) \cup left <=> n > CreatesUiContext
  <1>1. Len(UiCalls) = 9
    BY DEF UiCalls, create_device
  <1>2. UiResources = {"ui", "ui_window", "ui_context", "ui_nuklear", "ui_staging",
                         "ui_shaders", "ui_program", "ui_objects"}
    BY DEF UiResources, UiObjects
  <1>3. UiBefore(1) = {} /\ UiBefore(10) = UiResources
    BY <1>2 DEF UiBefore, UiCall
  <1>4. ASSUME NEW n \in 1 .. 9
        PROVE  /\ UiCalls[n].gives = {r \in UiResources : UiCall[r] = n}
               /\ \A left \in UiCalls[n].leaves : left \subseteq UiCalls[n].gives
    <2>1. \/ n = 1 \/ n = 2 \/ n = 3 \/ n = 4 \/ n = 5 \/ n = 6
          \/ n = 7 \/ n = 8 \/ n = 9
      OBVIOUS
    <2> QED BY <2>1, <1>2 DEF UiCalls, create_device, UiCall
  <1>5. \A r \in UiResources : UiCall[r] \in Nat
    BY <1>2 DEF UiCall
  <1>6. ASSUME NEW n \in 1 .. 9
        PROVE  UiBefore(n + 1) = UiBefore(n) \cup UiCalls[n].gives
    BY <1>4, <1>5 DEF UiBefore
  <1>7. ASSUME NEW n \in 1 .. 9, NEW left \in UiCalls[n].leaves
        PROVE  /\ Begun(UiBefore(n) \cup left)
               /\ "ui_context" \in UiBefore(n) \cup left <=> n > CreatesUiContext
    <2>1. left \subseteq {r \in UiResources : UiCall[r] = n}
      BY <1>4
    <2>2. n # 3 \/ left = {}
      BY DEF UiCalls, create_device
    <2>3. CASE n < 3
      <3>1. UiBefore(n) \cup left \subseteq {"ui", "ui_window"}
        <4>1. n = 1 \/ n = 2
          BY <2>3
        <4>2. \A r \in UiResources : UiCall[r] <= 2 => r \in {"ui", "ui_window"}
          BY <1>2 DEF UiCall
        <4>3. \A r \in UiBefore(n) \cup left : r \in UiResources /\ UiCall[r] <= 2
          BY <2>1, <4>1, <1>5 DEF UiBefore
        <4> QED BY <4>2, <4>3
      <3> QED BY <2>3, <3>1, <1>2 DEF Begun, CreatesUiContext
    <2>4. CASE n = 3
      BY <2>2, <2>4, <1>2 DEF Begun, UiBefore, UiCall, CreatesUiContext
    <2>5. CASE n > 3
      <3>1. {"ui_window", "ui_context"} \subseteq UiBefore(n)
        BY <2>5, <1>2 DEF UiBefore, UiCall
      <3> QED BY <2>1, <2>5, <3>1 DEF Begun, UiBefore, CreatesUiContext
    <2> QED BY <2>3, <2>4, <2>5
  <1>8. ASSUME NEW n \in 1 .. 9 PROVE Begun(UiBefore(n))
    <2>1. CASE n <= 3
      <3>1. UiBefore(n) \subseteq {"ui", "ui_window"}
        BY <2>1, <1>2 DEF UiBefore, UiCall
      <3> QED BY <3>1, <1>2 DEF Begun
    <2>2. CASE n > 3
      BY <2>2, <1>2 DEF Begun, UiBefore, UiCall
    <2> QED BY <2>1, <2>2
  <1> QED BY <1>1, <1>3, <1>6, <1>7, <1>8

(* Nothing is held before main begins. *)
LEMMA HeldInit == MainInit => Held
  <1> USE DEF Stages, Failing, Turning, WithUi, WithoutUi, Either
  <1> SUFFICES ASSUME MainInit PROVE Held
    OBVIOUS
  <1>1. /\ live = {} /\ fields = {} /\ ~implementation /\ implementation \in BOOLEAN
        /\ init_call = 1 /\ pc \in {"renderer_init", "done"}
    BY DEF MainInit
  <1>2. CASE pc = "renderer_init"
    BY <1>1, <1>2, RendererCallsAre DEF Held
  <1>3. CASE pc = "done"
    BY <1>1, <1>3 DEF Held
  <1> QED BY <1>1, <1>2, <1>3

(* The renderer and the debug window hold neither socket.                  *)
LEMMA NotSockets == RendererResources \cap {"client_fd", "listen_fd"} = {}
                    /\ UiHeld \cap {"client_fd", "listen_fd"} = {}
  BY DEF RendererResources, RendererObjects, UiHeld, UiResources, UiObjects

(* Nothing is acquired or released: only where main is changes, to a stage *)
(* with the same resources.                                                *)
LEMMA SameHeld ==
    ASSUME Held, UNCHANGED <<live, fields, implementation>>,
           \/ pc \in Turning /\ pc' \in Turning
           \/ pc \in WithUi \cup Either /\ pc' \in Either
           \/ pc \in Either /\ implementation /\ pc' = "destroy_device"
           \/ pc \in WithoutUi /\ pc' \in WithoutUi
           \/ pc \in Either /\ ~implementation /\ pc' = "interconnect_destroy"
           \/ pc \in Failing /\ pc' \in Failing
    PROVE  Held'
  <1> USE DEF Stages, Failing, Turning, WithUi, WithoutUi, Either
  <1>1. fields = RendererResources \ {"sdl"} /\ fields' = fields
    BY DEF Held
  <1>2. CASE pc \in Turning /\ pc' \in Turning
    BY <1>1, <1>2 DEF Held, UiHeld
  <1>3. CASE pc \in WithUi \cup Either /\ pc' \in Either
    BY <1>1, <1>3 DEF Held, UiHeld
  <1>4. CASE pc \in Either /\ implementation /\ pc' = "destroy_device"
    BY <1>1, <1>4 DEF Held, UiHeld
  <1>5. CASE pc \in WithoutUi /\ pc' \in WithoutUi
    BY <1>1, <1>5 DEF Held
  <1>6. CASE pc \in Either /\ ~implementation /\ pc' = "interconnect_destroy"
    BY <1>1, <1>6 DEF Held, UiHeld
  <1>7. CASE pc \in Failing /\ pc' \in Failing
    BY <1>1, <1>7 DEF Held
  <1> QED BY <1>2, <1>3, <1>4, <1>5, <1>6, <1>7

(* A call of renderer_init: all that it has acquired is released when it fails. *)
LEMMA StartHeld ==
    ASSUME Held, renderer_init_Proceeds \/ renderer_init_Fails
    PROVE  Held'
  <1> USE DEF Stages, Failing, Turning, WithUi, WithoutUi, Either
  <1>1. ASSUME pc = "renderer_init", pc' = "done", live' = {}, fields' = {},
               UNCHANGED implementation
        PROVE  Held'
    BY <1>1 DEF Held
  <1>2. CASE renderer_init_Proceeds
    <2> DEFINE n == init_call
    <2>1. /\ n \in 1 .. 12 /\ live = RendererBefore(n) /\ fields = live \ {"sdl"}
          /\ pc = "renderer_init" /\ ~implementation /\ implementation' = implementation
      BY <1>2 DEF Held, renderer_init_Proceeds
    <2>2. live' = RendererBefore(n + 1) /\ fields' = live' \ {"sdl"}
      BY <1>2, <2>1, RendererCallsAre DEF renderer_init_Proceeds
    <2>3. CASE n < 12
      <3>1. pc' = "renderer_init" /\ init_call' = n + 1
        BY <1>2, <2>1, <2>3, RendererCallsAre DEF renderer_init_Proceeds, CallsLeft
      <3> QED BY <2>1, <2>2, <2>3, <3>1 DEF Held
    <2>4. CASE n = 12
      <3>1. pc' \in {"debug_ui_init", "gdb_port"} /\ init_call' = 1
        BY <1>2, <2>1, <2>4, RendererCallsAre DEF renderer_init_Proceeds, CallsLeft
      <3>2. live' = RendererResources
        BY <2>2, <2>4, RendererCallsAre
      <3> QED BY <2>1, <2>2, <3>1, <3>2, UiCallsAre DEF Held, UiHeld
    <2> QED BY <2>1, <2>3, <2>4
  <1>3. CASE renderer_init_Fails
    <2>1. /\ init_call \in 1 .. 12 /\ live = RendererBefore(init_call) /\ fields = live \ {"sdl"}
          /\ pc = "renderer_init" /\ pc' = "done" /\ UNCHANGED implementation
      BY <1>3 DEF Held, renderer_init_Fails, Goto
    <2>2. CASE init_call <= 4
      <3>1. live \subseteq {"sdl", "window"} /\ (init_call < 4 => live \subseteq {"sdl"})
            /\ (init_call = 1 => live = {})
        BY <2>1, <2>2 DEF RendererBefore, RendererCall, RendererResources, RendererObjects
      <3>2. FailureBeforeContext /\ fields' = {}
        BY <1>3, <2>2 DEF renderer_init_Fails, CreatesContext
      <3>3. live' = {}
        BY <2>2, <3>1, <3>2, <2>1 DEF FailureBeforeContext, CreatesContext
      <3> QED BY <1>1, <2>1, <3>2, <3>3
    <2>3. CASE init_call > 4
      <3>1. PICK left : renderer_destroy(left)
        BY <1>3, <2>1, <2>3 DEF renderer_init_Fails, CreatesContext
      <3> QED BY <1>1, <2>1, <3>1 DEF renderer_destroy
    <2> QED BY <2>1, <2>2, <2>3
  <1> QED BY <1>2, <1>3

(* A call of debug_ui_init. *)
LEMMA UiHeldStep ==
    ASSUME Held, debug_ui_init_Proceeds \/ debug_ui_init_Fails
    PROVE  Held'
  <1> USE DEF Stages, Failing, Turning, WithUi, WithoutUi, Either
  <1> DEFINE n == init_call
  <1>1. /\ n \in 1 .. 9 /\ live = RendererResources \cup UiBefore(n)
        /\ fields = RendererResources \ {"sdl"} /\ fields' = fields
        /\ pc = "debug_ui_init" /\ ~implementation
    BY DEF Held, debug_ui_init_Proceeds, debug_ui_init_Fails
  <1>2. CASE debug_ui_init_Proceeds
    <2>1. live' = RendererResources \cup UiBefore(n + 1)
      BY <1>1, <1>2, UiCallsAre DEF debug_ui_init_Proceeds
    <2>2. CASE n < 9
      <3>1. pc' = "debug_ui_init" /\ n' = n + 1 /\ implementation' = implementation
        BY <1>1, <1>2, <2>2, UiCallsAre DEF debug_ui_init_Proceeds, CallsLeft
      <3> QED BY <1>1, <2>1, <2>2, <3>1 DEF Held
    <2>3. CASE n = 9
      <3>1. pc' = "debug_ui_init_restore" /\ implementation' = TRUE
        BY <1>1, <1>2, <2>3, UiCallsAre DEF debug_ui_init_Proceeds, CallsLeft
      <3>2. live' = RendererResources \cup UiResources
        BY <2>1, <2>3, UiCallsAre
      <3> QED BY <1>1, <3>1, <3>2 DEF Held, UiHeld
    <2> QED BY <1>1, <2>2, <2>3
  <1>3. CASE debug_ui_init_Fails
    <2>1. PICK left \in UiCalls[n].leaves : live' = live \cup left
      BY <1>3 DEF debug_ui_init_Fails
    <2>2. Begun(UiBefore(n) \cup left) /\ live' = RendererResources \cup (UiBefore(n) \cup left)
      BY <1>1, <2>1, UiCallsAre
    <2>3. implementation' = implementation
          /\ IF n = 1 THEN pc' = "interconnect_destroy" ELSE pc' = "failure"
      BY <1>3 DEF debug_ui_init_Fails, Goto
    <2>4. CASE n = 1
      <3>1. live' = RendererResources
        BY <1>1, <2>1, <2>4, UiCallsAre DEF UiCalls
      <3> QED BY <1>1, <2>3, <2>4, <3>1 DEF Held
    <2>5. CASE n # 1
      BY <1>1, <2>2, <2>3, <2>5 DEF Held
    <2> QED BY <2>4, <2>5
  <1> QED BY <1>2, <1>3

(* The window is taken down, from the start that failed or at the end.     *)
LEMMA DownHeld ==
    ASSUME Held,
           failure_NoContext \/ failure_destroy_device \/ debug_ui_destroy_Device
    PROVE  Held'
  <1> USE DEF Stages, Failing, Turning, WithUi, WithoutUi, Either
  <1>1. RendererResources \cap UiResources = {}
    BY DEF RendererResources, RendererObjects, UiResources, UiObjects
  <1>2. ASSUME live' = RendererResources, pc' \in WithoutUi, UNCHANGED fields,
               implementation' = FALSE, pc \in Failing \cup WithUi
        PROVE  Held'
    BY <1>2 DEF Held
  <1>3. CASE failure_NoContext
    <2>1. PICK held : Begun(held) /\ live = RendererResources \cup held
      BY <1>3 DEF Held, failure_NoContext
    <2>2. "ui_context" \notin held /\ live' = live \ {"ui_window", "ui"}
      BY <1>3, <2>1 DEF failure_NoContext
    <2>3. live' = RendererResources
      <3>1. held \subseteq {"ui_window", "ui"}
        BY <2>1, <2>2 DEF Begun
      <3>2. {"ui_window", "ui"} \subseteq UiResources
        BY DEF UiResources
      <3> QED BY <1>1, <2>1, <2>2, <3>1, <3>2
    <2>4. pc = "failure" /\ pc' = "failure_restore" /\ UNCHANGED <<fields, implementation>>
      BY <1>3 DEF failure_NoContext, Goto
    <2>5. implementation = FALSE
      BY <2>4 DEF Held
    <2> QED BY <1>2, <2>3, <2>4, <2>5
  <1>4. CASE failure_destroy_device
    <2>1. PICK held : Begun(held) /\ live = RendererResources \cup held
      BY <1>4 DEF Held, failure_destroy_device
    <2>2. live' = RendererResources
      BY <1>1, <1>4, <2>1 DEF Begun, failure_destroy_device, destroy_device
    <2>3. pc = "failure_destroy_device" /\ pc' = "failure_restore"
          /\ UNCHANGED <<fields, implementation>>
      BY <1>4 DEF failure_destroy_device, Goto
    <2>4. implementation = FALSE
      BY <2>3 DEF Held
    <2> QED BY <1>2, <2>2, <2>3, <2>4
  <1>5. CASE debug_ui_destroy_Device
    <2>1. pc = "destroy_device" /\ pc' = "destroy_restore" /\ implementation' = FALSE /\ UNCHANGED fields
          /\ live' = live \ UiResources
      BY <1>5 DEF debug_ui_destroy_Device, destroy_device, Goto
    <2>2. live = RendererResources \cup UiResources
      BY <2>1 DEF Held, UiHeld
    <2> QED BY <1>1, <1>2, <2>1, <2>2
  <1> QED BY <1>3, <1>4, <1>5

(* Every step of main keeps what is held determined by where it is. *)
LEMMA HeldStep == Held /\ [MainNext]_mvars => Held'
  <1> SUFFICES ASSUME Held, [MainNext]_mvars PROVE Held'
    OBVIOUS
  <1> USE DEF Goto, resources, context, input,
              Stages, Failing, Turning, WithUi, WithoutUi, Either
  <1>1. CASE renderer_init_Proceeds \/ renderer_init_Fails
    BY <1>1, StartHeld
  <1>2. CASE debug_ui_init_Proceeds \/ debug_ui_init_Fails
    BY <1>2, UiHeldStep
  <1>3. CASE failure_NoContext \/ failure_destroy_device \/ debug_ui_destroy_Device
    BY <1>3, DownHeld
  <1>4. CASE failure_InContext \/ failure_restore \/ debug_ui_init_restore
    BY <1>4, SameHeld DEF failure_InContext, failure_restore, debug_ui_init_restore
  <1>5. CASE gdb_server_init_Fails
    BY <1>5, SameHeld DEF gdb_server_init_Fails
  <1>6. CASE gdb_server_init
    BY <1>6, NotSockets DEF gdb_server_init, Held, UiHeld
  <1>7. CASE debug_ui_input_begin \/ EndInput
    BY <1>7, SameHeld DEF debug_ui_input_begin, EndInput
  <1>8. CASE Events
    BY <1>8, SameHeld DEF Events, QuitEvent, PauseEvent, CloseUiEvent, NoMoreEvents
  <1>9. CASE debug_ui_frame
    BY <1>9, SameHeld DEF debug_ui_frame
  <1>10. CASE render_ui \/ debug_ui_frame_restore \/ RunInstructions
    BY <1>10, SameHeld DEF render_ui, debug_ui_frame_restore, RunInstructions
  <1>11. CASE gdb_server_destroy
    <2>1. pc = "gdb_server_destroy" /\ pc' = "debug_ui_destroy"
          /\ live' = live \ {"client_fd", "listen_fd"} /\ UNCHANGED <<fields, implementation>>
      BY <1>11 DEF gdb_server_destroy
    <2>2. live \ {"client_fd"} = RendererResources \cup UiHeld \cup {"listen_fd"}
      BY <2>1 DEF Held
    <2>3. live' = RendererResources \cup UiHeld
      BY <2>1, <2>2, NotSockets
    <2> QED BY <2>1, <2>3 DEF Held, UiHeld
  <1>12. CASE debug_ui_destroy
    BY <1>12, SameHeld DEF debug_ui_destroy, Held
  <1>13. CASE debug_ui_destroy_Restore
    BY <1>13, SameHeld DEF debug_ui_destroy_Restore
  <1>14. CASE interconnect_destroy
    <2>1. live' = {} /\ fields' = {} /\ implementation' = implementation
      BY <1>14 DEF interconnect_destroy, renderer_destroy, Held
    <2> QED BY <1>14, <2>1 DEF interconnect_destroy, Held
  <1>15. CASE UNCHANGED mvars
    BY <1>15 DEF mvars, Held, UiHeld
  <1>16. CASE Poll
    <2>1. pc = "poll" /\ pc' \in Turning /\ UNCHANGED <<fields, implementation>>
          /\ live' \ {"client_fd"} = live \ {"client_fd"}
      BY <1>16 DEF Poll
    <2> QED BY <2>1 DEF Held, UiHeld
  <1> QED
    BY <1>1, <1>2, <1>3, <1>4, <1>5, <1>6, <1>7, <1>8, <1>9, <1>10, <1>11, <1>12,
       <1>13, <1>14, <1>15, <1>16 DEF MainNext, Ended

(* What is held at each stage is released in order.                        *)
LEMMA HeldInOrder == Held => ReleasedInOrder
  <1> SUFFICES ASSUME Held PROVE ReleasedInOrder
    OBVIOUS
  <1> USE DEF Stages, Failing, Turning, WithUi, WithoutUi, Either
  <1> DEFINE Owners == {"sdl", "window", "gl_context"}
             UiOwners == {"ui_window", "ui_context"}
  <1>1. RendererResources = Owners \cup RendererObjects
    BY DEF RendererResources
  <1>2. NoDangling
    BY DEF NoDangling, Held, UiHeld
  <1>3. NothingLeft
    BY DEF NothingLeft, Held
  <1>4. CASE pc = "renderer_init"
    <2>1. live = RendererBefore(init_call) /\ init_call \in 1 .. 12
      BY <1>4 DEF Held
    <2> QED BY <1>2, <1>3, <2>1 DEF ReleasedInOrder, OwnersOutlive, RendererBefore,
            RendererCall, RendererResources, RendererObjects, UiObjects
  <1>5. CASE pc = "done"
    BY <1>2, <1>3, <1>5 DEF ReleasedInOrder, OwnersOutlive, Held
  <1>6. CASE pc \notin {"renderer_init", "done"}
    <2>1. PICK held : Begun(held) /\ live \in {RendererResources \cup held,
                                             RendererResources \cup held \cup {"listen_fd"},
                                             RendererResources \cup held
                                               \cup {"client_fd", "listen_fd"}}
      <3>1. Begun({}) /\ Begun(UiResources)
        BY DEF Begun, UiResources
      <3>2. Begun(UiHeld)
        BY <3>1 DEF UiHeld
      <3>3. pc = "debug_ui_init" => Begun(UiBefore(init_call))
        BY UiCallsAre DEF Held
      <3> QED BY <1>6, <3>1, <3>2, <3>3 DEF Held
    <2>2. Owners \subseteq live
      BY <1>1, <2>1
    <2>3. live \cap UiObjects # {} => UiOwners \subseteq live
      BY <1>1, <2>1 DEF Begun, UiObjects, RendererObjects
    <2> QED BY <1>2, <1>3, <2>2, <2>3 DEF ReleasedInOrder, OwnersOutlive
  <1> QED BY <1>4, <1>5, <1>6

(* Which context is current while no SDL_GL_MakeCurrent has failed.        *)
InUi == {"render_ui", "frame_restore", "failure_destroy_device"} \cup WithUi

Contexts ==
    faults = 0 =>
    /\ pc = "renderer_init" =>
          current = IF init_call > CreatesContext THEN "psx" ELSE "none"
    /\ pc = "debug_ui_init" =>
          current = IF init_call > CreatesUiContext THEN "ui" ELSE "psx"
    /\ pc \in InUi => current = "ui"
    /\ pc \in (Turning \ InUi) \cup Either \cup {"interconnect_destroy"} => current = "psx"
    /\ \/ pc \in Failing \cup {"failure_restore", "frame_restore", "render_ui",
                              "debug_ui_init_restore"}
       \/ pc = "debug_ui_init" /\ init_call > 1
       => previous_context = "psx"

(* A context becomes current by a call that does not fail, or a failure is *)
(* counted.                                                                *)
LEMMA MadeCurrent ==
    ASSUME faults \in Nat, NEW c, MakeCurrentUnchecked(c)
    PROVE  faults' \in Nat /\ (faults' = 0 => faults = 0 /\ current' = c)
  BY DEF MakeCurrentUnchecked, MakeCurrent, MakeCurrentFails

LEMMA ContextsStep ==
    Held /\ faults \in Nat /\ Contexts /\ [MainNext]_mvars => faults' \in Nat /\ Contexts'
  <1> SUFFICES ASSUME Held, faults \in Nat, Contexts, [MainNext]_mvars
               PROVE  faults' \in Nat /\ Contexts'
    OBVIOUS
  <1> USE DEF Goto, resources, context, input, InUi,
              Stages, Failing, Turning, WithUi, WithoutUi, Either
  <1>1. CASE renderer_init_Proceeds
    <2>1. /\ pc = "renderer_init" /\ init_call \in 1 .. 12 /\ faults' = faults
          /\ current' = IF init_call = 4 THEN "psx" ELSE current
          /\ IF init_call < 12 THEN pc' = pc /\ init_call' = init_call + 1
             ELSE pc' \in {"debug_ui_init", "gdb_port"} /\ init_call' = 1
      BY <1>1, RendererCallsAre DEF renderer_init_Proceeds, CallsLeft, CreatesContext, Held
    <2> QED BY <2>1 DEF Contexts, CreatesContext, CreatesUiContext
  <1>2. CASE renderer_init_Fails
    BY <1>2 DEF renderer_init_Fails, Contexts
  <1>3. CASE debug_ui_init_Proceeds
    <2>1. /\ pc = "debug_ui_init" /\ init_call \in 1 .. 9 /\ faults' = faults
          /\ current' = IF init_call = 3 THEN "ui" ELSE current
          /\ previous_context' = IF init_call = 1 THEN current ELSE previous_context
          /\ IF init_call < 9 THEN pc' = pc /\ init_call' = init_call + 1
             ELSE pc' = "debug_ui_init_restore"
      BY <1>3, UiCallsAre DEF debug_ui_init_Proceeds, CallsLeft, CreatesUiContext, Held
    <2> QED BY <2>1 DEF Contexts, CreatesUiContext
  <1>4. CASE debug_ui_init_Fails
    <2>1. /\ pc = "debug_ui_init" /\ init_call \in 1 .. 9 /\ UNCHANGED context
          /\ IF init_call = 1 THEN pc' = "interconnect_destroy" ELSE pc' = "failure"
      BY <1>4 DEF debug_ui_init_Fails, Held
    <2> QED BY <2>1 DEF Contexts, CreatesUiContext
  <1>5. CASE failure_InContext
    BY <1>5, MadeCurrent DEF failure_InContext, Contexts
  <1>6. CASE failure_NoContext
    BY <1>6 DEF failure_NoContext, Contexts
  <1>7. CASE failure_destroy_device
    BY <1>7 DEF failure_destroy_device, Contexts
  <1>8. CASE failure_restore
    <2>1. faults' \in Nat /\ (faults' = 0 => faults = 0 /\ current' = previous_context)
      BY <1>8, MadeCurrent DEF failure_restore
    <2> QED BY <1>8, <2>1 DEF failure_restore, Contexts
  <1>9. CASE debug_ui_init_restore
    <2>1. faults' \in Nat
          /\ (faults' = 0 => faults = 0 /\ current' = OrRenderer(previous_context))
      BY <1>9, MadeCurrent DEF debug_ui_init_restore
    <2> QED BY <1>9, <2>1 DEF debug_ui_init_restore, Contexts, OrRenderer
  <1>10. CASE gdb_server_init \/ gdb_server_init_Fails
    BY <1>10 DEF gdb_server_init, gdb_server_init_Fails, Contexts
  <1>11. CASE Poll \/ debug_ui_input_begin \/ EndInput
    BY <1>11 DEF Poll, debug_ui_input_begin, EndInput, Contexts
  <1>12. CASE Events
    BY <1>12 DEF Events, QuitEvent, PauseEvent, CloseUiEvent, NoMoreEvents, Contexts
  <1>13. CASE debug_ui_frame
    BY <1>13 DEF debug_ui_frame, MakeCurrent, MakeCurrentFails, Contexts
  <1>14. CASE render_ui \/ RunInstructions
    BY <1>14 DEF render_ui, RunInstructions, Contexts
  <1>15. CASE debug_ui_frame_restore
    <2>1. faults' \in Nat
          /\ (faults' = 0 => faults = 0 /\ current' = OrRenderer(previous_context))
      BY <1>15, MadeCurrent DEF debug_ui_frame_restore
    <2> QED BY <1>15, <2>1 DEF debug_ui_frame_restore, Contexts, OrRenderer
  <1>16. CASE gdb_server_destroy
    BY <1>16 DEF gdb_server_destroy, Contexts
  <1>17. CASE debug_ui_destroy
    BY <1>17, MadeCurrent DEF debug_ui_destroy, Contexts
  <1>18. CASE debug_ui_destroy_Device
    BY <1>18 DEF debug_ui_destroy_Device, Contexts
  <1>19. CASE debug_ui_destroy_Restore
    BY <1>19, MadeCurrent DEF debug_ui_destroy_Restore, Contexts
  <1>20. CASE interconnect_destroy
    BY <1>20 DEF interconnect_destroy, Contexts
  <1>21. CASE UNCHANGED mvars
    BY <1>21 DEF mvars, Contexts
  <1> QED
    BY <1>1, <1>2, <1>3, <1>4, <1>5, <1>6, <1>7, <1>8, <1>9, <1>10, <1>11, <1>12, <1>13,
       <1>14, <1>15, <1>16, <1>17, <1>18, <1>19, <1>20, <1>21 DEF MainNext, Ended

(* OpenGL is used in the context of its objects.                           *)
LEMMA ContextsOwn == Held /\ Contexts => GlInOwnContext
  BY DEF Contexts, GlInOwnContext, InUi, Turning, WithUi

(* Where main is determines what is held and, as long as no call has       *)
(* failed, which context is current.                                       *)
FrontendInv == Held /\ faults \in Nat /\ Contexts

LEMMA FrontendInvariance == MainSpec => []FrontendInv
  <1>1. MainInit => faults \in Nat /\ Contexts
    BY DEF MainInit, Contexts, CreatesContext, InUi, Stages, Failing, Turning, WithUi, Either
  <1>2. MainInit => FrontendInv
    BY <1>1, HeldInit DEF FrontendInv
  <1>3. FrontendInv /\ [MainNext]_mvars => FrontendInv'
    BY HeldStep, ContextsStep DEF FrontendInv
  <1> QED BY <1>2, <1>3, PTL DEF MainSpec

(* Whichever call of the start fails, wherever the loop is left and however *)
(* many calls of SDL_GL_MakeCurrent fail, renderer_init, debug_ui_init and  *)
(* the destroy functions release all that was acquired, in order.          *)
THEOREM ReleasedTheorem == MainSpec => []ReleasedInOrder
  BY FrontendInvariance, HeldInOrder, PTL DEF FrontendInv

(* While every SDL_GL_MakeCurrent succeeds, OpenGL objects are made, used  *)
(* and deleted in the context that they belong to.                         *)
THEOREM ContextTheorem == MainSpec => []GlInOwnContext
  BY FrontendInvariance, ContextsOwn, PTL DEF FrontendInv

-----------------------------------------------------------------------------
(* The end of the program.                                                 *)

(* How many steps main may still take once it is to end.                   *)
StepsLeft ==
    [input_end |-> 10, frame |-> 9, render_ui |-> 8, frame_restore |-> 7, cpu |-> 6,
     gdb_server_destroy |-> 5, debug_ui_destroy |-> 4, destroy_device |-> 3,
     destroy_restore |-> 2, interconnect_destroy |-> 1, done |-> 0, died |-> 0]

(* A quit is only forgotten by a poll of the events, and none comes.       *)
QuitStays == running \in BOOLEAN /\ (~running => pc \in DOMAIN StepsLeft)

Approach == ~running => ~running' /\ StepsLeft[pc'] < StepsLeft[pc]

(* One step after a quit. *)
LEMMA QuitStep ==
    ASSUME QuitStays, MainNext, ~UNCHANGED mvars
    PROVE  QuitStays' /\ Approach
  <1> USE DEF Goto, resources, context, input, StepsLeft
  <1>1. DOMAIN StepsLeft = {"input_end", "frame", "render_ui", "frame_restore", "cpu",
           "gdb_server_destroy", "debug_ui_destroy", "destroy_device", "destroy_restore",
           "interconnect_destroy", "done", "died"}
    OBVIOUS
  <1>2. running \in BOOLEAN /\ (~running => pc \in DOMAIN StepsLeft)
    BY DEF QuitStays
  <1>3. ASSUME running, running' = TRUE PROVE QuitStays' /\ Approach
    BY <1>3 DEF QuitStays, Approach
  <1>4. ASSUME pc' \in DOMAIN StepsLeft, running' \in BOOLEAN, ~running => Approach
        PROVE  QuitStays' /\ Approach
    BY <1>4 DEF QuitStays, Approach
  <1>5. CASE renderer_init_Proceeds \/ renderer_init_Fails
    BY <1>1, <1>2, <1>3, <1>5 DEF renderer_init_Proceeds, renderer_init_Fails
  <1>6. CASE debug_ui_init_Proceeds \/ debug_ui_init_Fails
    BY <1>1, <1>2, <1>3, <1>6 DEF debug_ui_init_Proceeds, debug_ui_init_Fails
  <1>7. CASE failure_InContext \/ failure_NoContext \/ failure_destroy_device
    BY <1>1, <1>2, <1>3, <1>7
       DEF failure_InContext, failure_NoContext, failure_destroy_device
  <1>8. CASE failure_restore \/ debug_ui_init_restore
    BY <1>1, <1>2, <1>3, <1>8 DEF failure_restore, debug_ui_init_restore
  <1>9. CASE gdb_server_init \/ gdb_server_init_Fails \/ Poll \/ debug_ui_input_begin
    BY <1>1, <1>2, <1>3, <1>9
       DEF gdb_server_init, gdb_server_init_Fails, Poll, debug_ui_input_begin
  <1>10. CASE Events
    <2>1. pc = "handle_events" /\ running
      BY <1>1, <1>2, <1>10
         DEF Events, QuitEvent, PauseEvent, CloseUiEvent, NoMoreEvents
    <2>2. running' = TRUE \/ (pc' = "input_end" /\ running' = FALSE)
      BY <1>2, <1>10, <2>1
         DEF Events, QuitEvent, PauseEvent, CloseUiEvent, NoMoreEvents
    <2> QED BY <1>1, <1>3, <1>4, <2>1, <2>2
  <1>11. ASSUME running' = running, pc' \in DOMAIN StepsLeft,
                ~running => StepsLeft[pc'] < StepsLeft[pc]
         PROVE  QuitStays' /\ Approach
    BY <1>2, <1>4, <1>11 DEF Approach
  <1>12. CASE EndInput
    BY <1>1, <1>11, <1>12 DEF EndInput
  <1>13. CASE debug_ui_frame
    BY <1>1, <1>11, <1>13 DEF debug_ui_frame
  <1>14. CASE render_ui \/ debug_ui_frame_restore
    BY <1>1, <1>11, <1>14 DEF render_ui, debug_ui_frame_restore
  <1>15. CASE RunInstructions
    <2>1. CASE running
      <3>1. running' = running /\ running = TRUE
        BY <1>2, <1>15, <2>1 DEF RunInstructions
      <3> QED BY <1>3, <2>1, <3>1
    <2>2. CASE ~running
      BY <1>1, <1>11, <1>15, <2>2 DEF RunInstructions
    <2> QED BY <2>1, <2>2
  <1>16. CASE gdb_server_destroy \/ debug_ui_destroy
    BY <1>1, <1>11, <1>16 DEF gdb_server_destroy, debug_ui_destroy
  <1>17. CASE debug_ui_destroy_Device \/ debug_ui_destroy_Restore
    BY <1>1, <1>11, <1>17 DEF debug_ui_destroy_Device, debug_ui_destroy_Restore
  <1>18. CASE interconnect_destroy
    BY <1>1, <1>11, <1>18 DEF interconnect_destroy
  <1> QED
    BY <1>5, <1>6, <1>7, <1>8, <1>9, <1>10, <1>12, <1>13, <1>14, <1>15, <1>16, <1>17, <1>18
       DEF MainNext, Ended

(* After a quit each step of main brings it nearer to its end, which it     *)
(* reaches within ten: what QuitEnds needs besides fairness.               *)
THEOREM QuitApproachesEnd == MainSpec => [][Approach]_mvars
  <1>1. MainInit => QuitStays
    BY DEF MainInit, QuitStays
  <1>2. QuitStays /\ UNCHANGED mvars => QuitStays'
    BY DEF QuitStays, mvars, input
  <1>3. QuitStays /\ [MainNext]_mvars => QuitStays' /\ [Approach]_mvars
    BY <1>2, QuitStep
  <1> QED BY <1>1, <1>3, PTL DEF MainSpec

=============================================================================
